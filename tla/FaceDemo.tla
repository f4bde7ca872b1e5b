------------------------------ MODULE FaceDemo ------------------------------
(***************************************************************************)
(* The recogniser, class FaceDemo: Recognize follows the faces of a frame  *)
(* from frame to frame and names the ones it knows, Register adds a person *)
(* to the tables of FaceStore, LocalSave and LocalLoad carry the people    *)
(* across a restart in a text file.                                        *)
(*                                                                         *)
(* One thread (AlgThread::run) calls it, so a call is never interleaved    *)
(* with another; but the process may be killed between any two steps, and  *)
(* only the file survives.  Each turn of a loop of the code is a step.     *)
(*                                                                         *)
(* pc is where that thread is:                                             *)
(*   "down"   no process                    "drop"   Recognize, the loop   *)
(*   "load"   LocalLoad, the loop                    of drop_aged_win      *)
(*   "idle"   between two calls             "save"   LocalSave, the loop   *)
(*   "track"  Recognize, the loop on faces                                 *)
(***************************************************************************)
EXTENDS FaceStore, FiniteSets

CONSTANTS
    FaceNum,        \* Recognize's face_num: how many faces it handles
    KeepLimit,      \* win_keep_limit
    TracePixels,    \* trace_pixels
    UnknownMax,     \* UNKNOWN_FACE_ID_MAX
    RegistryBase,   \* the registry counter starts and restarts here ...
    RegistryLimit,  \* ... when it gets there
    MaxRecords,     \* the capacity of face_mem_store
    Feature,        \* feature vectors
    Score,          \* Score[f][g]: compare of two of them
    ScoreThresh,    \* score_thresh
    Printed,        \* Printed[f]: f through the text file, at 6 digits
    Name,           \* what Register is called with
    Unknown,        \* "unknown"
    NullName,       \* "nullname"
    NoName,         \* ""
    NoTitle,        \* the title of a window that was never given one
    Frame,          \* what the detector may find in a frame
    RegisterId,     \* the ids Register is called with
    MaxFrames       \* bound: frames handled in one life of the process

\* A face the detector found: the centre of its box, the area, whether the
\* box lies inside the frame, and the feature vector of the aligned face.
Box == [x : Int, y : Int, area : Nat, inside : BOOLEAN, feature : Feature]

ASSUME LimitsAssumption ==
    /\ {FaceNum, UnknownMax, MaxRecords} \subseteq Nat \ {0}
    /\ {KeepLimit, TracePixels, MaxFrames} \subseteq Nat
    /\ {RegistryBase, RegistryLimit} \subseteq Nat
    /\ UnknownMax <= RegistryBase
    /\ RegistryBase + 1 < RegistryLimit

ASSUME FeatureAssumption ==
    /\ Score \in [Feature -> [Feature -> Int]]
    /\ ScoreThresh \in Nat
    /\ Printed \in [Feature -> Feature]

ASSUME NameAssumption ==
    /\ Unknown \notin Name
    /\ NullName \notin Name
    /\ NoName \notin Name
    /\ Unknown # NullName

ASSUME InputAssumption ==
    /\ Frame \subseteq Seq(Box)
    /\ RegisterId \subseteq Int

VARIABLES
    pc,
    todo,                 \* face_info: the faces of the frame being handled
    idx,                  \* the index of the loop that is running
    current_frame_count,
    face_win_list,
    result,               \* the last string Recognize returned
    current_id,           \* unknown ids drawn so far
    register_id,          \* the registry counter
    data_list,            \* the records of face_mem_store
    feature_db,           \* the pairs of the verifier
    disk,                 \* the file, its complete records
    ret                   \* what the last Register returned

tracking == <<todo, current_frame_count, face_win_list, result, current_id>>
tables   == <<register_id, data_list, feature_db>>
vars     == <<pc, idx, tracking, tables, disk, ret>>

-----------------------------------------------------------------------------
(* What the state is made of *)

UnknownIds  == 0..(UnknownMax - 1)
RegistryIds == RegistryBase..(RegistryLimit - 1)
FaceId      == UnknownIds \cup RegistryIds
WindowName  == Name \cup {Unknown, NullName}
Title       == [face_id : FaceId, name : WindowName]
Window      == [box : Box, face_id : FaceId, frame_seq : Nat,
                name : WindowName, title : Title \cup {NoTitle}]
Record      == [face_id : RegistryIds, name : Name, feature : Feature]
Pair        == [face_id : RegistryIds, feature : Feature]
Shown       == [box : Box, title : Title \cup {NoTitle}]
Busy        == {"load", "track", "drop", "save"}
Returned    == {0, -1, -2, -3}

TypeOK ==
    /\ pc \in Busy \cup {"down", "idle"}
    /\ todo \in Seq(Box)
    /\ idx \in Nat \ {0}
    /\ current_frame_count \in Nat
    /\ face_win_list \in Seq(Window)
    /\ DOMAIN result \subseteq Nat
    /\ \A k \in DOMAIN result : result[k] \in Shown
    /\ current_id \in Nat
    /\ register_id \in RegistryIds
    /\ data_list \in Seq(Record)
    /\ feature_db \in Seq(Pair)
    /\ disk \in Seq(Record)
    /\ ret \in Returned

\* No process yet; the memory is what the constructor and the statics of a
\* new one hold, and there is no file.
Init ==
    /\ pc = "down"
    /\ disk = << >>
    /\ todo = << >>
    /\ idx = 1
    /\ current_frame_count = 0
    /\ face_win_list = << >>
    /\ result = << >>
    /\ current_id = 0
    /\ register_id = RegistryBase
    /\ data_list = << >>
    /\ feature_db = << >>
    /\ ret = 0

-----------------------------------------------------------------------------
(* Recognize *)

\* Deviation: every face found is handled.
Kept_All(found) == {found}

\* What is left of the faces found once the smaller ones are erased.  The
\* sort is not stable, so faces of one size may come in any order.
Kept(found) ==
    IF Len(found) <= FaceNum
    THEN {found}
    ELSE { [k \in 1..FaceNum |-> found[order[k]]] :
             order \in { p \in Injection(1..FaceNum, DOMAIN found) :
                           \A k \in 1..FaceNum :
                             \A m \in DOMAIN found \ { p[l] : l \in 1..k } :
                               found[m].area <= found[p[k]].area } }

RecognizeStart ==
    /\ pc = "idle"
    /\ current_frame_count < MaxFrames
    /\ \E found \in Frame : todo' \in Kept(found)
    /\ current_frame_count' = current_frame_count + 1
    /\ idx' = 1
    /\ pc' = "track"
    /\ UNCHANGED <<face_win_list, result, current_id, tables, disk, ret>>

\* get_new_unknown_face_id, when n ids have been drawn.
UnknownId(n) == n % UnknownMax

\* The box lies near the window's, and the window is not too old.
Follows(win, box) ==
    /\ win.box.x - box.x < TracePixels
    /\ win.box.x - box.x > -TracePixels
    /\ win.box.y - box.y < TracePixels
    /\ win.box.y - box.y > -TracePixels
    /\ win.frame_seq + KeepLimit >= current_frame_count

\* get_face_id_name_by_position, its search: window k is the first that
\* follows the box, or the one to be added when none does.
IsNew(k) == k = Len(face_win_list) + 1

IsWindowOf(box, k) ==
    /\ \A m \in 1..(k-1) : ~ Follows(face_win_list[m], box)
    /\ ~ IsNew(k) => Follows(face_win_list[k], box)

\* Its result: window k moved to the box, or a new one, and the ids drawn.
Tracked(box, k) ==
    IF IsNew(k)
    THEN [box |-> box, face_id |-> UnknownId(current_id), name |-> Unknown,
          frame_seq |-> current_frame_count, title |-> NoTitle]
    ELSE [face_win_list[k] EXCEPT !.box = box,
                                  !.frame_seq = current_frame_count]

\* Deviation: the id of a new window is not counted as drawn.
Drawn_NotCounted(k) == current_id

Drawn(k) == IF IsNew(k) THEN current_id + 1 ELSE current_id

SetWindow(k, win) ==
    face_win_list' = IF IsNew(k) THEN Append(face_win_list, win)
                                 ELSE [face_win_list EXCEPT ![k] = win]

\* The window with an id and a name, and the title they make.
Titled(win, id, name) ==
    [win EXCEPT !.face_id = id, !.name = name,
                !.title = [face_id |-> id, name |-> name]]

\* Deviation: somebody the store does not have is called unknown.
NameOf_UnknownIfMissing(id) ==
    IF id \in IdsOf(data_list) THEN FindRecord(data_list, id).name ELSE Unknown

\* get_face_name_by_id
NameOf(id) ==
    IF id \in IdsOf(data_list) THEN FindRecord(data_list, id).name ELSE NullName

Scores(feature) ==
    [m \in DOMAIN feature_db |-> Score[feature][feature_db[m].feature]]

\* get_face_title, one action for each of its ways out.  A face that crosses
\* the edge of the frame is unknown, and every time under another id.
TitleOutside(box, k) ==
    /\ ~ box.inside
    /\ SetWindow(k, Titled(Tracked(box, k), UnknownId(Drawn(k)), Unknown))
    /\ current_id' = Drawn(k) + 1

\* The feature could not be extracted: the title stays as it was, and a new
\* window has none.
TitleNoFeature(box, k) ==
    /\ box.inside
    /\ SetWindow(k, Tracked(box, k))
    /\ current_id' = Drawn(k)

TitleRecognised(box, k) ==
    /\ box.inside
    /\ \E m \in DOMAIN feature_db :
         /\ IsBestMatch(feature_db, Scores(box.feature), ScoreThresh, m)
         /\ SetWindow(k, Titled(Tracked(box, k), feature_db[m].face_id,
                                NameOf(feature_db[m].face_id)))
    /\ current_id' = Drawn(k)

TitleNoLongerKnown(box, k) ==
    /\ box.inside
    /\ NoMatch(feature_db, Scores(box.feature), ScoreThresh)
    /\ Tracked(box, k).name # Unknown
    /\ SetWindow(k, Titled(Tracked(box, k), UnknownId(Drawn(k)), Unknown))
    /\ current_id' = Drawn(k) + 1

TitleStillUnknown(box, k) ==
    /\ box.inside
    /\ NoMatch(feature_db, Scores(box.feature), ScoreThresh)
    /\ Tracked(box, k).name = Unknown
    /\ SetWindow(k, Titled(Tracked(box, k), Tracked(box, k).face_id, Unknown))
    /\ current_id' = Drawn(k)

\* One face of the frame, in the order the detector or the sort left them.
TitleFace ==
    /\ pc = "track"
    /\ idx <= Len(todo)
    /\ \E k \in 1..(Len(face_win_list) + 1) :
         /\ IsWindowOf(todo[idx], k)
         /\ \/ TitleOutside(todo[idx], k)
            \/ TitleNoFeature(todo[idx], k)
            \/ TitleRecognised(todo[idx], k)
            \/ TitleNoLongerKnown(todo[idx], k)
            \/ TitleStillUnknown(todo[idx], k)
    /\ idx' = idx + 1
    /\ UNCHANGED <<pc, todo, current_frame_count, result, tables, disk, ret>>

\* The windows of this frame, and those of them the result has room for.
Current == { k \in DOMAIN face_win_list :
               face_win_list[k].frame_seq = current_frame_count }

\* Deviation: windows of earlier frames are reported too.
Reported_AnyFrame ==
    { k \in DOMAIN face_win_list : Cardinality(1..(k-1)) < FaceNum }

Reported == { k \in Current : Cardinality({ m \in Current : m < k }) < FaceNum }

\* The text Recognize returns lists the reported windows in list order; here
\* it is a function on their positions.
BuildResult ==
    /\ pc = "track"
    /\ idx > Len(todo)
    /\ result' = [k \in Reported |-> [box |-> face_win_list[k].box,
                                      title |-> face_win_list[k].title]]
    /\ idx' = 1
    /\ pc' = "drop"
    /\ UNCHANGED <<todo, current_frame_count, face_win_list, current_id, tables,
                   disk, ret>>

Aged(win) == win.frame_seq + KeepLimit < current_frame_count

\* Deviation: the window behind an erased one is passed over.
DropWindow_SkipsNext ==
    /\ pc = "drop"
    /\ idx <= Len(face_win_list)
    /\ face_win_list' = IF Aged(face_win_list[idx])
                        THEN RemoveAt(face_win_list, idx) ELSE face_win_list
    /\ idx' = idx + 1
    /\ UNCHANGED <<pc, todo, current_frame_count, result, current_id, tables,
                   disk, ret>>

\* Deviation: the loop does not go on behind a window that stays.
DropWindow_Stays ==
    /\ pc = "drop"
    /\ idx <= Len(face_win_list)
    /\ Aged(face_win_list[idx])
    /\ face_win_list' = RemoveAt(face_win_list, idx)
    /\ UNCHANGED <<pc, todo, idx, current_frame_count, result, current_id,
                   tables, disk, ret>>

\* drop_aged_win, one window a step: erase it or go on to the next.
DropWindow ==
    /\ pc = "drop"
    /\ idx <= Len(face_win_list)
    /\ IF Aged(face_win_list[idx])
       THEN /\ face_win_list' = RemoveAt(face_win_list, idx)
            /\ UNCHANGED idx
       ELSE /\ idx' = idx + 1
            /\ UNCHANGED face_win_list
    /\ UNCHANGED <<pc, todo, current_frame_count, result, current_id, tables,
                   disk, ret>>

RecognizeReturn ==
    /\ pc = "drop"
    /\ idx > Len(face_win_list)
    /\ pc' = "idle"
    /\ todo' = << >>
    /\ idx' = 1
    /\ UNCHANGED <<current_frame_count, face_win_list, result, current_id, tables,
                   disk, ret>>

-----------------------------------------------------------------------------
(* Register *)

\* Deviation: the registry counter does not go round.
NextRegistryId_NoWrap == register_id + 1

\* get_new_registry_id
NextRegistryId ==
    IF register_id + 1 = RegistryLimit THEN RegistryBase ELSE register_id + 1

\* The windows Register may take the face from; it takes the first.
Registrable(id) == { k \in Current : face_win_list[k].face_id = id }

Refuse(code) ==
    /\ ret' = code
    /\ UNCHANGED <<pc, idx, tracking, tables, disk>>

BadArguments(id, name) == id < 0 \/ name = NoName

OtherName(id, name) ==
    id \in IdsOf(data_list) /\ FindRecord(data_list, id).name # name

RegisterRefused(id, name) ==
    \/ BadArguments(id, name) /\ Refuse(-1)
    \/ ~ BadArguments(id, name) /\ OtherName(id, name) /\ Refuse(-2)
    \/ /\ ~ BadArguments(id, name) /\ ~ OtherName(id, name)
       /\ Registrable(id) = {}
       /\ Refuse(-3)

\* The feature could not be extracted: the network does not take the face.
RegisterNoFeature(id, name) ==
    /\ ~ BadArguments(id, name) /\ ~ OtherName(id, name)
    /\ Registrable(id) # {}
    /\ Refuse(-1)

\* The face gets a registry id if its own is that of an unknown one.  What
\* insert_new_record returns is not looked at.
RegisterPerson(id, name) ==
    LET newId   == IF id < UnknownMax THEN NextRegistryId ELSE id
        feature == face_win_list[Min(Registrable(id))].box.feature
        record  == [face_id |-> newId, name |-> name, feature |-> feature]
    IN /\ ~ BadArguments(id, name) /\ ~ OtherName(id, name)
       /\ Registrable(id) # {}
       /\ register_id' = IF id < UnknownMax THEN newId ELSE register_id
       /\ data_list' = InsertRecord(data_list, record, MaxRecords)
       /\ feature_db' = InsertFeature(feature_db, feature, newId)
       /\ ret' = 0
       /\ UNCHANGED <<pc, idx, tracking, disk>>

Register ==
    /\ pc = "idle"
    /\ \E id \in RegisterId, name \in Name \cup {NoName} :
         \/ RegisterRefused(id, name)
         \/ RegisterNoFeature(id, name)
         \/ RegisterPerson(id, name)

-----------------------------------------------------------------------------
(* LocalSave and LocalLoad *)

\* Deviation: the file is opened for appending.
SaveStart_Appends ==
    /\ pc = "idle"
    /\ idx' = 1
    /\ pc' = "save"
    /\ UNCHANGED <<tracking, tables, disk, ret>>

\* Opening the file for writing empties it.  (When it cannot be opened
\* LocalSave returns and nothing has changed.)
SaveStart ==
    /\ pc = "idle"
    /\ disk' = << >>
    /\ idx' = 1
    /\ pc' = "save"
    /\ UNCHANGED <<tracking, tables, ret>>

Saved(record) == [record EXCEPT !.feature = Printed[record.feature]]

\* The lines of a record are flushed as they are written; a record of which
\* some line is missing is not read back.
SaveRecord ==
    /\ pc = "save"
    /\ idx <= Len(data_list)
    /\ disk' = Append(disk, Saved(data_list[idx]))
    /\ idx' = idx + 1
    /\ UNCHANGED <<pc, tracking, tables, ret>>

SaveReturn ==
    /\ pc = "save"
    /\ idx > Len(data_list)
    /\ idx' = 1
    /\ pc' = "idle"
    /\ UNCHANGED <<tracking, tables, disk, ret>>

LoadRecord ==
    /\ pc = "load"
    /\ idx <= Len(disk)
    /\ data_list' = InsertRecord(data_list, disk[idx], MaxRecords)
    /\ feature_db' = InsertFeature(feature_db, disk[idx].feature,
                                   disk[idx].face_id)
    /\ idx' = idx + 1
    /\ UNCHANGED <<pc, tracking, register_id, disk, ret>>

LoadReturn ==
    /\ pc = "load"
    /\ idx > Len(disk)
    /\ idx' = 1
    /\ pc' = "idle"
    /\ UNCHANGED <<tracking, tables, disk, ret>>

-----------------------------------------------------------------------------
(* The process *)

\* Started by hand, or by run.sh, which removes the file first.
Start ==
    /\ pc = "down"
    /\ disk' \in {disk, << >>}
    /\ pc' = "load"
    /\ UNCHANGED <<idx, tracking, tables, ret>>

\* Killed: all but the file is lost, and counts from the start again.
Crash ==
    /\ pc # "down"
    /\ pc' = "down"
    /\ todo' = << >>
    /\ idx' = 1
    /\ current_frame_count' = 0
    /\ face_win_list' = << >>
    /\ result' = << >>
    /\ current_id' = 0
    /\ register_id' = RegistryBase
    /\ data_list' = << >>
    /\ feature_db' = << >>
    /\ ret' = 0
    /\ UNCHANGED disk

\* The steps a call takes once it is made.
Proceed ==
    \/ TitleFace \/ BuildResult \/ DropWindow \/ RecognizeReturn
    \/ SaveRecord \/ SaveReturn
    \/ LoadRecord \/ LoadReturn

Next ==
    \/ Start \/ Crash
    \/ RecognizeStart \/ Register \/ SaveStart
    \/ Proceed

\* The thread keeps running; nobody has to call anything, and nobody has to
\* start or kill the process.
Fairness == WF_vars(Proceed)

Spec == Init /\ [][Next]_vars /\ Fairness
-----------------------------------------------------------------------------
(* What must hold *)

\* The id of a face in the result says whether it has a name: below the bound
\* of the unknown ids it has none, and from there on it has one.  AlgThread
\* and main.cpp know a registered person by nothing but the id.
IdTellsRecognition ==
    \A k \in DOMAIN result :
        LET title == result[k].title
        IN title # NoTitle =>
             (title.name = Unknown <=> title.face_id < UnknownMax)

\* After Recognize has returned, every face it reported can be registered by
\* the id it was reported under: Register finds its window, in this frame.
\* (A new face without a feature is reported without an id.)
ReportedCanBeRegistered ==
    pc \in {"idle", "save"} =>
        \A k \in DOMAIN result :
            result[k].title # NoTitle =>
                Registrable(result[k].title.face_id) # {}

\* The two points are at most d apart, across and down.
Within(d, a, b) ==
    /\ a.x - b.x \in -d..d
    /\ a.y - b.y \in -d..d

\* No face handled in a frame is left out of its result: neither by the loop
\* that stops at face_num, nor because a later face of the frame takes its
\* window away, which may happen once for each of the faces behind it and
\* moves the window by less than trace_pixels.  So a face is shown at its
\* place, or those that took its window stand close to it.
EveryFaceReported ==
    pc = "drop" =>
        \A l \in DOMAIN todo : \E k \in DOMAIN result :
            Within((Len(todo) - l) * TracePixels, todo[l], result[k].box)

\* Windows do not pile up: between two calls there are those of this frame
\* and of the KeepLimit frames before it, and no more.
WindowsBounded ==
    pc \in {"idle", "save"} =>
        /\ Len(face_win_list) <= FaceNum * (KeepLimit + 1)
        /\ \A k \in DOMAIN face_win_list : ~ Aged(face_win_list[k])

\* Until the counter of the unknown ids has gone round, two windows never
\* hold the same one, however faces come, go, and cross the edge.
UnknownIdsDistinct ==
    current_id <= UnknownMax =>
        \A k, m \in DOMAIN face_win_list :
            /\ face_win_list[k].face_id = face_win_list[m].face_id
            /\ face_win_list[k].face_id < UnknownMax
            => k = m

\* The two tables stay together: one entry for an id in each, nobody in the
\* store whom the verifier does not know, and until the store is full the
\* same people with the same features.
TablesAgree ==
    /\ UniqueIds(data_list)
    /\ UniqueIds(feature_db)
    /\ Len(data_list) <= MaxRecords
    /\ IdsOf(data_list) \subseteq IdsOf(feature_db)
    /\ Len(data_list) < MaxRecords => InStep(data_list, feature_db)

\* A recognised face is shown as "nullname" only if the store was full when
\* the person was registered.
NullNameOnlyWhenFull ==
    \A k \in DOMAIN face_win_list :
        face_win_list[k].name = NullName => Len(data_list) = MaxRecords

\* The file and the store.  While the file is written it is the part of the
\* store the loop has been through; while it is read the store is the part of
\* the file the loop has been through; and between calls everyone in the file
\* is in the store, so that saving again loses nobody.
FileFollowsStore ==
    /\ pc = "save" => /\ idx = Len(disk) + 1
                      /\ Len(disk) <= Len(data_list)
                      /\ \A k \in DOMAIN disk : disk[k] = Saved(data_list[k])
    /\ pc = "load" => /\ idx = Len(data_list) + 1
                      /\ Len(data_list) <= Len(disk)
                      /\ \A k \in DOMAIN data_list : data_list[k] = disk[k]
    /\ pc \in {"idle", "track", "drop"} => IdsOf(disk) \subseteq IdsOf(data_list)

\* While the process lives nobody who was registered is forgotten, whatever
\* is registered later and however full the store is.
PeopleKept ==
    [][pc' # "down" => /\ IdsOf(data_list) \subseteq IdsOf(data_list')
                       /\ IdsOf(feature_db) \subseteq IdsOf(feature_db')]_vars

\* Register refuses to give a person another name (the -2), so a record has
\* the name it was first stored with.
NameNeverChanges ==
    [][\A k \in DOMAIN data_list, m \in DOMAIN data_list' :
         data_list[k].face_id = data_list'[m].face_id =>
             data_list[k].name = data_list'[m].name]_vars

\* The people of a table, by id; of two records with one id the first counts,
\* as it does for find_record.
PeopleOf(table) ==
    [id \in IdsOf(table) |-> [name    |-> FindRecord(table, id).name,
                              feature |-> FindRecord(table, id).feature]]

Registry == INSTANCE FaceRegistry WITH
    Id <- RegistryIds,
    Person <- [name : Name, feature : Feature],
    Written <- Saved,
    Capacity <- MaxRecords,
    phase <- IF pc \in {"track", "drop", "idle"} THEN "up" ELSE pc,
    people <- PeopleOf(data_list),
    file <- PeopleOf(disk)

\* The recogniser is a registry of people: with all its windows, scans, loops
\* and replaced records, register, save, load and a kill at any point do to
\* the people and to the file no more than the four operations of FaceRegistry
\* may, and loading and saving come to an end.
IsRegistry == Registry!Spec

\* Every call comes back, unless the process is killed.
CallsReturn == pc \in Busy ~> pc \in {"idle", "down"}
=============================================================================
