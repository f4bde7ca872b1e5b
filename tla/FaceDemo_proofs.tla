--------------------------- MODULE FaceDemo_proofs ---------------------------
(***************************************************************************)
(* Theorems about FaceDemo, for every detector, every feature vector,      *)
(* every score and every bound.                                            *)
(***************************************************************************)
EXTENDS FaceDemo, FaceStore_proofs

-----------------------------------------------------------------------------
(* Types *)

\* An unknown id is one below the bound.
LEMMA UnknownIdRange ==
    ASSUME NEW n \in Nat
    PROVE  /\ UnknownId(n) \in UnknownIds
           /\ UnknownId(n) \in FaceId
           /\ UnknownId(n) < UnknownMax
<1>1. UnknownMax \in Nat /\ UnknownMax > 0
  BY LimitsAssumption
<1>2. QED
  BY <1>1 DEF UnknownId, UnknownIds, FaceId

\* The counter of the registry ids stays in its range.
LEMMA NextRegistryIdRange ==
    register_id \in RegistryIds => NextRegistryId \in RegistryIds
BY LimitsAssumption DEF RegistryIds, NextRegistryId

\* The two kinds of ids are numbers, and the unknown ones lie below the others.
LEMMA FaceIdRange ==
    ASSUME NEW id \in FaceId
    PROVE  /\ id \in Nat
           /\ id < UnknownMax \/ id \in RegistryIds
BY LimitsAssumption DEF FaceId, UnknownIds, RegistryIds

\* A registry id is not an unknown id.
LEMMA RegistryIdRange ==
    ASSUME NEW id \in RegistryIds
    PROVE  id \in FaceId /\ id \in Nat /\ ~ (id < UnknownMax)
BY LimitsAssumption DEF FaceId, RegistryIds

\* What the sort leaves is a sequence of faces of the frame.
LEMMA KeptType ==
    ASSUME NEW found \in Frame, NEW kept \in Kept(found)
    PROVE  kept \in Seq(Box)
<1>1. found \in Seq(Box)
  BY InputAssumption
<1>2. CASE Len(found) <= FaceNum
  BY <1>1, <1>2 DEF Kept
<1>3. CASE ~ (Len(found) <= FaceNum)
  <2>1. PICK order \in Injection(1..FaceNum, DOMAIN found) :
               kept = [k \in 1..FaceNum |-> found[order[k]]]
    BY <1>3 DEF Kept
  <2>2. order \in [1..FaceNum -> DOMAIN found]
    BY DEF Injection
  <2>3. kept \in [1..FaceNum -> Box]
    BY <1>1, <2>1, <2>2
  <2>4. FaceNum \in Nat
    BY LimitsAssumption
  <2>5. QED
    BY <2>3, <2>4
<1>4. QED
  BY <1>2, <1>3

\* A tracked window is a window, and so is one that is given a title.
LEMMA TrackedType ==
    ASSUME TypeOK, NEW box \in Box, NEW k \in 1..(Len(face_win_list) + 1)
    PROVE  Tracked(box, k) \in Window /\ Drawn(k) \in Nat
<1>1. CASE IsNew(k)
  <2>1. UnknownId(current_id) \in FaceId
    BY UnknownIdRange DEF TypeOK
  <2>2. QED
    BY <1>1, <2>1 DEF Tracked, Drawn, Window, WindowName, TypeOK
<1>2. CASE ~ IsNew(k)
  <2>1. face_win_list[k] \in Window
    BY <1>2 DEF IsNew, TypeOK
  <2>2. QED
    BY <1>2, <2>1 DEF Tracked, Drawn, Window, TypeOK
<1>3. QED
  BY <1>1, <1>2

\* A window that is given an id and a name is still a window.
LEMMA TitledType ==
    ASSUME NEW win \in Window, NEW id \in FaceId, NEW name \in WindowName
    PROVE  Titled(win, id, name) \in Window
BY DEF Titled, Window, Title

\* get_face_name_by_id answers with a name a window may have.
LEMMA NameOfType ==
    ASSUME TypeOK, NEW id
    PROVE  NameOf(id) \in Name \cup {NullName}
<1>1. CASE id \in IdsOf(data_list)
  <2>1. PositionOf(data_list, id) \in 1..Len(data_list)
    BY <1>1, PositionOfFound DEF TypeOK
  <2>2. FindRecord(data_list, id) \in Record
    BY <2>1 DEF FindRecord, TypeOK
  <2>3. QED
    BY <1>1, <2>2 DEF NameOf, Record
<1>2. CASE id \notin IdsOf(data_list)
  BY <1>2 DEF NameOf
<1>3. QED
  BY <1>1, <1>2

\* Moving a window or adding one leaves a list of windows.
LEMMA SetWindowType ==
    ASSUME TypeOK, NEW k \in 1..(Len(face_win_list) + 1), NEW win \in Window,
           SetWindow(k, win)
    PROVE  face_win_list' \in Seq(Window)
<1>1. CASE IsNew(k)
  BY <1>1 DEF SetWindow, TypeOK
<1>2. CASE ~ IsNew(k)
  BY <1>2 DEF SetWindow, TypeOK, IsNew
<1>3. QED
  BY <1>1, <1>2

\* The window Register takes the face from is in the list.
LEMMA RegistrableFirst ==
    ASSUME TypeOK, NEW id, Registrable(id) # {}
    PROVE  /\ Min(Registrable(id)) \in Registrable(id)
           /\ Min(Registrable(id)) \in DOMAIN face_win_list
<1>1. Registrable(id) \subseteq DOMAIN face_win_list
  BY DEF Registrable, Current
<1>2. Registrable(id) \subseteq Nat
  BY <1>1 DEF TypeOK
<1>3. QED
  BY <1>1, <1>2, MinOfNats

-----------------------------------------------------------------------------
(* Every variable keeps its type: the actions one by one *)

\* get_face_title keeps the types, on each of its ways out.
LEMMA TypeTitleFace == TypeOK /\ TitleFace => TypeOK'
<1> SUFFICES ASSUME TypeOK, TitleFace PROVE TypeOK'
  OBVIOUS
<1>1. PICK k \in 1..(Len(face_win_list) + 1) :
           \/ TitleOutside(todo[idx], k)
           \/ TitleNoFeature(todo[idx], k)
           \/ TitleRecognised(todo[idx], k)
           \/ TitleNoLongerKnown(todo[idx], k)
           \/ TitleStillUnknown(todo[idx], k)
  BY DEF TitleFace
<1> DEFINE box == todo[idx]
           win == Tracked(box, k)
<1>2. box \in Box
  BY DEF TitleFace, TypeOK
<1>3. win \in Window /\ Drawn(k) \in Nat
  BY <1>2, TrackedType
<1>4. UnknownId(Drawn(k)) \in FaceId
  BY <1>3, UnknownIdRange
<1>5. Unknown \in WindowName /\ win.face_id \in FaceId
  BY <1>3 DEF WindowName, Window
<1> HIDE DEF box, win
<1>6. face_win_list' \in Seq(Window) /\ current_id' \in Nat
  <2>1. CASE TitleOutside(box, k) \/ TitleNoLongerKnown(box, k)
    <3>1. Titled(win, UnknownId(Drawn(k)), Unknown) \in Window
      BY <1>3, <1>4, <1>5, TitledType
    <3>2. QED
      BY <2>1, <3>1, <1>3, SetWindowType DEF TitleOutside, TitleNoLongerKnown, win
  <2>2. CASE TitleNoFeature(box, k)
    BY <2>2, <1>3, SetWindowType DEF TitleNoFeature, win
  <2>3. CASE TitleRecognised(box, k)
    <3>1. PICK m \in DOMAIN feature_db :
                 SetWindow(k, Titled(win, feature_db[m].face_id,
                                     NameOf(feature_db[m].face_id)))
      BY <2>3 DEF TitleRecognised, win
    <3>2. feature_db[m].face_id \in FaceId
      <4>1. feature_db[m] \in Pair
        BY DEF TypeOK
      <4>2. QED
        BY <4>1, RegistryIdRange DEF Pair
    <3>3. NameOf(feature_db[m].face_id) \in WindowName
      BY NameOfType DEF WindowName
    <3>4. Titled(win, feature_db[m].face_id, NameOf(feature_db[m].face_id)) \in Window
      BY <3>2, <3>3, <1>3, TitledType
    <3>5. QED
      BY <2>3, <3>1, <3>4, <1>3, SetWindowType DEF TitleRecognised
  <2>4. CASE TitleStillUnknown(box, k)
    <3>1. Titled(win, win.face_id, Unknown) \in Window
      BY <1>3, <1>5, TitledType
    <3>2. QED
      BY <2>4, <3>1, <1>3, SetWindowType DEF TitleStillUnknown, win
  <2>5. QED
    BY <1>1, <2>1, <2>2, <2>3, <2>4 DEF box
<1>7. QED
  BY <1>6 DEF TitleFace, TypeOK, tables

\* The other steps of Recognize keep the types.
LEMMA TypeRecognize ==
    TypeOK /\ (RecognizeStart \/ BuildResult \/ DropWindow \/ RecognizeReturn) => TypeOK'
<1> SUFFICES ASSUME TypeOK,
                    RecognizeStart \/ BuildResult \/ DropWindow \/ RecognizeReturn
             PROVE  TypeOK'
  OBVIOUS
<1>1. CASE RecognizeStart
  <2>1. todo' \in Seq(Box)
    BY <1>1, KeptType DEF RecognizeStart
  <2>2. QED
    BY <1>1, <2>1 DEF RecognizeStart, TypeOK, tables, Busy
<1>2. CASE BuildResult
  <2>1. Reported \subseteq DOMAIN face_win_list /\ Reported \subseteq Nat
    BY DEF Reported, Current, TypeOK
  <2>2. \A k \in Reported : [box |-> face_win_list[k].box,
                             title |-> face_win_list[k].title] \in Shown
    <3>1. ASSUME NEW k \in Reported
          PROVE  face_win_list[k] \in Window
      BY <2>1 DEF TypeOK
    <3>2. QED
      BY <3>1 DEF Window, Shown
  <2>3. DOMAIN result' \subseteq Nat /\ \A k \in DOMAIN result' : result'[k] \in Shown
    BY <1>2, <2>1, <2>2 DEF BuildResult
  <2>4. QED
    BY <1>2, <2>3 DEF BuildResult, TypeOK, tables, Busy
<1>3. CASE DropWindow
  <2>1. CASE Aged(face_win_list[idx])
    <3>1. face_win_list' \in Seq(Window)
      BY <1>3, <2>1, RemoveAtEntries DEF DropWindow, TypeOK
    <3>2. QED
      BY <1>3, <2>1, <3>1 DEF DropWindow, TypeOK, tables
  <2>2. CASE ~ Aged(face_win_list[idx])
    BY <1>3, <2>2 DEF DropWindow, TypeOK, tables
  <2>3. QED
    BY <2>1, <2>2
<1>4. CASE RecognizeReturn
  BY <1>4 DEF RecognizeReturn, TypeOK, tables, tracking
<1>5. QED
  BY <1>1, <1>2, <1>3, <1>4

\* What Register stores is a record, and the pair that goes with it.
LEMMA RegisterPersonRecord ==
    ASSUME TypeOK, NEW id \in RegisterId, NEW name \in Name \cup {NoName},
           RegisterPerson(id, name)
    PROVE  \E record \in Record :
             /\ register_id' \in RegistryIds
             /\ data_list' = InsertRecord(data_list, record, MaxRecords)
             /\ feature_db' = InsertFeature(feature_db, record.feature,
                                            record.face_id)
<1> DEFINE newId   == IF id < UnknownMax THEN NextRegistryId ELSE id
           feature == face_win_list[Min(Registrable(id))].box.feature
           record  == [face_id |-> newId, name |-> name, feature |-> feature]
<1>1. /\ register_id' = IF id < UnknownMax THEN newId ELSE register_id
      /\ data_list' = InsertRecord(data_list, record, MaxRecords)
      /\ feature_db' = InsertFeature(feature_db, feature, newId)
      /\ Registrable(id) # {} /\ ~ BadArguments(id, name)
  BY DEF RegisterPerson
<1>2. name \in Name
  BY <1>1 DEF BadArguments
<1>3. feature \in Feature
  <2>1. face_win_list[Min(Registrable(id))] \in Window
    BY <1>1, RegistrableFirst DEF TypeOK
  <2>2. QED
    BY <2>1 DEF Window, Box
<1>4. newId \in RegistryIds
  <2>1. id \in FaceId
    <3>1. PICK k \in DOMAIN face_win_list : face_win_list[k].face_id = id
      BY <1>1 DEF Registrable, Current
    <3>2. face_win_list[k] \in Window
      BY <3>1 DEF TypeOK
    <3>3. QED
      BY <3>1, <3>2 DEF Window
  <2>2. NextRegistryId \in RegistryIds
    BY NextRegistryIdRange DEF TypeOK
  <2>3. QED
    BY <2>1, <2>2, FaceIdRange
<1>5. register_id' \in RegistryIds
  BY <1>1, <1>4 DEF TypeOK
<1> HIDE DEF newId, feature
<1>6. /\ record \in Record
      /\ record.feature = feature
      /\ record.face_id = newId
  BY <1>2, <1>3, <1>4 DEF Record
<1>7. QED
  BY <1>1, <1>5, <1>6

\* Register keeps the types, whether it refuses or not.
LEMMA TypeRegister == TypeOK /\ Register => TypeOK'
<1> SUFFICES ASSUME TypeOK, Register PROVE TypeOK'
  OBVIOUS
<1>1. PICK id \in RegisterId, name \in Name \cup {NoName} :
           \/ RegisterRefused(id, name)
           \/ RegisterNoFeature(id, name)
           \/ RegisterPerson(id, name)
  BY DEF Register
<1>2. CASE RegisterRefused(id, name) \/ RegisterNoFeature(id, name)
  BY <1>2 DEF RegisterRefused, RegisterNoFeature, Refuse, TypeOK, tracking,
              tables, Returned
<1>3. CASE RegisterPerson(id, name)
  <2>1. PICK record \in Record :
             /\ register_id' \in RegistryIds
             /\ data_list' = InsertRecord(data_list, record, MaxRecords)
             /\ feature_db' = InsertFeature(feature_db, record.feature,
                                            record.face_id)
    BY <1>3, RegisterPersonRecord
  <2>2. [face_id |-> record.face_id, feature |-> record.feature] \in Pair
    BY <2>1 DEF Record, Pair
  <2>3. data_list' \in Seq(Record)
    BY <2>1, InsertRecordTable, LimitsAssumption DEF TypeOK
  <2>4. feature_db' \in Seq(Pair)
    BY <2>1, <2>2, InsertFeatureTable DEF TypeOK
  <2>5. QED
    BY <1>3, <2>1, <2>3, <2>4 DEF RegisterPerson, TypeOK, tracking, Returned
<1>4. QED
  BY <1>1, <1>2, <1>3

\* LocalSave and LocalLoad keep the types.
LEMMA TypeFile ==
    TypeOK /\ (SaveStart \/ SaveRecord \/ SaveReturn \/ LoadRecord \/ LoadReturn)
      => TypeOK'
<1> SUFFICES ASSUME TypeOK,
                    SaveStart \/ SaveRecord \/ SaveReturn \/ LoadRecord \/ LoadReturn
             PROVE  TypeOK'
  OBVIOUS
<1>0. CASE SaveStart
  <2>1. << >> \in Seq(Record)
    OBVIOUS
  <2>2. QED
    BY <1>0, <2>1 DEF SaveStart, TypeOK, tracking, tables, Busy
<1>1. CASE SaveReturn \/ LoadReturn
  BY <1>1 DEF SaveReturn, LoadReturn, TypeOK, tracking, tables
<1>2. CASE SaveRecord
  <2>1. data_list[idx] \in Record
    BY <1>2 DEF SaveRecord, TypeOK
  <2>2. Saved(data_list[idx]) \in Record
    BY <2>1, FeatureAssumption DEF Saved, Record
  <2>3. disk' \in Seq(Record) /\ idx' \in Nat \ {0}
    BY <1>2, <2>2 DEF SaveRecord, TypeOK
  <2>4. QED
    BY <1>2, <2>3 DEF SaveRecord, TypeOK, tracking, tables
<1>3. CASE LoadRecord
  <2>1. disk[idx] \in Record
    BY <1>3 DEF LoadRecord, TypeOK
  <2>2. [face_id |-> disk[idx].face_id, feature |-> disk[idx].feature] \in Pair
    BY <2>1 DEF Record, Pair
  <2>3. data_list' \in Seq(Record)
    BY <1>3, <2>1, InsertRecordTable, LimitsAssumption DEF LoadRecord, TypeOK
  <2>4. feature_db' \in Seq(Pair)
    BY <1>3, <2>2, InsertFeatureTable DEF LoadRecord, TypeOK
  <2>5. QED
    BY <1>3, <2>3, <2>4 DEF LoadRecord, TypeOK, tracking
<1>4. QED
  BY <1>0, <1>1, <1>2, <1>3

\* Starting and killing the process keep the types.
LEMMA TypeProcess == TypeOK /\ (Start \/ Crash) => TypeOK'
<1> SUFFICES ASSUME TypeOK, Start \/ Crash PROVE TypeOK'
  OBVIOUS
<1>1. CASE Start
  <2>1. disk' \in Seq(Record)
    <3>1. << >> \in Seq(Record)
      OBVIOUS
    <3>2. QED
      BY <1>1, <3>1 DEF Start, TypeOK
  <2>2. QED
    BY <1>1, <2>1 DEF Start, TypeOK, tracking, tables, Busy
<1>2. CASE Crash
  <2>1. RegistryBase \in RegistryIds
    BY LimitsAssumption DEF RegistryIds
  <2>2. QED
    BY <1>2, <2>1 DEF Crash, TypeOK, Returned
<1>3. QED
  BY <1>1, <1>2

\* The state before the first start has the types.
LEMMA TypeInit == Init => TypeOK
<1>1. RegistryBase \in RegistryIds
  BY LimitsAssumption DEF RegistryIds
<1>2. QED
  BY <1>1 DEF Init, TypeOK, Returned

\* No step leaves the types.
LEMMA TypeNext == TypeOK /\ [Next]_vars => TypeOK'
<1> SUFFICES ASSUME TypeOK, [Next]_vars PROVE TypeOK'
  OBVIOUS
<1>1. CASE Next
  BY <1>1, TypeTitleFace, TypeRecognize, TypeRegister, TypeFile, TypeProcess
  DEF Next, Proceed
<1>2. CASE UNCHANGED vars
  BY <1>2 DEF vars, tracking, tables, TypeOK
<1>3. QED
  BY <1>1, <1>2

\* Every variable has its type in every reachable state.
THEOREM TypeCorrect == Spec => []TypeOK
<1>1. QED
  BY TypeInit, TypeNext, PTL DEF Spec

-----------------------------------------------------------------------------
(* The two tables *)

\* Every step that takes a person into the tables does it with
\* InsertRecord and InsertFeature on one id and one feature; no other step of
\* a living process touches them.
LEMMA TablesStep ==
    ASSUME TypeOK, NEW record \in Record,
           data_list' = InsertRecord(data_list, record, MaxRecords),
           feature_db' = InsertFeature(feature_db, record.feature, record.face_id),
           TablesAgree
    PROVE  /\ TablesAgree'
           /\ IdsOf(data_list) \subseteq IdsOf(data_list')
           /\ IdsOf(feature_db) \subseteq IdsOf(feature_db')
<1>1. data_list \in Seq(Record) /\ feature_db \in Seq(Pair) /\ MaxRecords \in Nat
  BY LimitsAssumption DEF TypeOK
<1>2. [face_id |-> record.face_id, feature |-> record.feature] \in Pair
  BY DEF Record, Pair
<1>3. /\ Len(data_list') <= MaxRecords
      /\ UniqueIds(data_list')
      /\ IdsOf(data_list) \subseteq IdsOf(data_list')
      /\ IdsOf(data_list') \subseteq IdsOf(data_list) \cup {record.face_id}
  BY <1>1, InsertRecordTable DEF TablesAgree
<1>4. /\ UniqueIds(feature_db')
      /\ IdsOf(feature_db') = IdsOf(feature_db) \cup {record.face_id}
  BY <1>1, <1>2, InsertFeatureTable DEF TablesAgree
<1>5. Len(data_list') < MaxRecords => InStep(data_list', feature_db')
  BY <1>1, <1>2, InsertInBoth DEF TablesAgree
<1>6. IdsOf(data_list') \subseteq IdsOf(feature_db')
  BY <1>3, <1>4 DEF TablesAgree
<1>7. QED
  BY <1>3, <1>4, <1>5, <1>6 DEF TablesAgree

\* A step of a living process either leaves the tables alone or takes one
\* person into both.
LEMMA TablesNext ==
    ASSUME TypeOK, [Next]_vars
    PROVE  \/ UNCHANGED <<data_list, feature_db>>
           \/ Crash
           \/ \E record \in Record :
                /\ data_list' = InsertRecord(data_list, record, MaxRecords)
                /\ feature_db' = InsertFeature(feature_db, record.feature,
                                               record.face_id)
<1>1. CASE Register
  <2>1. PICK id \in RegisterId, name \in Name \cup {NoName} :
             \/ RegisterRefused(id, name)
             \/ RegisterNoFeature(id, name)
             \/ RegisterPerson(id, name)
    BY <1>1 DEF Register
  <2>2. CASE RegisterRefused(id, name) \/ RegisterNoFeature(id, name)
    BY <2>2 DEF RegisterRefused, RegisterNoFeature, Refuse, tables
  <2>3. CASE RegisterPerson(id, name)
    BY <2>3, RegisterPersonRecord
  <2>4. QED
    BY <2>1, <2>2, <2>3
<1>2. CASE LoadRecord
  <2>1. disk[idx] \in Record
    BY <1>2 DEF LoadRecord, TypeOK
  <2>2. QED
    BY <1>2, <2>1 DEF LoadRecord
<1>3. CASE RecognizeStart \/ TitleFace \/ BuildResult \/ DropWindow \/ RecognizeReturn
  BY <1>3 DEF RecognizeStart, TitleFace, BuildResult, DropWindow,
              RecognizeReturn, tables
<1>4. CASE Start \/ SaveStart \/ SaveRecord \/ SaveReturn \/ LoadReturn
  BY <1>4 DEF Start, SaveStart, SaveRecord, SaveReturn, LoadReturn, tables
<1>5. CASE UNCHANGED vars
  BY <1>5 DEF vars, tables
<1>6. QED
  BY <1>1, <1>2, <1>3, <1>4, <1>5 DEF Next, Proceed

\* Two empty tables agree.
LEMMA TablesInit == Init => TablesAgree
<1> SUFFICES ASSUME Init PROVE TablesAgree
  OBVIOUS
<1>1. data_list = << >> /\ feature_db = << >> /\ MaxRecords \in Nat
  BY LimitsAssumption DEF Init
<1>2. QED
  BY <1>1 DEF TablesAgree, UniqueIds, IdsOf, InStep

\* No step makes the two tables disagree.
LEMMA TablesAgreeNext == TypeOK /\ TablesAgree /\ [Next]_vars => TablesAgree'
<1> SUFFICES ASSUME TypeOK, TablesAgree, [Next]_vars PROVE TablesAgree'
  OBVIOUS
<1>1. CASE UNCHANGED <<data_list, feature_db>>
  BY <1>1 DEF TablesAgree
<1>2. CASE Crash
  <2>1. data_list' = << >> /\ feature_db' = << >> /\ MaxRecords \in Nat
    BY <1>2, LimitsAssumption DEF Crash
  <2>2. QED
    BY <2>1 DEF TablesAgree, UniqueIds, IdsOf, InStep
<1>3. ASSUME NEW record \in Record,
             data_list' = InsertRecord(data_list, record, MaxRecords),
             feature_db' = InsertFeature(feature_db, record.feature, record.face_id)
      PROVE  TablesAgree'
  BY <1>3, TablesStep
<1>4. QED
  BY <1>1, <1>2, <1>3, TablesNext

\* The store and the verifier stay together, however many people are
\* registered, again or for the first time, loaded or not, and whatever the
\* capacity of the store.
THEOREM TablesAlwaysAgree == Spec => []TablesAgree
<1>1. QED
  BY TypeCorrect, TablesInit, TablesAgreeNext, PTL DEF Spec

\* Nobody is forgotten while the process lives.
THEOREM PeopleAreKept == Spec => PeopleKept
<1> DEFINE Kept0 == pc' # "down" => /\ IdsOf(data_list) \subseteq IdsOf(data_list')
                                    /\ IdsOf(feature_db) \subseteq IdsOf(feature_db')
<1>1. TypeOK /\ TablesAgree /\ [Next]_vars => [Kept0]_vars
  <2> SUFFICES ASSUME TypeOK, TablesAgree, [Next]_vars, pc' # "down"
               PROVE  /\ IdsOf(data_list) \subseteq IdsOf(data_list')
                      /\ IdsOf(feature_db) \subseteq IdsOf(feature_db')
    OBVIOUS
  <2>1. CASE UNCHANGED <<data_list, feature_db>>
    BY <2>1
  <2>2. CASE Crash
    BY <2>2 DEF Crash
  <2>3. ASSUME NEW record \in Record,
               data_list' = InsertRecord(data_list, record, MaxRecords),
               feature_db' = InsertFeature(feature_db, record.feature, record.face_id)
        PROVE  /\ IdsOf(data_list) \subseteq IdsOf(data_list')
               /\ IdsOf(feature_db) \subseteq IdsOf(feature_db')
    BY <2>3, TablesStep
  <2>4. QED
    BY <2>1, <2>2, <2>3, TablesNext
<1>2. QED
  BY <1>1, TypeCorrect, TablesAlwaysAgree, PTL DEF Spec, PeopleKept

-----------------------------------------------------------------------------
(* Ids and names *)

\* What get_face_title leaves in the window it works on, in one of four ways.
LEMMA TitleFaceWindow ==
    ASSUME TypeOK, TitleFace
    PROVE  \E k \in 1..(Len(face_win_list) + 1), win \in Window :
             LET old == Tracked(todo[idx], k)
             IN /\ SetWindow(k, win)
                /\ IsWindowOf(todo[idx], k)
                /\ old \in Window
                /\ \/ /\ win = Titled(old, UnknownId(Drawn(k)), Unknown)
                      /\ current_id' = Drawn(k) + 1
                   \/ /\ win = old
                      /\ current_id' = Drawn(k)
                   \/ /\ \E id \in IdsOf(feature_db) : win = Titled(old, id, NameOf(id))
                      /\ current_id' = Drawn(k)
                   \/ /\ old.name = Unknown
                      /\ win = Titled(old, old.face_id, Unknown)
                      /\ current_id' = Drawn(k)
<1>1. PICK k \in 1..(Len(face_win_list) + 1) :
        /\ IsWindowOf(todo[idx], k)
        /\ \/ TitleOutside(todo[idx], k)
           \/ TitleNoFeature(todo[idx], k)
           \/ TitleRecognised(todo[idx], k)
           \/ TitleNoLongerKnown(todo[idx], k)
           \/ TitleStillUnknown(todo[idx], k)
  BY DEF TitleFace
<1> DEFINE box == todo[idx]
           old == Tracked(box, k)
<1>2. box \in Box
  BY DEF TitleFace, TypeOK
<1>3. old \in Window /\ Drawn(k) \in Nat
  BY <1>2, TrackedType
<1>4. UnknownId(Drawn(k)) \in FaceId /\ Unknown \in WindowName /\ old.face_id \in FaceId
  BY <1>3, UnknownIdRange DEF WindowName, Window
<1>5. /\ Titled(old, UnknownId(Drawn(k)), Unknown) \in Window
      /\ Titled(old, old.face_id, Unknown) \in Window
  BY <1>3, <1>4, TitledType
<1>6. ASSUME NEW m \in DOMAIN feature_db
      PROVE  /\ feature_db[m].face_id \in IdsOf(feature_db)
             /\ Titled(old, feature_db[m].face_id, NameOf(feature_db[m].face_id)) \in Window
  <2>1. feature_db[m] \in Pair
    BY DEF TypeOK
  <2>2. feature_db[m].face_id \in FaceId
    BY <2>1, RegistryIdRange DEF Pair
  <2>3. NameOf(feature_db[m].face_id) \in WindowName
    BY NameOfType DEF WindowName
  <2>4. QED
    BY <2>2, <2>3, <1>3, TitledType DEF IdsOf
<1> HIDE DEF box, old
<1>7. CASE TitleOutside(box, k) \/ TitleNoLongerKnown(box, k)
  <2>1. /\ SetWindow(k, Titled(old, UnknownId(Drawn(k)), Unknown))
        /\ current_id' = Drawn(k) + 1
    BY <1>7 DEF TitleOutside, TitleNoLongerKnown, old
  <2>2. QED
    BY <1>1, <2>1, <1>3, <1>5 DEF old, box
<1>8. CASE TitleNoFeature(box, k)
  BY <1>1, <1>8, <1>3 DEF TitleNoFeature, old, box
<1>9. CASE TitleRecognised(box, k)
  <2>1. PICK m \in DOMAIN feature_db :
               SetWindow(k, Titled(old, feature_db[m].face_id,
                                   NameOf(feature_db[m].face_id)))
    BY <1>9 DEF TitleRecognised, old
  <2>2. current_id' = Drawn(k)
    BY <1>9 DEF TitleRecognised
  <2>3. QED
    BY <1>1, <2>1, <2>2, <1>3, <1>6 DEF old, box
<1>10. CASE TitleStillUnknown(box, k)
  <2>1. /\ SetWindow(k, Titled(old, old.face_id, Unknown))
        /\ old.name = Unknown
        /\ current_id' = Drawn(k)
    BY <1>10 DEF TitleStillUnknown, old
  <2>2. QED
    BY <1>1, <2>1, <1>3, <1>5 DEF old, box
<1>11. QED
  BY <1>1, <1>7, <1>8, <1>9, <1>10 DEF box

\* The list after a window was set: that window, and the others unchanged.
LEMMA SetWindowList ==
    ASSUME TypeOK, NEW k \in 1..(Len(face_win_list) + 1), NEW win \in Window,
           SetWindow(k, win)
    PROVE  /\ DOMAIN face_win_list \subseteq DOMAIN face_win_list'
           /\ k \in DOMAIN face_win_list'
           /\ face_win_list'[k] = win
           /\ \A j \in DOMAIN face_win_list' :
                j # k => /\ j \in DOMAIN face_win_list
                         /\ face_win_list'[j] = face_win_list[j]
<1>1. face_win_list \in Seq(Window)
  BY DEF TypeOK
<1>2. CASE IsNew(k)
  <2>1. k = Len(face_win_list) + 1 /\ face_win_list' = Append(face_win_list, win)
    BY <1>2 DEF SetWindow, IsNew
  <2>2. QED
    BY <1>1, <2>1
<1>3. CASE ~ IsNew(k)
  <2>1. k \in DOMAIN face_win_list /\ face_win_list' = [face_win_list EXCEPT ![k] = win]
    BY <1>3 DEF SetWindow, IsNew, TypeOK
  <2>2. QED
    BY <1>1, <2>1
<1>4. QED
  BY <1>2, <1>3

\* A window that says by its id whether it has a name, and whose title, if
\* it has one, is its id and its name.
Tells(win) ==
    /\ win.name = Unknown <=> win.face_id < UnknownMax
    /\ win.title # NoTitle => /\ win.title.face_id = win.face_id
                              /\ win.title.name = win.name

\* The invariant behind IdTellsRecognition: every window tells.
WindowsTell ==
    /\ \A k \in DOMAIN face_win_list : Tells(face_win_list[k])
    /\ IdTellsRecognition

\* Names the windows get from the store are never "unknown".
LEMMA NameOfKnown ==
    ASSUME TypeOK, NEW id
    PROVE  NameOf(id) # Unknown
BY NameOfType, NameAssumption

\* A window whose id and name fit together gets a title that does.
LEMMA TitledTells ==
    ASSUME NEW win \in Window, NEW id \in FaceId, NEW name \in WindowName,
           name = Unknown <=> id < UnknownMax
    PROVE  Tells(Titled(win, id, name))
BY DEF Tells, Titled, Window, Title

\* The window of a face, moved or new, tells as the windows before it did.
LEMMA TrackedTells ==
    ASSUME TypeOK, NEW box \in Box, NEW k \in 1..(Len(face_win_list) + 1),
           \A m \in DOMAIN face_win_list : Tells(face_win_list[m])
    PROVE  Tells(Tracked(box, k))
<1>1. CASE IsNew(k)
  <2>1. UnknownId(current_id) < UnknownMax
    BY UnknownIdRange DEF TypeOK
  <2>2. QED
    BY <1>1, <2>1 DEF Tracked, Tells
<1>2. CASE ~ IsNew(k)
  <2>1. k \in DOMAIN face_win_list /\ face_win_list[k] \in Window
    BY <1>2 DEF IsNew, TypeOK
  <2>2. Tells(face_win_list[k])
    BY <2>1
  <2>3. QED
    BY <1>2, <2>1, <2>2 DEF Tracked, Tells, Window
<1>3. QED
  BY <1>1, <1>2

\* get_face_title leaves windows whose ids tell recognition, on each of its
\* ways out.
LEMMA WindowsTellTitleFace == TypeOK /\ WindowsTell /\ TitleFace => WindowsTell'
<1> SUFFICES ASSUME TypeOK, WindowsTell, TitleFace PROVE WindowsTell'
  OBVIOUS
<1>1. PICK k \in 1..(Len(face_win_list) + 1), win \in Window :
             LET old == Tracked(todo[idx], k)
             IN /\ SetWindow(k, win)
                /\ old \in Window
                /\ \/ win = Titled(old, UnknownId(Drawn(k)), Unknown)
                   \/ win = old
                   \/ \E id \in IdsOf(feature_db) : win = Titled(old, id, NameOf(id))
                   \/ old.name = Unknown /\ win = Titled(old, old.face_id, Unknown)
  BY TitleFaceWindow
<1> DEFINE old == Tracked(todo[idx], k)
<1>2. todo[idx] \in Box
  BY DEF TitleFace, TypeOK
<1>3. Tells(old)
  BY <1>2, TrackedTells DEF WindowsTell
<1>4. Tells(win)
  <2>1. CASE win = Titled(old, UnknownId(Drawn(k)), Unknown)
    <3>1. UnknownId(Drawn(k)) \in FaceId /\ UnknownId(Drawn(k)) < UnknownMax
      BY <1>2, TrackedType, UnknownIdRange
    <3>2. QED
      BY <2>1, <3>1, <1>1, TitledTells DEF WindowName
  <2>2. CASE win = old
    BY <2>2, <1>3
  <2>3. ASSUME NEW id \in IdsOf(feature_db), win = Titled(old, id, NameOf(id))
        PROVE  Tells(win)
    <3>1. id \in RegistryIds
      <4>1. PICK m \in DOMAIN feature_db : feature_db[m].face_id = id
        BY DEF IdsOf
      <4>2. feature_db[m] \in Pair
        BY DEF TypeOK
      <4>3. QED
        BY <4>1, <4>2 DEF Pair
    <3>2. id \in FaceId /\ ~ (id < UnknownMax)
      BY <3>1, RegistryIdRange
    <3>3. NameOf(id) \in WindowName /\ NameOf(id) # Unknown
      BY NameOfType, NameOfKnown DEF WindowName
    <3>4. QED
      BY <2>3, <3>2, <3>3, <1>1, TitledTells
  <2>4. CASE old.name = Unknown /\ win = Titled(old, old.face_id, Unknown)
    <3>1. old.face_id \in FaceId /\ old.face_id < UnknownMax
      BY <2>4, <1>1, <1>3 DEF Tells, Window
    <3>2. QED
      BY <2>4, <3>1, <1>1, TitledTells DEF WindowName
  <2>5. QED
    BY <1>1, <2>1, <2>2, <2>3, <2>4
<1>5. \A j \in DOMAIN face_win_list' : Tells(face_win_list'[j])
  <2>1. \A j \in DOMAIN face_win_list' :
          face_win_list'[j] = win \/ (/\ j \in DOMAIN face_win_list
                                      /\ face_win_list'[j] = face_win_list[j])
    BY <1>1, SetWindowList
  <2>2. QED
    BY <2>1, <1>4 DEF WindowsTell
<1>6. IdTellsRecognition'
  BY DEF TitleFace, WindowsTell, IdTellsRecognition
<1>7. QED
  BY <1>5, <1>6 DEF WindowsTell, Tells

\* Dropping a window leaves every other one, in its order.
LEMMA DropWindowList ==
    ASSUME TypeOK, DropWindow
    PROVE  /\ \A j \in DOMAIN face_win_list' :
                \E m \in DOMAIN face_win_list : face_win_list'[j] = face_win_list[m]
           /\ \A m \in DOMAIN face_win_list :
                ~ Aged(face_win_list[m]) =>
                  \E j \in DOMAIN face_win_list' : face_win_list'[j] = face_win_list[m]
<1>1. CASE ~ Aged(face_win_list[idx])
  BY <1>1 DEF DropWindow
<1>2. CASE Aged(face_win_list[idx])
  <2>1. /\ face_win_list \in Seq(Window)
        /\ idx \in 1..Len(face_win_list)
        /\ face_win_list' = RemoveAt(face_win_list, idx)
    BY <1>2 DEF DropWindow, TypeOK
  <2>2. /\ face_win_list' \in Seq(Window)
        /\ Len(face_win_list') = Len(face_win_list) - 1
        /\ \A j \in 1..(Len(face_win_list) - 1) :
             face_win_list'[j] = IF j < idx THEN face_win_list[j]
                                            ELSE face_win_list[j + 1]
    BY <2>1, RemoveAtEntries
  <2>3. ASSUME NEW j \in DOMAIN face_win_list'
        PROVE  \E m \in DOMAIN face_win_list : face_win_list'[j] = face_win_list[m]
    <3>1. j \in 1..(Len(face_win_list) - 1)
      BY <2>2
    <3>2. j \in DOMAIN face_win_list /\ j + 1 \in DOMAIN face_win_list
      BY <3>1, <2>1
    <3>3. QED
      BY <3>1, <3>2, <2>2
  <2>4. ASSUME NEW m \in DOMAIN face_win_list, ~ Aged(face_win_list[m])
        PROVE  \E j \in DOMAIN face_win_list' : face_win_list'[j] = face_win_list[m]
    <3> DEFINE j == IF m < idx THEN m ELSE m - 1
    <3>1. m # idx
      BY <1>2, <2>4
    <3>2. j \in 1..(Len(face_win_list) - 1) /\ (IF j < idx THEN j ELSE j + 1) = m
      BY <3>1, <2>1
    <3>3. face_win_list'[j] = face_win_list[m]
      BY <3>2, <2>2
    <3>4. j \in DOMAIN face_win_list'
      BY <3>2, <2>2
    <3>5. QED
      BY <3>3, <3>4
  <2>5. QED
    BY <2>3, <2>4
<1>3. QED
  BY <1>1, <1>2

\* So does every step.
LEMMA WindowsTellNext == TypeOK /\ WindowsTell /\ [Next]_vars => WindowsTell'
<1> SUFFICES ASSUME TypeOK, WindowsTell, [Next]_vars PROVE WindowsTell'
  OBVIOUS
<1>1. CASE TitleFace
  BY <1>1, WindowsTellTitleFace
<1>2. CASE BuildResult
  <2>1. Reported \subseteq DOMAIN face_win_list
    BY DEF Reported, Current
  <2>2. ASSUME NEW k \in DOMAIN result', result'[k].title # NoTitle
        PROVE  result'[k].title.name = Unknown <=> result'[k].title.face_id < UnknownMax
    <3>1. k \in DOMAIN face_win_list /\ result'[k].title = face_win_list[k].title
      BY <1>2, <2>1 DEF BuildResult
    <3>2. QED
      BY <2>2, <3>1 DEF WindowsTell, Tells
  <2>3. IdTellsRecognition'
    BY <2>2 DEF IdTellsRecognition
  <2>4. QED
    BY <1>2, <2>3 DEF BuildResult, WindowsTell, Tells
<1>3. CASE DropWindow
  <2>1. \A j \in DOMAIN face_win_list' : Tells(face_win_list'[j])
    BY <1>3, DropWindowList DEF WindowsTell
  <2>2. IdTellsRecognition'
    BY <1>3 DEF DropWindow, WindowsTell, IdTellsRecognition
  <2>3. QED
    BY <2>1, <2>2 DEF WindowsTell, Tells
<1>4. CASE Crash
  <2>1. face_win_list' = << >> /\ result' = << >>
    BY <1>4 DEF Crash
  <2>2. QED
    BY <2>1 DEF WindowsTell, IdTellsRecognition
<1>5. CASE UNCHANGED <<face_win_list, result>>
  BY <1>5 DEF WindowsTell, IdTellsRecognition, Tells
<1>6. CASE RecognizeStart \/ RecognizeReturn \/ Register
  BY <1>5, <1>6 DEF RecognizeStart, RecognizeReturn, Register, RegisterRefused,
     RegisterNoFeature, RegisterPerson, Refuse, tracking
<1>7. CASE \/ Start \/ SaveStart \/ SaveRecord \/ SaveReturn
           \/ LoadRecord \/ LoadReturn \/ UNCHANGED vars
  BY <1>5, <1>7 DEF Start, SaveStart, SaveRecord, SaveReturn, LoadRecord,
     LoadReturn, vars, tracking
<1>8. QED
  BY <1>1, <1>2, <1>3, <1>4, <1>6, <1>7 DEF Next, Proceed

\* There are no windows at the start.
LEMMA WindowsTellInit == Init => WindowsTell
BY DEF Init, WindowsTell, IdTellsRecognition

\* What AlgThread and main.cpp take for granted: an id below the bound of the
\* unknown ids is an unknown face's, and any other is a named person's.
THEOREM IdAlwaysTellsRecognition == Spec => []IdTellsRecognition
<1>1. Spec => []WindowsTell
  BY TypeCorrect, WindowsTellInit, WindowsTellNext, PTL DEF Spec
<1>2. WindowsTell => IdTellsRecognition
  BY DEF WindowsTell
<1>3. QED
  BY <1>1, <1>2, PTL

-----------------------------------------------------------------------------
(* What was reported can be registered *)

\* The invariant behind ReportedCanBeRegistered.  From the moment the result
\* is built until the next frame, through the loop that drops windows, each
\* title in it is that of a window of this frame; and before the first frame
\* there is no result.
ResultBacked ==
    /\ pc \in {"drop", "idle", "save"} =>
         \A k \in DOMAIN result :
           \E m \in DOMAIN face_win_list :
             /\ face_win_list[m].frame_seq = current_frame_count
             /\ face_win_list[m].title = result[k].title
    /\ pc \in {"down", "load"} => result = << >>

\* There is no result at the start.
LEMMA ResultBackedInit == Init => ResultBacked
BY DEF Init, ResultBacked

\* Every step leaves a window of this frame behind each entry of the result.
LEMMA ResultBackedNext == TypeOK /\ ResultBacked /\ [Next]_vars => ResultBacked'
<1> SUFFICES ASSUME TypeOK, ResultBacked, [Next]_vars PROVE ResultBacked'
  OBVIOUS
<1>1. CASE RecognizeStart \/ TitleFace
  <2>1. pc' = "track"
    BY <1>1 DEF RecognizeStart, TitleFace
  <2>2. QED
    BY <2>1 DEF ResultBacked
<1>2. CASE BuildResult
  <2>1. ASSUME NEW k \in DOMAIN result'
        PROVE  /\ k \in DOMAIN face_win_list
               /\ face_win_list[k].frame_seq = current_frame_count
               /\ face_win_list[k].title = result'[k].title
    BY <1>2 DEF BuildResult, Reported, Current
  <2>2. /\ face_win_list' = face_win_list
        /\ current_frame_count' = current_frame_count
        /\ pc' = "drop"
    BY <1>2 DEF BuildResult
  <2>3. QED
    BY <2>1, <2>2 DEF ResultBacked
<1>3. CASE DropWindow
  <2>1. /\ result' = result /\ current_frame_count' = current_frame_count
        /\ pc = "drop" /\ pc' = "drop"
    BY <1>3 DEF DropWindow
  <2>2. ASSUME NEW k \in DOMAIN result
        PROVE  \E j \in DOMAIN face_win_list' :
                 /\ face_win_list'[j].frame_seq = current_frame_count
                 /\ face_win_list'[j].title = result[k].title
    <3>1. PICK m \in DOMAIN face_win_list :
                 /\ face_win_list[m].frame_seq = current_frame_count
                 /\ face_win_list[m].title = result[k].title
      BY <2>1 DEF ResultBacked
    <3>2. ~ Aged(face_win_list[m])
      BY <3>1, LimitsAssumption DEF Aged, TypeOK
    <3>3. PICK j \in DOMAIN face_win_list' : face_win_list'[j] = face_win_list[m]
      BY <1>3, <3>2, DropWindowList
    <3>4. QED
      BY <3>1, <3>3
  <2>3. QED
    BY <2>1, <2>2 DEF ResultBacked
<1>4. CASE RecognizeReturn \/ Register
  <2>1. /\ UNCHANGED <<result, face_win_list, current_frame_count>>
        /\ pc \in {"drop", "idle"} /\ pc' = "idle"
    BY <1>4 DEF RecognizeReturn, Register, RegisterRefused, RegisterNoFeature,
       RegisterPerson, Refuse, tracking
  <2>2. QED
    BY <2>1 DEF ResultBacked
<1>5. CASE SaveStart \/ SaveRecord \/ SaveReturn
  <2>1. /\ UNCHANGED <<result, face_win_list, current_frame_count>>
        /\ pc \in {"idle", "save"} /\ pc' \in {"idle", "save"}
    BY <1>5 DEF SaveStart, SaveRecord, SaveReturn, tracking
  <2>2. QED
    BY <2>1 DEF ResultBacked
<1>6. CASE Start \/ LoadRecord \/ LoadReturn
  <2>1. result' = result /\ pc \in {"down", "load"}
    BY <1>6 DEF Start, LoadRecord, LoadReturn, tracking
  <2>2. result' = << >>
    BY <2>1 DEF ResultBacked
  <2>3. QED
    BY <2>2 DEF ResultBacked
<1>7. CASE Crash
  <2>1. result' = << >>
    BY <1>7 DEF Crash
  <2>2. QED
    BY <2>1 DEF ResultBacked
<1>8. CASE UNCHANGED vars
  BY <1>8 DEF vars, tracking, ResultBacked
<1>9. QED
  BY <1>1, <1>2, <1>3, <1>4, <1>5, <1>6, <1>7, <1>8 DEF Next, Proceed

\* A face that was reported under an id can be registered under that id as
\* long as no other frame has been handled: Register's search does not fail.
THEOREM ReportedIsRegistrable == Spec => []ReportedCanBeRegistered
<1>1. Spec => []ResultBacked
  BY TypeCorrect, ResultBackedInit, ResultBackedNext, PTL DEF Spec
<1>2. Spec => []WindowsTell
  BY TypeCorrect, WindowsTellInit, WindowsTellNext, PTL DEF Spec
<1>3. ResultBacked /\ WindowsTell => ReportedCanBeRegistered
  <2> SUFFICES ASSUME ResultBacked, WindowsTell, pc \in {"idle", "save"},
                      NEW k \in DOMAIN result, result[k].title # NoTitle
               PROVE  Registrable(result[k].title.face_id) # {}
    BY DEF ReportedCanBeRegistered
  <2>1. PICK m \in DOMAIN face_win_list :
               /\ face_win_list[m].frame_seq = current_frame_count
               /\ face_win_list[m].title = result[k].title
    BY DEF ResultBacked
  <2>2. face_win_list[m].face_id = result[k].title.face_id
    BY <2>1 DEF WindowsTell, Tells
  <2>3. m \in Registrable(result[k].title.face_id)
    BY <2>1, <2>2 DEF Registrable, Current
  <2>4. QED
    BY <2>3
<1>4. QED
  BY <1>1, <1>2, <1>3, PTL

-----------------------------------------------------------------------------
(* Names *)

\* Every window after a step was there before it, but for the one TitleFace
\* works on.
LEMMA WindowsNext ==
    ASSUME TypeOK, [Next]_vars, ~ TitleFace,
           NEW j \in DOMAIN face_win_list'
    PROVE  \E m \in DOMAIN face_win_list :
             face_win_list'[j] = face_win_list[m]
<1>1. CASE DropWindow
  BY <1>1, DropWindowList
<1>2. CASE Crash
  <2>1. face_win_list' = << >>
    BY <1>2 DEF Crash
  <2>2. QED
    BY <2>1
<1>3. CASE UNCHANGED face_win_list
  BY <1>3
<1>4. CASE \/ RecognizeStart \/ RecognizeReturn \/ Register \/ BuildResult
           \/ Start \/ SaveStart \/ SaveRecord \/ SaveReturn
           \/ LoadRecord \/ LoadReturn \/ UNCHANGED vars
  BY <1>3, <1>4 DEF RecognizeStart, RecognizeReturn, Register, RegisterRefused,
     RegisterNoFeature, RegisterPerson, Refuse, BuildResult, Start, SaveStart,
     SaveRecord, SaveReturn, LoadRecord, LoadReturn, vars, tracking
<1>5. QED
  BY <1>1, <1>2, <1>4 DEF Next, Proceed

\* A full store stays as it is while the process lives.
LEMMA FullStoreStays ==
    ASSUME TypeOK, [Next]_vars, ~ Crash, Len(data_list) = MaxRecords
    PROVE  data_list' = data_list
BY TablesNext DEF InsertRecord

\* Whoever the verifier has and a store with room does not lack: so the name
\* a recognised face gets is that of a record, until the store is full.
LEMMA NameOfRecord ==
    ASSUME TypeOK, TablesAgree, NEW id \in IdsOf(feature_db),
           Len(data_list) # MaxRecords
    PROVE  NameOf(id) \in Name
<1>1. Len(data_list) < MaxRecords
  BY LimitsAssumption DEF TypeOK, TablesAgree
<1>2. InStep(data_list, feature_db)
  BY <1>1 DEF TablesAgree
<1>3. DOMAIN data_list = DOMAIN feature_db
  BY <1>2 DEF InStep, TypeOK
<1>4. id \in IdsOf(data_list)
  BY <1>2, <1>3 DEF IdsOf, InStep
<1>5. PositionOf(data_list, id) \in 1..Len(data_list)
  BY <1>4, PositionOfFound DEF TypeOK
<1>6. FindRecord(data_list, id) \in Record
  BY <1>5 DEF FindRecord, TypeOK
<1>7. QED
  BY <1>4, <1>6 DEF NameOf, Record

\* The window that follows a face has the name it had.
LEMMA TrackedName ==
    ASSUME TypeOK, NEW box \in Box, NEW k \in 1..(Len(face_win_list) + 1)
    PROVE  \/ Tracked(box, k).name = Unknown
           \/ \E m \in DOMAIN face_win_list :
                Tracked(box, k).name = face_win_list[m].name
<1>1. CASE IsNew(k)
  BY <1>1 DEF Tracked
<1>2. CASE ~ IsNew(k)
  <2>1. k \in DOMAIN face_win_list /\ face_win_list[k] \in Window
    BY <1>2 DEF IsNew, TypeOK
  <2>2. QED
    BY <1>2, <2>1 DEF Tracked, Window
<1>3. QED
  BY <1>1, <1>2

\* get_face_title gives a face the name "nullname" only if the store is full.
LEMMA NullNameTitleFace ==
    ASSUME TypeOK, TablesAgree, NullNameOnlyWhenFull, TitleFace
    PROVE  NullNameOnlyWhenFull'
<1>1. PICK k \in 1..(Len(face_win_list) + 1), win \in Window :
             LET old == Tracked(todo[idx], k)
             IN /\ SetWindow(k, win)
                /\ old \in Window
                /\ \/ win = Titled(old, UnknownId(Drawn(k)), Unknown)
                   \/ win = old
                   \/ \E id \in IdsOf(feature_db) : win = Titled(old, id, NameOf(id))
                   \/ old.name = Unknown /\ win = Titled(old, old.face_id, Unknown)
  BY TitleFaceWindow
<1> DEFINE old == Tracked(todo[idx], k)
<1>2. todo[idx] \in Box
  BY DEF TitleFace, TypeOK
<1>3. \/ old.name = Unknown
      \/ \E m \in DOMAIN face_win_list : old.name = face_win_list[m].name
  BY <1>2, TrackedName
<1>4. data_list' = data_list
  BY DEF TitleFace, tables
<1>5. ASSUME win.name = NullName, Len(data_list) # MaxRecords
      PROVE  FALSE
  <2>1. Unknown # NullName /\ NullName \notin Name
    BY NameAssumption
  <2> HIDE DEF old
  <2>2. old \in Window
    BY <1>1 DEF old
  <2>3. CASE win = old
    BY <2>1, <2>3, <1>3, <1>5 DEF NullNameOnlyWhenFull
  <2>4. ASSUME NEW id \in IdsOf(feature_db), win = Titled(old, id, NameOf(id))
        PROVE  FALSE
    <3>1. NameOf(id) \in Name
      BY <1>5, NameOfRecord
    <3>2. win.name = NameOf(id)
      BY <2>2, <2>4 DEF Titled, Window
    <3>3. QED
      BY <3>1, <3>2, <2>1, <1>5
  <2>5. ASSUME NEW id, win = Titled(old, id, Unknown)
        PROVE  FALSE
    BY <2>1, <2>2, <2>5, <1>5 DEF Titled, Window
  <2>6. QED
    BY <2>3, <2>4, <2>5, <1>1 DEF old
<1>6. ASSUME NEW j \in DOMAIN face_win_list', face_win_list'[j].name = NullName
      PROVE  Len(data_list') = MaxRecords
  <2>1. \/ face_win_list'[j] = win
        \/ j \in DOMAIN face_win_list /\ face_win_list'[j] = face_win_list[j]
    BY <1>1, SetWindowList
  <2>2. QED
    BY <2>1, <1>4, <1>5, <1>6 DEF NullNameOnlyWhenFull
<1>7. QED
  BY <1>6 DEF NullNameOnlyWhenFull

\* So does every other step.
LEMMA NullNameNext ==
    TypeOK /\ TablesAgree /\ NullNameOnlyWhenFull /\ [Next]_vars
      => NullNameOnlyWhenFull'
<1> SUFFICES ASSUME TypeOK, TablesAgree, NullNameOnlyWhenFull, [Next]_vars
             PROVE  NullNameOnlyWhenFull'
  OBVIOUS
<1>1. CASE TitleFace
  BY <1>1, NullNameTitleFace
<1>2. CASE Crash
  <2>1. face_win_list' = << >>
    BY <1>2 DEF Crash
  <2>2. QED
    BY <2>1 DEF NullNameOnlyWhenFull
<1>3. CASE ~ TitleFace /\ ~ Crash
  <2>1. ASSUME NEW j \in DOMAIN face_win_list',
               face_win_list'[j].name = NullName
        PROVE  Len(data_list') = MaxRecords
    <3>1. \E m \in DOMAIN face_win_list :
            face_win_list'[j] = face_win_list[m]
      BY <1>3, WindowsNext
    <3>2. Len(data_list) = MaxRecords
      BY <2>1, <3>1 DEF NullNameOnlyWhenFull
    <3>3. QED
      BY <3>2, <1>3, FullStoreStays
  <2>2. QED
    BY <2>1 DEF NullNameOnlyWhenFull
<1>4. QED
  BY <1>1, <1>2, <1>3

\* A face is called "nullname" only when somebody could be recognised and not
\* stored, and the store refuses nobody until it is full.
THEOREM NullNameWhenFull == Spec => []NullNameOnlyWhenFull
<1>1. Init => NullNameOnlyWhenFull
  BY DEF Init, NullNameOnlyWhenFull
<1>2. QED
  BY <1>1, TypeCorrect, TablesAlwaysAgree, NullNameNext, PTL DEF Spec

-----------------------------------------------------------------------------
(* Unknown ids *)

\* The invariant behind UnknownIdsDistinct: until the counter has gone round
\* an unknown id in a window has been drawn before, and once.
UnknownIdsDrawn ==
    current_id <= UnknownMax =>
        /\ \A k \in DOMAIN face_win_list :
             face_win_list[k].face_id < UnknownMax =>
               face_win_list[k].face_id < current_id
        /\ \A k, m \in DOMAIN face_win_list :
             /\ face_win_list[k].face_id = face_win_list[m].face_id
             /\ face_win_list[k].face_id < UnknownMax
             => k = m

\* Below the bound the counter is the id.
LEMMA UnknownIdSmall ==
    ASSUME NEW n \in Nat, n < UnknownMax
    PROVE  UnknownId(n) = n
<1>1. UnknownMax \in Nat /\ UnknownMax > 0
  BY LimitsAssumption
<1>2. QED
  BY <1>1 DEF UnknownId

\* The ids of windows are numbers.
LEMMA WindowIds ==
    ASSUME TypeOK, NEW k \in DOMAIN face_win_list
    PROVE  face_win_list[k].face_id \in Nat
<1>1. face_win_list[k] \in Window
  BY DEF TypeOK
<1>2. QED
  BY <1>1, FaceIdRange DEF Window

\* As long as the counter has not gone round, the window of a face has the id
\* it had, or one that no window has.
LEMMA TrackedId ==
    ASSUME TypeOK, UnknownIdsDrawn, NEW box \in Box,
           NEW k \in 1..(Len(face_win_list) + 1), Drawn(k) <= UnknownMax,
           NEW m \in DOMAIN face_win_list,
           Tracked(box, k).face_id = face_win_list[m].face_id,
           face_win_list[m].face_id < UnknownMax
    PROVE  k = m
<1>0. UnknownMax \in Nat /\ current_id \in Nat /\ face_win_list[m].face_id \in Nat
  BY LimitsAssumption, WindowIds DEF TypeOK
<1>1. CASE IsNew(k)
  <2>1. current_id < UnknownMax
    BY <1>0, <1>1 DEF Drawn
  <2>2. Tracked(box, k).face_id = current_id
    BY <1>0, <1>1, <2>1, UnknownIdSmall DEF Tracked
  <2>3. face_win_list[m].face_id < current_id
    BY <1>0, <2>1 DEF UnknownIdsDrawn
  <2>4. QED
    BY <1>0, <2>2, <2>3
<1>2. CASE ~ IsNew(k)
  <2>1. k \in DOMAIN face_win_list /\ face_win_list[k] \in Window
    BY <1>2 DEF IsNew, TypeOK
  <2>2. Tracked(box, k).face_id = face_win_list[k].face_id
    BY <1>2, <2>1 DEF Tracked, Window
  <2>3. current_id <= UnknownMax
    BY <1>2 DEF Drawn
  <2>4. QED
    BY <2>1, <2>2, <2>3 DEF UnknownIdsDrawn
<1>3. QED
  BY <1>1, <1>2

\* And if it is an unknown id, it has been drawn.
LEMMA TrackedIdDrawn ==
    ASSUME TypeOK, UnknownIdsDrawn, NEW box \in Box,
           NEW k \in 1..(Len(face_win_list) + 1), Drawn(k) <= UnknownMax,
           Tracked(box, k).face_id < UnknownMax
    PROVE  Tracked(box, k).face_id < Drawn(k)
<1>0. UnknownMax \in Nat /\ current_id \in Nat
  BY LimitsAssumption DEF TypeOK
<1>1. CASE IsNew(k)
  <2>1. current_id < UnknownMax
    BY <1>0, <1>1 DEF Drawn
  <2>2. Tracked(box, k).face_id = current_id
    BY <1>0, <1>1, <2>1, UnknownIdSmall DEF Tracked
  <2>3. QED
    BY <1>0, <1>1, <2>2 DEF Drawn
<1>2. CASE ~ IsNew(k)
  <2>1. k \in DOMAIN face_win_list /\ face_win_list[k] \in Window
    BY <1>2 DEF IsNew, TypeOK
  <2>2. Tracked(box, k).face_id = face_win_list[k].face_id
    BY <1>2, <2>1 DEF Tracked, Window
  <2>3. current_id <= UnknownMax /\ Drawn(k) = current_id
    BY <1>2 DEF Drawn
  <2>4. QED
    BY <2>1, <2>2, <2>3 DEF UnknownIdsDrawn
<1>3. QED
  BY <1>1, <1>2

\* get_face_title draws a new id for a face, or leaves it the one it had, or
\* gives it that of a person.
LEMMA UnknownIdsTitleFace ==
    ASSUME TypeOK, UnknownIdsDrawn, TitleFace
    PROVE  UnknownIdsDrawn'
<1>1. PICK k \in 1..(Len(face_win_list) + 1), win \in Window :
             LET old == Tracked(todo[idx], k)
             IN /\ SetWindow(k, win)
                /\ old \in Window
                /\ \/ /\ win = Titled(old, UnknownId(Drawn(k)), Unknown)
                      /\ current_id' = Drawn(k) + 1
                   \/ /\ win = old
                      /\ current_id' = Drawn(k)
                   \/ /\ \E id \in IdsOf(feature_db) : win = Titled(old, id, NameOf(id))
                      /\ current_id' = Drawn(k)
                   \/ /\ old.name = Unknown
                      /\ win = Titled(old, old.face_id, Unknown)
                      /\ current_id' = Drawn(k)
  BY TitleFaceWindow
<1> DEFINE old == Tracked(todo[idx], k)
<1>2. todo[idx] \in Box
  BY DEF TitleFace, TypeOK
<1>3. /\ UnknownMax \in Nat /\ current_id \in Nat /\ Drawn(k) \in Nat
      /\ current_id <= Drawn(k)
  <2>1. UnknownMax \in Nat /\ current_id \in Nat /\ Drawn(k) \in Nat
    BY <1>2, TrackedType, LimitsAssumption DEF TypeOK
  <2>2. QED
    BY <2>1 DEF Drawn
<1>4. win.face_id \in Nat
  BY <1>1, FaceIdRange DEF Window
<1> SUFFICES ASSUME current_id' <= UnknownMax
             PROVE  /\ \A j \in DOMAIN face_win_list' :
                         face_win_list'[j].face_id < UnknownMax =>
                           face_win_list'[j].face_id < current_id'
                    /\ \A j, m \in DOMAIN face_win_list' :
                         /\ face_win_list'[j].face_id = face_win_list'[m].face_id
                         /\ face_win_list'[j].face_id < UnknownMax
                         => j = m
  BY DEF UnknownIdsDrawn
<1> HIDE DEF old
<1>5. current_id' \in Nat /\ Drawn(k) <= current_id'
  BY <1>1, <1>3
<1>6. current_id <= UnknownMax /\ Drawn(k) <= UnknownMax
  BY <1>3, <1>5
<1>7. \/ ~ (win.face_id < UnknownMax)
      \/ win.face_id = old.face_id
      \/ win.face_id = Drawn(k) /\ Drawn(k) < current_id'
  <2>1. old \in Window
    BY <1>1 DEF old
  <2>2. CASE /\ win = Titled(old, UnknownId(Drawn(k)), Unknown)
             /\ current_id' = Drawn(k) + 1
    <3>1. Drawn(k) < UnknownMax
      BY <2>2, <1>3
    <3>2. UnknownId(Drawn(k)) = Drawn(k)
      BY <3>1, <1>3, UnknownIdSmall
    <3>3. win.face_id = Drawn(k)
      BY <2>1, <2>2, <3>2 DEF Titled, Window
    <3>4. QED
      BY <3>3, <2>2, <1>3
  <2>3. CASE win = old
    BY <2>3
  <2>4. ASSUME NEW id \in IdsOf(feature_db), win = Titled(old, id, NameOf(id))
        PROVE  ~ (win.face_id < UnknownMax)
    <3>1. id \in RegistryIds
      <4>1. PICK m \in DOMAIN feature_db : feature_db[m].face_id = id
        BY DEF IdsOf
      <4>2. feature_db[m] \in Pair
        BY DEF TypeOK
      <4>3. QED
        BY <4>1, <4>2 DEF Pair
    <3>2. win.face_id = id
      BY <2>1, <2>4 DEF Titled, Window
    <3>3. QED
      BY <3>1, <3>2, RegistryIdRange
  <2>5. CASE win = Titled(old, old.face_id, Unknown)
    BY <2>1, <2>5 DEF Titled, Window
  <2>6. QED
    BY <1>1, <2>2, <2>3, <2>4, <2>5 DEF old
<1>8. win.face_id < UnknownMax => win.face_id < current_id'
  <2>1. old.face_id < UnknownMax => old.face_id < Drawn(k)
    BY <1>2, <1>6, TrackedIdDrawn DEF old
  <2>2. QED
    BY <1>3, <1>4, <1>5, <1>7, <2>1
<1>9. ASSUME NEW m \in DOMAIN face_win_list,
             face_win_list[m].face_id = win.face_id, win.face_id < UnknownMax
      PROVE  k = m
  <2>1. CASE win.face_id = old.face_id
    BY <2>1, <1>2, <1>6, <1>9, TrackedId DEF old
  <2>2. CASE win.face_id = Drawn(k)
    <3>1. face_win_list[m].face_id < current_id
      BY <1>6, <1>9 DEF UnknownIdsDrawn
    <3>2. QED
      BY <2>2, <3>1, <1>3, <1>4, <1>9
  <2>3. QED
    BY <2>1, <2>2, <1>7, <1>9
<1>10. /\ face_win_list'[k] = win
       /\ \A j \in DOMAIN face_win_list' :
            j # k => /\ j \in DOMAIN face_win_list
                     /\ face_win_list'[j] = face_win_list[j]
  BY <1>1, SetWindowList
<1>11. ASSUME NEW j \in DOMAIN face_win_list',
              face_win_list'[j].face_id < UnknownMax
       PROVE  face_win_list'[j].face_id < current_id'
  <2>1. CASE j = k
    BY <2>1, <1>8, <1>10, <1>11
  <2>2. CASE j # k
    <3>1. j \in DOMAIN face_win_list /\ face_win_list'[j] = face_win_list[j]
      BY <2>2, <1>10
    <3>2. face_win_list[j].face_id < current_id
      BY <3>1, <1>6, <1>11 DEF UnknownIdsDrawn
    <3>3. face_win_list[j].face_id \in Nat
      BY <3>1, WindowIds
    <3>4. QED
      BY <3>1, <3>2, <3>3, <1>3, <1>5
  <2>3. QED
    BY <2>1, <2>2
<1>12. ASSUME NEW j \in DOMAIN face_win_list', NEW m \in DOMAIN face_win_list',
              face_win_list'[j].face_id = face_win_list'[m].face_id,
              face_win_list'[j].face_id < UnknownMax
       PROVE  j = m
  <2>1. CASE j = k /\ m # k
    BY <2>1, <1>9, <1>10, <1>12
  <2>2. CASE j # k /\ m = k
    BY <2>2, <1>9, <1>10, <1>12
  <2>3. CASE j # k /\ m # k
    BY <2>3, <1>6, <1>10, <1>12 DEF UnknownIdsDrawn
  <2>4. QED
    BY <2>1, <2>2, <2>3
<1>13. QED
  BY <1>11, <1>12

\* Where the windows of the list were before one was dropped: the order is
\* that of before.
LEMMA DropWindowPlaces ==
    ASSUME TypeOK, DropWindow
    PROVE  \E from \in Injection(DOMAIN face_win_list', DOMAIN face_win_list) :
             \A j \in DOMAIN face_win_list' :
               face_win_list'[j] = face_win_list[from[j]]
<1>1. CASE ~ Aged(face_win_list[idx])
  <2> DEFINE from == [j \in DOMAIN face_win_list' |-> j]
  <2>1. face_win_list' = face_win_list
    BY <1>1 DEF DropWindow
  <2>2. from \in Injection(DOMAIN face_win_list', DOMAIN face_win_list)
    BY <2>1 DEF Injection, IsInjective
  <2>3. QED
    BY <2>1, <2>2
<1>2. CASE Aged(face_win_list[idx])
  <2> DEFINE from == [j \in DOMAIN face_win_list' |-> IF j < idx THEN j ELSE j + 1]
  <2>1. /\ face_win_list \in Seq(Window)
        /\ idx \in 1..Len(face_win_list)
        /\ face_win_list' = RemoveAt(face_win_list, idx)
    BY <1>2 DEF DropWindow, TypeOK
  <2>2. /\ face_win_list' \in Seq(Window)
        /\ Len(face_win_list') = Len(face_win_list) - 1
        /\ \A j \in 1..(Len(face_win_list) - 1) :
             face_win_list'[j] = IF j < idx THEN face_win_list[j]
                                            ELSE face_win_list[j + 1]
    BY <2>1, RemoveAtEntries
  <2>3. DOMAIN face_win_list' = 1..(Len(face_win_list) - 1)
    BY <2>2
  <2>4. from \in Injection(DOMAIN face_win_list', DOMAIN face_win_list)
    BY <2>1, <2>3 DEF Injection, IsInjective
  <2>5. QED
    BY <2>2, <2>3, <2>4
<1>3. QED
  BY <1>1, <1>2

\* No step gives an unknown id to two windows before the counter has gone
\* round.
LEMMA UnknownIdsNext ==
    TypeOK /\ UnknownIdsDrawn /\ [Next]_vars => UnknownIdsDrawn'
<1> SUFFICES ASSUME TypeOK, UnknownIdsDrawn, [Next]_vars
             PROVE  UnknownIdsDrawn'
  OBVIOUS
<1>1. CASE TitleFace
  BY <1>1, UnknownIdsTitleFace
<1>2. CASE DropWindow
  <2>1. PICK from \in Injection(DOMAIN face_win_list', DOMAIN face_win_list) :
               \A j \in DOMAIN face_win_list' :
                 face_win_list'[j] = face_win_list[from[j]]
    BY <1>2, DropWindowPlaces
  <2>2. /\ \A j \in DOMAIN face_win_list' : from[j] \in DOMAIN face_win_list
        /\ \A j, m \in DOMAIN face_win_list' : from[j] = from[m] => j = m
    BY DEF Injection, IsInjective
  <2>3. current_id' = current_id
    BY <1>2 DEF DropWindow
  <2>4. QED
    BY <2>1, <2>2, <2>3 DEF UnknownIdsDrawn
<1>3. CASE Crash
  <2>1. face_win_list' = << >>
    BY <1>3 DEF Crash
  <2>2. QED
    BY <2>1 DEF UnknownIdsDrawn
<1>4. CASE UNCHANGED <<face_win_list, current_id>>
  BY <1>4 DEF UnknownIdsDrawn
<1>5. CASE \/ RecognizeStart \/ RecognizeReturn \/ Register \/ BuildResult
           \/ Start \/ SaveStart \/ SaveRecord \/ SaveReturn
           \/ LoadRecord \/ LoadReturn \/ UNCHANGED vars
  BY <1>4, <1>5 DEF RecognizeStart, RecognizeReturn, Register, RegisterRefused,
     RegisterNoFeature, RegisterPerson, Refuse, BuildResult, Start, SaveStart,
     SaveRecord, SaveReturn, LoadRecord, LoadReturn, vars, tracking
<1>6. QED
  BY <1>1, <1>2, <1>3, <1>5 DEF Next, Proceed

\* Faces that are not known are told apart by their ids, however they come,
\* go, cross the edge and are forgotten, until the counter has gone round.
THEOREM UnknownIdsStayDistinct == Spec => []UnknownIdsDistinct
<1>1. Init => UnknownIdsDrawn
  BY DEF Init, UnknownIdsDrawn
<1>2. UnknownIdsDrawn => UnknownIdsDistinct
  BY DEF UnknownIdsDrawn, UnknownIdsDistinct
<1>3. QED
  BY <1>1, <1>2, TypeCorrect, UnknownIdsNext, PTL DEF Spec

-----------------------------------------------------------------------------
(* The windows of a frame *)

\* The windows that were last seen in frame n.
SeenIn(n) ==
    { k \in DOMAIN face_win_list : face_win_list[k].frame_seq = n }

\* The invariant behind the two properties about the number of windows.  A
\* frame leaves no more windows than it had faces, each face of it has moved
\* or opened one window at most, and no window is of a frame to come.
WindowsCounted ==
    /\ pc \in {"down", "load"} =>
         current_frame_count = 0 /\ face_win_list = << >>
    /\ \A k \in DOMAIN face_win_list :
         face_win_list[k].frame_seq <= current_frame_count
    /\ \A n \in Int : Cardinality(SeenIn(n)) <= FaceNum
    /\ pc = "track" => /\ Len(todo) <= FaceNum
                       /\ idx <= Len(todo) + 1
                       /\ Cardinality(SeenIn(current_frame_count)) < idx

\* There are finitely many windows of a frame.
LEMMA SeenInFinite ==
    ASSUME TypeOK, NEW n
    PROVE  /\ IsFiniteSet(SeenIn(n))
           /\ Cardinality(SeenIn(n)) \in Nat
<1>1. DOMAIN face_win_list = 1..Len(face_win_list) /\ Len(face_win_list) \in Nat
  BY DEF TypeOK
<1>2. IsFiniteSet(1..Len(face_win_list))
  BY <1>1, FS_Interval
<1>3. SeenIn(n) \in SUBSET (1..Len(face_win_list))
  BY <1>1 DEF SeenIn
<1>4. IsFiniteSet(SeenIn(n))
  BY <1>2, <1>3, FS_Subset
<1>5. QED
  BY <1>4, FS_CardinalityType

\* No more faces are handled than face_num.
LEMMA KeptFew ==
    ASSUME NEW found \in Frame, NEW kept \in Kept(found)
    PROVE  Len(kept) <= FaceNum
<1>1. found \in Seq(Box) /\ FaceNum \in Nat
  BY InputAssumption, LimitsAssumption
<1>2. CASE Len(found) <= FaceNum
  BY <1>2 DEF Kept
<1>3. CASE ~ (Len(found) <= FaceNum)
  <2>1. PICK order : kept = [k \in 1..FaceNum |-> found[order[k]]]
    BY <1>3 DEF Kept
  <2>2. kept \in Seq(Box) /\ DOMAIN kept = 1..FaceNum
    BY <2>1, KeptType
  <2>3. Len(kept) = FaceNum
    BY <1>1, <2>2
  <2>4. QED
    BY <1>1, <2>3
<1>4. QED
  BY <1>2, <1>3

\* The window of a face is one of this frame.
LEMMA TrackedNow ==
    ASSUME TypeOK, NEW box, NEW k \in 1..(Len(face_win_list) + 1)
    PROVE  Tracked(box, k).frame_seq = current_frame_count
<1>1. CASE IsNew(k)
  BY <1>1 DEF Tracked
<1>2. CASE ~ IsNew(k)
  <2>1. k \in DOMAIN face_win_list /\ face_win_list[k] \in Window
    BY <1>2 DEF IsNew, TypeOK
  <2>2. QED
    BY <1>2, <2>1 DEF Tracked, Window
<1>3. QED
  BY <1>1, <1>2

\* It stays that with any title.
LEMMA TitleFaceNow ==
    ASSUME TypeOK, TitleFace
    PROVE  \E k \in 1..(Len(face_win_list) + 1), win \in Window :
             /\ SetWindow(k, win)
             /\ win.frame_seq = current_frame_count
<1>1. PICK k \in 1..(Len(face_win_list) + 1), win \in Window :
             LET old == Tracked(todo[idx], k)
             IN /\ SetWindow(k, win)
                /\ old \in Window
                /\ \/ win = old
                   \/ \E id, name : win = Titled(old, id, name)
  BY TitleFaceWindow
<1> DEFINE old == Tracked(todo[idx], k)
<1>2. old.frame_seq = current_frame_count
  BY TrackedNow
<1> HIDE DEF old
<1>3. win.frame_seq = old.frame_seq
  <2>1. old \in Window
    BY <1>1 DEF old
  <2>2. CASE win = old
    BY <2>2
  <2>3. ASSUME NEW id, NEW name, win = Titled(old, id, name)
        PROVE  win.frame_seq = old.frame_seq
    BY <2>1, <2>3 DEF Titled, Window
  <2>4. QED
    BY <1>1, <2>2, <2>3 DEF old
<1>4. QED
  BY <1>1, <1>2, <1>3

\* A face adds one window to its frame at most, and none to another.
LEMMA CountTitleFace ==
    ASSUME TypeOK, WindowsCounted, TitleFace, TypeOK'
    PROVE  WindowsCounted'
<1>1. PICK k \in 1..(Len(face_win_list) + 1), win \in Window :
             /\ SetWindow(k, win)
             /\ win.frame_seq = current_frame_count
  BY TitleFaceNow
<1>2. /\ face_win_list'[k] = win
      /\ k \in DOMAIN face_win_list'
      /\ \A j \in DOMAIN face_win_list' :
           j # k => /\ j \in DOMAIN face_win_list
                    /\ face_win_list'[j] = face_win_list[j]
  BY <1>1, SetWindowList
<1>3. /\ pc = "track" /\ pc' = "track" /\ todo' = todo /\ idx' = idx + 1
      /\ current_frame_count' = current_frame_count
      /\ idx <= Len(todo)
  BY DEF TitleFace
<1>4. /\ FaceNum \in Nat /\ Len(todo) \in Nat /\ idx \in Nat
      /\ current_frame_count \in Nat
  BY LimitsAssumption DEF TypeOK
<1>5. /\ Len(todo) <= FaceNum
      /\ Cardinality(SeenIn(current_frame_count)) < idx
  BY <1>3 DEF WindowsCounted
<1>6. ASSUME NEW n \in Int, n # current_frame_count
      PROVE  Cardinality(SeenIn(n)') <= FaceNum
  <2>1. SeenIn(n)' \in SUBSET SeenIn(n)
    BY <1>1, <1>2, <1>6 DEF SeenIn
  <2>2. Cardinality(SeenIn(n)') <= Cardinality(SeenIn(n))
    BY <2>1, SeenInFinite, FS_Subset
  <2>3. Cardinality(SeenIn(n)) <= FaceNum
    BY DEF WindowsCounted
  <2>4. Cardinality(SeenIn(n)') \in Nat /\ Cardinality(SeenIn(n)) \in Nat
    <3>1. IsFiniteSet(SeenIn(n)')
      BY <2>1, SeenInFinite, FS_Subset
    <3>2. QED
      BY <3>1, SeenInFinite, FS_CardinalityType
  <2>5. QED
    BY <2>2, <2>3, <2>4, <1>4
<1>7. /\ Cardinality(SeenIn(current_frame_count)') <= idx
      /\ Cardinality(SeenIn(current_frame_count)') \in Nat
  <2> DEFINE S == SeenIn(current_frame_count)
             T == SeenIn(current_frame_count)'
  <2>1. T \in SUBSET (S \cup {k})
    BY <1>2, <1>3 DEF SeenIn
  <2>2. IsFiniteSet(S) /\ Cardinality(S) \in Nat /\ Cardinality(S) < idx
    BY <1>5, SeenInFinite
  <2> HIDE DEF S, T
  <2>3. /\ IsFiniteSet(S \cup {k})
        /\ Cardinality(S \cup {k}) \in Nat
        /\ Cardinality(S \cup {k}) <= Cardinality(S) + 1
    <3>1. /\ IsFiniteSet(S \cup {k})
          /\ Cardinality(S \cup {k}) =
               IF k \in S THEN Cardinality(S) ELSE Cardinality(S) + 1
      BY <2>2, FS_AddElement
    <3>2. Cardinality(S \cup {k}) \in Nat
      BY <3>1, FS_CardinalityType
    <3>3. QED
      BY <2>2, <3>1, <3>2
  <2>4. IsFiniteSet(T) /\ Cardinality(T) <= Cardinality(S \cup {k})
    BY <2>1, <2>3, FS_Subset
  <2>5. Cardinality(T) \in Nat
    BY <2>4, FS_CardinalityType
  <2>6. Cardinality(T) <= idx
    BY <2>2, <2>3, <2>4, <2>5, <1>4
  <2>7. QED
    BY <2>5, <2>6 DEF T
<1>8. \A n \in Int : Cardinality(SeenIn(n)') <= FaceNum
  <2>1. Cardinality(SeenIn(current_frame_count)') <= FaceNum
    BY <1>3, <1>4, <1>5, <1>7
  <2>2. ASSUME NEW n \in Int, n = current_frame_count
        PROVE  Cardinality(SeenIn(n)') <= FaceNum
    BY <2>1, <2>2, <1>3 DEF SeenIn
  <2>3. QED
    BY <1>6, <2>2
<1>9. \A j \in DOMAIN face_win_list' :
        face_win_list'[j].frame_seq <= current_frame_count
  BY <1>1, <1>2, <1>4 DEF WindowsCounted
<1>10. Cardinality(SeenIn(current_frame_count)') < idx'
  BY <1>3, <1>4, <1>7
<1>11. QED
  <2>2. idx' <= Len(todo') + 1
    BY <1>3, <1>4
  <2>3. pc' \notin {"down", "load"} /\ Len(todo') <= FaceNum
    BY <1>3, <1>5
  <2>4. \A n \in Int : (Cardinality(SeenIn(n)) <= FaceNum)'
    BY <1>8
  <2>5. (Cardinality(SeenIn(current_frame_count)) < idx)'
    BY <1>3, <1>10 DEF SeenIn
  <2>6. QED
    BY <1>3, <1>9, <2>2, <2>3, <2>4, <2>5 DEF WindowsCounted

\* Dropping a window takes it from its frame and leaves the others as many.
LEMMA CountDropWindow ==
    ASSUME TypeOK, WindowsCounted, DropWindow
    PROVE  WindowsCounted'
<1>1. PICK from \in Injection(DOMAIN face_win_list', DOMAIN face_win_list) :
             \A j \in DOMAIN face_win_list' :
               face_win_list'[j] = face_win_list[from[j]]
  BY DropWindowPlaces
<1>2. /\ \A j \in DOMAIN face_win_list' : from[j] \in DOMAIN face_win_list
      /\ \A j, m \in DOMAIN face_win_list' : from[j] = from[m] => j = m
  BY DEF Injection, IsInjective
<1>3. pc' = "drop" /\ current_frame_count' = current_frame_count
  BY DEF DropWindow
<1>4. ASSUME NEW n \in Int
      PROVE  Cardinality(SeenIn(n)') <= FaceNum
  <2> DEFINE S == SeenIn(n)
             T == SeenIn(n)'
             f == [j \in T |-> from[j]]
  <2>1. f \in Injection(T, S)
    BY <1>1, <1>2 DEF Injection, IsInjective, SeenIn
  <2>2. IsFiniteSet(S) /\ Cardinality(S) \in Nat
    BY SeenInFinite
  <2>3. Cardinality(S) <= FaceNum
    BY DEF WindowsCounted
  <2> HIDE DEF S, T, f
  <2>4. IsFiniteSet(T) /\ Cardinality(T) <= Cardinality(S)
    BY <2>1, <2>2, FS_Injection
  <2>5. Cardinality(T) \in Nat /\ FaceNum \in Nat
    BY <2>4, FS_CardinalityType, LimitsAssumption
  <2>6. Cardinality(T) <= FaceNum
    BY <2>2, <2>3, <2>4, <2>5
  <2>7. QED
    BY <2>6 DEF T
<1>5. \A j \in DOMAIN face_win_list' :
        face_win_list'[j].frame_seq <= current_frame_count'
  BY <1>1, <1>2, <1>3 DEF WindowsCounted
<1>6. QED
  BY <1>3, <1>4, <1>5 DEF WindowsCounted

\* A new frame has no windows yet.
LEMMA CountRecognizeStart ==
    ASSUME TypeOK, WindowsCounted, RecognizeStart
    PROVE  WindowsCounted'
<1>1. /\ pc' = "track" /\ idx' = 1
      /\ current_frame_count' = current_frame_count + 1
      /\ face_win_list' = face_win_list
  BY DEF RecognizeStart
<1>2. current_frame_count \in Nat /\ FaceNum \in Nat
  BY LimitsAssumption DEF TypeOK
<1>3. Len(todo') <= FaceNum /\ todo' \in Seq(Box)
  <2>1. PICK found \in Frame : todo' \in Kept(found)
    BY DEF RecognizeStart
  <2>2. QED
    BY <2>1, KeptFew, KeptType
<1>4. \A k \in DOMAIN face_win_list :
        /\ face_win_list[k].frame_seq \in Nat
        /\ face_win_list[k].frame_seq <= current_frame_count
  <2>1. ASSUME NEW k \in DOMAIN face_win_list
        PROVE  face_win_list[k].frame_seq \in Nat
    <3>1. face_win_list[k] \in Window
      BY DEF TypeOK
    <3>2. QED
      BY <3>1 DEF Window
  <2>2. QED
    BY <2>1 DEF WindowsCounted
<1>5. \A n \in Int : (Cardinality(SeenIn(n)) <= FaceNum)'
  <2>1. ASSUME NEW n \in Int
        PROVE  Cardinality(SeenIn(n)') <= FaceNum
    <3>1. SeenIn(n)' = SeenIn(n)
      BY <1>1 DEF SeenIn
    <3>2. QED
      BY <3>1 DEF WindowsCounted
  <2>2. QED
    BY <2>1
<1>6. (Cardinality(SeenIn(current_frame_count)) < idx)'
  <2>1. SeenIn(current_frame_count)' = {}
    BY <1>1, <1>2, <1>4 DEF SeenIn
  <2>2. QED
    BY <1>1, <2>1, FS_EmptySet
<1>7. \A k \in DOMAIN face_win_list' :
        face_win_list'[k].frame_seq <= current_frame_count'
  BY <1>1, <1>2, <1>4
<1>8. idx' <= Len(todo') + 1
  <2>1. Len(todo') \in Nat
    BY <1>3
  <2>2. QED
    BY <1>1, <2>1
<1>9. QED
  BY <1>1, <1>3, <1>5, <1>6, <1>7, <1>8 DEF WindowsCounted

\* No step leaves more windows of a frame than it had faces.
LEMMA WindowsCountedNext ==
    TypeOK /\ WindowsCounted /\ [Next]_vars => WindowsCounted'
<1> SUFFICES ASSUME TypeOK, WindowsCounted, [Next]_vars
             PROVE  WindowsCounted'
  OBVIOUS
<1>1. CASE TitleFace
  BY <1>1, CountTitleFace, TypeNext
<1>2. CASE DropWindow
  BY <1>2, CountDropWindow
<1>3. CASE RecognizeStart
  BY <1>3, CountRecognizeStart
<1>4. CASE Crash
  <2>1. /\ face_win_list' = << >> /\ current_frame_count' = 0
        /\ pc' = "down"
    BY <1>4 DEF Crash
  <2>2. \A n \in Int : (Cardinality(SeenIn(n)) <= FaceNum)'
    <3>1. ASSUME NEW n \in Int
          PROVE  Cardinality(SeenIn(n)') <= FaceNum
      <4>1. SeenIn(n)' = {}
        BY <2>1 DEF SeenIn
      <4>2. QED
        BY <4>1, FS_EmptySet, LimitsAssumption
    <3>2. QED
      BY <3>1
  <2>3. QED
    BY <2>1, <2>2 DEF WindowsCounted
<1>5. ASSUME UNCHANGED <<face_win_list, current_frame_count>>,
             pc' = "track" => UNCHANGED <<pc, todo, idx>>,
             pc' \in {"down", "load"} => pc \in {"down", "load"}
      PROVE  WindowsCounted'
  <2>1. \A n \in Int : (Cardinality(SeenIn(n)) <= FaceNum)'
    <3>1. ASSUME NEW n \in Int
          PROVE  Cardinality(SeenIn(n)') <= FaceNum
      <4>1. SeenIn(n)' = SeenIn(n)
        BY <1>5 DEF SeenIn
      <4>2. QED
        BY <4>1 DEF WindowsCounted
    <3>2. QED
      BY <3>1
  <2>2. ASSUME pc' = "track"
        PROVE  /\ Len(todo') <= FaceNum
               /\ idx' <= Len(todo') + 1
               /\ Cardinality(SeenIn(current_frame_count)') < idx'
    <3>1. SeenIn(current_frame_count)' = SeenIn(current_frame_count)
      BY <1>5 DEF SeenIn
    <3>2. QED
      BY <1>5, <2>2, <3>1 DEF WindowsCounted
  <2>3. QED
    BY <1>5, <2>1, <2>2 DEF WindowsCounted
<1>6. CASE BuildResult \/ RecognizeReturn
  <2>1. /\ UNCHANGED <<face_win_list, current_frame_count>>
        /\ pc' \in {"drop", "idle"}
    BY <1>6 DEF BuildResult, RecognizeReturn, tracking
  <2>2. QED
    BY <2>1, <1>5
<1>7. CASE Register \/ SaveStart \/ SaveRecord \/ SaveReturn
  <2>1. /\ UNCHANGED <<face_win_list, current_frame_count>>
        /\ pc' \in {"save", "idle"}
    BY <1>7 DEF Register, RegisterRefused, RegisterNoFeature, RegisterPerson,
                Refuse, SaveStart, SaveRecord, SaveReturn, tracking
  <2>2. QED
    BY <2>1, <1>5
<1>8. CASE Start \/ LoadRecord \/ LoadReturn
  <2>1. /\ UNCHANGED <<face_win_list, current_frame_count>>
        /\ pc' \in {"load", "idle"} /\ pc \in {"down", "load"}
    BY <1>8 DEF Start, LoadRecord, LoadReturn, tracking
  <2>2. QED
    BY <2>1, <1>5
<1>9. CASE UNCHANGED vars
  BY <1>5, <1>9 DEF vars, tracking
<1>10. QED
  BY <1>1, <1>2, <1>3, <1>4, <1>6, <1>7, <1>8, <1>9 DEF Next, Proceed

\* There are no windows at the start.
LEMMA WindowsCountedInit == Init => WindowsCounted
<1> SUFFICES ASSUME Init PROVE WindowsCounted
  OBVIOUS
<1>1. face_win_list = << >> /\ pc = "down" /\ current_frame_count = 0
  BY DEF Init
<1>2. ASSUME NEW n \in Int
      PROVE  Cardinality(SeenIn(n)) <= FaceNum
  <2>1. SeenIn(n) = {}
    BY <1>1 DEF SeenIn
  <2>2. QED
    BY <2>1, FS_EmptySet, LimitsAssumption
<1>3. QED
  BY <1>1, <1>2 DEF WindowsCounted

\* The invariant behind EveryFaceReported: of the faces of the frame that have
\* been handled, each is close to a window of this frame; the window may have
\* been taken by each of those handled after it.
FacesFollowed ==
    pc = "track" =>
        \A l \in DOMAIN todo : l < idx =>
            \E k \in Current :
                Within((idx - 1 - l) * TracePixels, todo[l], face_win_list[k].box)

\* The result has room for all windows of the frame.
LEMMA ReportedIsCurrent ==
    ASSUME TypeOK, WindowsCounted
    PROVE  Reported = Current
<1>1. Current = SeenIn(current_frame_count)
  BY DEF Current, SeenIn
<1>2. IsFiniteSet(Current) /\ Cardinality(Current) \in Nat
  BY <1>1, SeenInFinite
<1>3. Cardinality(Current) <= FaceNum
  BY <1>1 DEF WindowsCounted, TypeOK
<1>4. ASSUME NEW k \in Current
      PROVE  Cardinality({ m \in Current : m < k }) < FaceNum
  <2> DEFINE B == { m \in Current : m < k }
  <2>1. k \in Int
    BY DEF Current, TypeOK
  <2>2. B \in SUBSET (Current \ {k})
    BY <2>1
  <2> HIDE DEF B
  <2>3. /\ IsFiniteSet(Current \ {k})
        /\ Cardinality(Current \ {k}) = Cardinality(Current) - 1
    BY <1>2, FS_RemoveElement
  <2>4. IsFiniteSet(B) /\ Cardinality(B) <= Cardinality(Current \ {k})
    BY <2>2, <2>3, FS_Subset
  <2>5. Cardinality(B) \in Nat /\ FaceNum \in Nat
    BY <2>4, FS_CardinalityType, LimitsAssumption
  <2>6. Cardinality(B) < FaceNum
    BY <1>2, <1>3, <2>3, <2>4, <2>5
  <2>7. QED
    BY <2>6 DEF B
<1>5. QED
  BY <1>4 DEF Reported

\* Whoever is within e of something that moves by less than trace_pixels stays
\* within that much more of it.
LEMMA WithinFurther ==
    ASSUME NEW e \in Nat, NEW a \in Box, NEW b \in Box, NEW c \in Box,
           Within(e, a, b),
           b.x - c.x < TracePixels, b.x - c.x > -TracePixels,
           b.y - c.y < TracePixels, b.y - c.y > -TracePixels
    PROVE  Within(e + TracePixels, a, c)
<1>1. /\ a.x \in Int /\ b.x \in Int /\ c.x \in Int
      /\ a.y \in Int /\ b.y \in Int /\ c.y \in Int
  BY DEF Box
<1>2. TracePixels \in Nat
  BY LimitsAssumption
<1>3. /\ a.x - b.x <= e /\ -e <= a.x - b.x
      /\ a.y - b.y <= e /\ -e <= a.y - b.y
  BY <1>1 DEF Within
<1>4. /\ a.x - c.x <= e + TracePixels /\ -(e + TracePixels) <= a.x - c.x
      /\ a.y - c.y <= e + TracePixels /\ -(e + TracePixels) <= a.y - c.y
  BY <1>1, <1>2, <1>3
<1>5. QED
  BY <1>1, <1>2, <1>4 DEF Within

\* A wider distance is allowed where a smaller one is.
LEMMA WithinWider ==
    ASSUME NEW e \in Nat, NEW a \in Box, NEW b \in Box, Within(e, a, b)
    PROVE  Within(e + TracePixels, a, b)
<1>1. /\ a.x - b.x \in Int /\ a.y - b.y \in Int
      /\ TracePixels \in Nat
  BY LimitsAssumption DEF Box
<1>2. QED
  BY <1>1 DEF Within

\* The window of a face is at the face, and of this frame; and if it is not a
\* new one it was close to the face before.
LEMMA TitleFaceBox ==
    ASSUME TypeOK, TitleFace
    PROVE  \E k \in 1..(Len(face_win_list) + 1), win \in Window :
             /\ SetWindow(k, win)
             /\ win.box = todo[idx]
             /\ win.frame_seq = current_frame_count
             /\ ~ IsNew(k) => Follows(face_win_list[k], todo[idx])
<1>1. PICK k \in 1..(Len(face_win_list) + 1), win \in Window :
             LET old == Tracked(todo[idx], k)
             IN /\ SetWindow(k, win)
                /\ IsWindowOf(todo[idx], k)
                /\ old \in Window
                /\ \/ win = old
                   \/ \E id, name : win = Titled(old, id, name)
  BY TitleFaceWindow
<1> DEFINE old == Tracked(todo[idx], k)
<1>2. old \in Window
  BY <1>1
<1>3. old.frame_seq = current_frame_count
  BY TrackedNow
<1>4. old.box = todo[idx]
  <2>1. CASE IsNew(k)
    BY <2>1 DEF Tracked
  <2>2. CASE ~ IsNew(k)
    <3>1. k \in DOMAIN face_win_list /\ face_win_list[k] \in Window
      BY <2>2 DEF IsNew, TypeOK
    <3>2. QED
      BY <2>2, <3>1 DEF Tracked, Window
  <2>3. QED
    BY <2>1, <2>2
<1>5. win = old \/ \E id, name : win = Titled(old, id, name)
  BY <1>1
<1> HIDE DEF old
<1>6. ASSUME NEW id, NEW name
      PROVE  /\ Titled(old, id, name).box = todo[idx]
             /\ Titled(old, id, name).frame_seq = current_frame_count
  BY <1>2, <1>3, <1>4 DEF Titled, Window
<1>7. win.box = todo[idx] /\ win.frame_seq = current_frame_count
  BY <1>3, <1>4, <1>5, <1>6
<1>8. ~ IsNew(k) => Follows(face_win_list[k], todo[idx])
  BY <1>1 DEF IsWindowOf
<1>9. QED
  BY <1>1, <1>7, <1>8

\* The face that is handled is where its window now is; a face whose window it
\* takes is no further from it than a face may move.
LEMMA FollowedTitleFace ==
    ASSUME TypeOK, FacesFollowed, TitleFace
    PROVE  FacesFollowed'
<1>1. PICK w \in 1..(Len(face_win_list) + 1), win \in Window :
             /\ SetWindow(w, win)
             /\ win.box = todo[idx]
             /\ win.frame_seq = current_frame_count
             /\ ~ IsNew(w) => Follows(face_win_list[w], todo[idx])
  BY TitleFaceBox
<1>2. /\ face_win_list'[w] = win
      /\ w \in DOMAIN face_win_list'
      /\ \A m \in DOMAIN face_win_list : m \in DOMAIN face_win_list'
      /\ \A m \in DOMAIN face_win_list :
           m # w => face_win_list'[m] = face_win_list[m]
  BY <1>1, SetWindowList
<1>3. /\ pc = "track" /\ idx \in Nat /\ idx \in DOMAIN todo
      /\ todo' = todo /\ idx' = idx + 1
      /\ current_frame_count' = current_frame_count
      /\ todo[idx] \in Box
  BY DEF TitleFace, TypeOK
<1>4. w \in Current'
  BY <1>1, <1>2, <1>3 DEF Current
<1>5. ASSUME NEW l \in DOMAIN todo, l <= idx
      PROVE  \E k \in Current' :
               Within((idx - l) * TracePixels, todo[l], face_win_list'[k].box)
  <2>0. l \in Nat /\ TracePixels \in Nat /\ todo[l] \in Box
    BY LimitsAssumption DEF TypeOK
  <2>1. CASE l = idx
    <3>1. (idx - l) * TracePixels = 0
      BY <1>3, <2>0, <2>1
    <3>2. todo[idx].x - todo[idx].x = 0 /\ todo[idx].y - todo[idx].y = 0
      BY <1>3 DEF Box
    <3>3. Within(0, todo[idx], todo[idx])
      BY <3>2 DEF Within
    <3>4. QED
      BY <1>1, <1>2, <1>4, <2>1, <3>1, <3>3
  <2>2. CASE l < idx
    <3>1. PICK k \in Current :
            Within((idx - 1 - l) * TracePixels, todo[l], face_win_list[k].box)
      BY <1>3, <2>2 DEF FacesFollowed
    <3>2. /\ k \in DOMAIN face_win_list
          /\ face_win_list[k].frame_seq = current_frame_count
          /\ face_win_list[k].box \in Box
      <4>1. /\ k \in DOMAIN face_win_list
            /\ face_win_list[k].frame_seq = current_frame_count
        BY DEF Current
      <4>2. face_win_list[k] \in Window
        BY <4>1 DEF TypeOK
      <4>3. QED
        BY <4>1, <4>2 DEF Window
    <3> DEFINE n == idx - 1 - l
               e == n * TracePixels
    <3>3. n \in Nat /\ (idx - l) = n + 1
      BY <1>3, <2>0, <2>2
    <3>4. e \in Nat /\ (idx - l) * TracePixels = e + TracePixels
      <4> HIDE DEF n
      <4>1. \A u, v \in Nat : u * v \in Nat /\ (u + 1) * v = u * v + v
        OBVIOUS
      <4>2. QED
        BY <2>0, <3>3, <4>1 DEF e
    <3> HIDE DEF n, e
    <3>5. Within(e, todo[l], face_win_list[k].box)
      BY <3>1 DEF n, e
    <3>6. CASE k = w
      <4>1. ~ IsNew(w)
        BY <3>2, <3>6 DEF IsNew, TypeOK
      <4>2. Follows(face_win_list[w], todo[idx])
        BY <1>1, <4>1
      <4>3. Within(e + TracePixels, todo[l], todo[idx])
        BY <1>3, <2>0, <3>2, <3>4, <3>5, <3>6, <4>2, WithinFurther DEF Follows
      <4>4. QED
        BY <1>1, <1>2, <1>4, <3>4, <4>3
    <3>7. CASE k # w
      <4>1. k \in Current' /\ face_win_list'[k] = face_win_list[k]
        BY <1>2, <1>3, <3>2, <3>7 DEF Current
      <4>2. Within(e + TracePixels, todo[l], face_win_list[k].box)
        BY <2>0, <3>2, <3>4, <3>5, WithinWider
      <4>3. QED
        BY <3>4, <4>1, <4>2
    <3>8. QED
      BY <3>6, <3>7
  <2>3. QED
    BY <1>3, <1>5, <2>0, <2>1, <2>2
<1>6. ASSUME NEW l \in DOMAIN todo', l < idx'
      PROVE  \E k \in Current' :
               Within((idx' - 1 - l) * TracePixels, todo'[l], face_win_list'[k].box)
  <2>1. l \in DOMAIN todo /\ l \in Nat
    BY <1>3 DEF TypeOK
  <2>2. l <= idx /\ idx' - 1 - l = idx - l
    BY <1>3, <1>6, <2>1
  <2>3. QED
    BY <1>3, <1>5, <2>1, <2>2
<1>7. QED
  BY <1>6 DEF FacesFollowed, Within

\* Every step leaves each face of the frame close to a window of the frame
\* while they are handled, and to an entry of the result then.
LEMMA FacesReportedNext ==
    ASSUME TypeOK, WindowsCounted, FacesFollowed, EveryFaceReported, [Next]_vars
    PROVE  FacesFollowed' /\ EveryFaceReported'
<1>1. CASE RecognizeStart
  <2>1. pc' = "track" /\ idx' = 1 /\ todo' \in Seq(Box)
    BY <1>1, KeptType, InputAssumption DEF RecognizeStart
  <2>2. \A l \in DOMAIN todo' : ~ (l < idx')
    BY <2>1
  <2>3. QED
    BY <2>1, <2>2 DEF FacesFollowed, EveryFaceReported
<1>2. CASE TitleFace
  <2>1. pc' = "track"
    BY <1>2 DEF TitleFace
  <2>2. QED
    BY <1>2, <2>1, FollowedTitleFace DEF EveryFaceReported
<1>3. CASE BuildResult
  <2>1. /\ pc = "track" /\ pc' = "drop" /\ todo' = todo
        /\ idx > Len(todo)
        /\ result' = [k \in Reported |-> [box |-> face_win_list[k].box,
                                          title |-> face_win_list[k].title]]
    BY <1>3 DEF BuildResult
  <2>2. idx - 1 = Len(todo)
    BY <2>1 DEF WindowsCounted, TypeOK
  <2>3. ASSUME NEW l \in DOMAIN todo
        PROVE  \E k \in DOMAIN result' :
                 Within((Len(todo) - l) * TracePixels, todo[l], result'[k].box)
    <3>1. l < idx /\ l \in Nat
      BY <2>1 DEF TypeOK
    <3>2. PICK k \in Current :
            Within((idx - 1 - l) * TracePixels, todo[l], face_win_list[k].box)
      BY <2>1, <3>1 DEF FacesFollowed
    <3>3. k \in DOMAIN result' /\ result'[k].box = face_win_list[k].box
      BY <2>1, ReportedIsCurrent
    <3>4. QED
      BY <2>2, <3>2, <3>3
  <2>4. \A l \in DOMAIN todo' : \E k \in DOMAIN result' :
            Within((Len(todo') - l) * TracePixels, todo'[l], result'[k].box)
    BY <2>1, <2>3
  <2>5. QED
    BY <2>1, <2>4 DEF FacesFollowed, EveryFaceReported, Within
<1>4. CASE DropWindow
  <2>1. pc = "drop" /\ pc' = "drop" /\ todo' = todo /\ result' = result
    BY <1>4 DEF DropWindow
  <2>2. QED
    BY <2>1 DEF FacesFollowed, EveryFaceReported, Within
<1>5. CASE UNCHANGED vars
  BY <1>5 DEF vars, tracking, FacesFollowed, EveryFaceReported, Within, Current
<1>6. ASSUME pc' \notin {"track", "drop"}
      PROVE  FacesFollowed' /\ EveryFaceReported'
  BY <1>6 DEF FacesFollowed, EveryFaceReported
<1>7. CASE \/ RecognizeReturn \/ Register \/ SaveStart \/ SaveRecord
           \/ SaveReturn \/ LoadRecord \/ LoadReturn \/ Start \/ Crash
  <2>1. pc' \notin {"track", "drop"}
    BY <1>7 DEF RecognizeReturn, Register, RegisterRefused, RegisterNoFeature,
       RegisterPerson, Refuse, SaveStart, SaveRecord, SaveReturn, LoadRecord,
       LoadReturn, Start, Crash
  <2>2. QED
    BY <1>6, <2>1
<1>8. QED
  BY <1>1, <1>2, <1>3, <1>4, <1>5, <1>7 DEF Next, Proceed

\* No face of a frame is left out of its result: there are no more of them
\* than the result has room for, as each opens one window at most, and what
\* takes a window from a face was close to it.  So a face is shown where it
\* is, or no further off than trace_pixels for each face handled after it.
THEOREM EveryFaceIsReported == Spec => []EveryFaceReported
<1>1. Init => FacesFollowed /\ EveryFaceReported
  BY DEF Init, FacesFollowed, EveryFaceReported
<1>2. Spec => []WindowsCounted
  BY TypeCorrect, WindowsCountedInit, WindowsCountedNext, PTL DEF Spec
<1>3. TypeOK /\ WindowsCounted /\ FacesFollowed /\ EveryFaceReported /\ [Next]_vars
        => FacesFollowed' /\ EveryFaceReported'
  BY FacesReportedNext
<1>4. QED
  BY <1>1, <1>2, <1>3, TypeCorrect, PTL DEF Spec

\* The invariant behind the rest of WindowsBounded: the loop of drop_aged_win
\* leaves no old window behind it.
NoneAgedBehind ==
    /\ pc = "drop" => \A k \in DOMAIN face_win_list :
                        k < idx => ~ Aged(face_win_list[k])
    /\ pc \in {"idle", "save"} =>
         \A k \in DOMAIN face_win_list : ~ Aged(face_win_list[k])

\* Every turn of that loop does so, and no other step makes a window old
\* before the next call of Recognize.
LEMMA NoneAgedBehindNext ==
    TypeOK /\ WindowsCounted /\ NoneAgedBehind /\ [Next]_vars => NoneAgedBehind'
<1> SUFFICES ASSUME TypeOK, WindowsCounted, NoneAgedBehind, [Next]_vars
             PROVE  NoneAgedBehind'
  OBVIOUS
<1>1. CASE RecognizeStart \/ TitleFace
  <2>1. pc' = "track"
    BY <1>1 DEF RecognizeStart, TitleFace
  <2>2. QED
    BY <2>1 DEF NoneAgedBehind
<1>2. CASE BuildResult
  <2>1. pc' = "drop" /\ idx' = 1 /\ face_win_list' = face_win_list
    BY <1>2 DEF BuildResult
  <2>2. ASSUME NEW k \in DOMAIN face_win_list'
        PROVE  ~ (k < idx')
    BY <2>1 DEF TypeOK
  <2>3. QED
    BY <2>1, <2>2 DEF NoneAgedBehind
<1>3. CASE DropWindow
  <2>1. /\ pc = "drop" /\ pc' = "drop" /\ idx \in 1..Len(face_win_list)
        /\ current_frame_count' = current_frame_count
        /\ face_win_list \in Seq(Window)
    BY <1>3 DEF DropWindow, TypeOK
  <2>2. ASSUME NEW k \in DOMAIN face_win_list', k < idx'
        PROVE  ~ Aged(face_win_list'[k])
    <3>1. CASE Aged(face_win_list[idx])
      <4>1. idx' = idx /\ face_win_list' = RemoveAt(face_win_list, idx)
        BY <1>3, <3>1 DEF DropWindow
      <4>2. /\ face_win_list' \in Seq(Window)
            /\ Len(face_win_list') = Len(face_win_list) - 1
            /\ \A j \in 1..(Len(face_win_list) - 1) :
                 face_win_list'[j] = IF j < idx THEN face_win_list[j]
                                                ELSE face_win_list[j + 1]
        BY <2>1, <4>1, RemoveAtEntries
      <4>3. k \in 1..(Len(face_win_list) - 1)
        BY <4>2
      <4>4. face_win_list'[k] = face_win_list[k] /\ k \in DOMAIN face_win_list
        BY <2>1, <2>2, <4>1, <4>2, <4>3
      <4>5. ~ Aged(face_win_list[k])
        BY <2>1, <2>2, <4>1, <4>4 DEF NoneAgedBehind
      <4>6. QED
        BY <4>4, <4>5
    <3>2. CASE ~ Aged(face_win_list[idx])
      <4>1. idx' = idx + 1 /\ face_win_list' = face_win_list
        BY <1>3, <3>2 DEF DropWindow
      <4>2. k \in DOMAIN face_win_list /\ (k < idx \/ k = idx)
        BY <2>1, <2>2, <4>1
      <4>3. ~ Aged(face_win_list[k])
        BY <2>1, <3>2, <4>2 DEF NoneAgedBehind
      <4>4. QED
        BY <4>1, <4>3
    <3>3. QED
      BY <3>1, <3>2
  <2>3. QED
    BY <2>1, <2>2 DEF NoneAgedBehind, Aged
<1>4. CASE RecognizeReturn
  <2>1. /\ pc = "drop" /\ idx > Len(face_win_list) /\ pc' = "idle"
        /\ UNCHANGED <<face_win_list, current_frame_count>>
    BY <1>4 DEF RecognizeReturn, tracking
  <2>2. ASSUME NEW k \in DOMAIN face_win_list
        PROVE  ~ Aged(face_win_list[k])
    <3>1. k < idx
      BY <2>1 DEF TypeOK
    <3>2. QED
      BY <2>1, <3>1 DEF NoneAgedBehind
  <2>3. QED
    BY <2>1, <2>2 DEF NoneAgedBehind, Aged
<1>5. CASE Register \/ SaveStart \/ SaveRecord \/ SaveReturn
  <2>1. /\ UNCHANGED <<face_win_list, current_frame_count>>
        /\ pc \in {"save", "idle"} /\ pc' \in {"save", "idle"}
    BY <1>5 DEF Register, RegisterRefused, RegisterNoFeature, RegisterPerson,
                Refuse, SaveStart, SaveRecord, SaveReturn, tracking
  <2>2. QED
    BY <2>1 DEF NoneAgedBehind, Aged
<1>6. CASE Start \/ LoadRecord \/ LoadReturn
  <2>1. /\ face_win_list' = face_win_list /\ pc \in {"down", "load"}
        /\ pc' \in {"load", "idle"}
    BY <1>6 DEF Start, LoadRecord, LoadReturn, tracking
  <2>2. face_win_list' = << >>
    BY <2>1 DEF WindowsCounted
  <2>3. QED
    BY <2>1, <2>2 DEF NoneAgedBehind
<1>7. CASE Crash
  <2>1. pc' = "down"
    BY <1>7 DEF Crash
  <2>2. QED
    BY <2>1 DEF NoneAgedBehind
<1>8. CASE UNCHANGED vars
  BY <1>8 DEF vars, tracking, NoneAgedBehind, Aged
<1>9. QED
  BY <1>1, <1>2, <1>3, <1>4, <1>5, <1>6, <1>7, <1>8 DEF Next, Proceed

\* Windows of no more than KeepLimit + 1 frames, FaceNum of each at most.
LEMMA WindowsFew ==
    ASSUME TypeOK, WindowsCounted,
           \A k \in DOMAIN face_win_list : ~ Aged(face_win_list[k])
    PROVE  Len(face_win_list) <= FaceNum * (KeepLimit + 1)
<1> DEFINE c     == current_frame_count
           Seen  == (c - KeepLimit)..c
           Place == 1..FaceNum
           place == [n \in Seen |->
                       CHOOSE f : f \in Injection(SeenIn(n), Place)]
           g     == [k \in DOMAIN face_win_list |->
                       << place[face_win_list[k].frame_seq][k],
                          face_win_list[k].frame_seq >>]
<1>1. c \in Nat /\ KeepLimit \in Nat /\ FaceNum \in Nat
  BY LimitsAssumption DEF TypeOK
<1>2. DOMAIN face_win_list = 1..Len(face_win_list) /\ Len(face_win_list) \in Nat
  BY DEF TypeOK
<1>3. ASSUME NEW n \in Seen
      PROVE  place[n] \in Injection(SeenIn(n), Place)
  <2>1. /\ IsFiniteSet(SeenIn(n)) /\ Cardinality(SeenIn(n)) \in Nat
        /\ Cardinality(SeenIn(n)) <= FaceNum
    BY <1>1, SeenInFinite DEF WindowsCounted
  <2> DEFINE d == Cardinality(SeenIn(n))
  <2>2. IsFiniteSet(1..d) /\ Cardinality(1..d) = d
    BY <2>1, FS_Interval
  <2> HIDE DEF d
  <2>3. ExistsBijection(SeenIn(n), 1..d)
    BY <2>1, <2>2, FS_SameCardinalityBij DEF d
  <2>4. PICK f : f \in Injection(SeenIn(n), 1..d)
    BY <2>3 DEF ExistsBijection, Bijection
  <2>5. d \in Nat /\ d <= FaceNum
    BY <2>1 DEF d
  <2>6. f \in Injection(SeenIn(n), Place)
    BY <2>4, <2>5, <1>1 DEF Injection
  <2>7. QED
    BY <2>6
<1>4. ASSUME NEW k \in DOMAIN face_win_list
      PROVE  face_win_list[k].frame_seq \in Seen
  <2>1. face_win_list[k] \in Window
    BY DEF TypeOK
  <2>2. face_win_list[k].frame_seq \in Nat
    BY <2>1 DEF Window
  <2>3. face_win_list[k].frame_seq <= c /\ ~ Aged(face_win_list[k])
    BY DEF WindowsCounted
  <2>4. QED
    BY <1>1, <2>2, <2>3 DEF Aged
<1> HIDE DEF Seen, Place, place
<1>5. ASSUME NEW k \in DOMAIN face_win_list
      PROVE  g[k] \in Place \X Seen
  <2>1. k \in SeenIn(face_win_list[k].frame_seq)
    BY DEF SeenIn
  <2>2. place[face_win_list[k].frame_seq][k] \in Place
    BY <2>1, <1>3, <1>4 DEF Injection
  <2>3. QED
    BY <2>2, <1>4
<1>6. ASSUME NEW k \in DOMAIN face_win_list, NEW m \in DOMAIN face_win_list,
             g[k] = g[m]
      PROVE  k = m
  <2> DEFINE n == face_win_list[k].frame_seq
  <2>1. face_win_list[m].frame_seq = n /\ place[n][k] = place[n][m]
    BY <1>6
  <2>2. k \in SeenIn(n) /\ m \in SeenIn(n)
    BY <2>1 DEF SeenIn
  <2>3. n \in Seen
    BY <1>4
  <2> HIDE DEF n
  <2>4. QED
    BY <2>1, <2>2, <2>3, <1>3 DEF Injection, IsInjective
<1>7. g \in Injection(1..Len(face_win_list), Place \X Seen)
  BY <1>2, <1>5, <1>6 DEF Injection, IsInjective
<1> HIDE DEF g
<1>8. /\ IsFiniteSet(Place) /\ Cardinality(Place) = FaceNum
      /\ IsFiniteSet(Seen) /\ Cardinality(Seen) = KeepLimit + 1
  <2>1. IsFiniteSet(1..FaceNum) /\ Cardinality(1..FaceNum) = FaceNum
    BY <1>1, FS_Interval
  <2>2. c - KeepLimit \in Int /\ c \in Int /\ ~ (c - KeepLimit > c)
    BY <1>1
  <2>3. /\ IsFiniteSet((c - KeepLimit)..c)
        /\ Cardinality((c - KeepLimit)..c) = c - (c - KeepLimit) + 1
    BY <2>2, FS_Interval
  <2>4. c - (c - KeepLimit) + 1 = KeepLimit + 1
    BY <1>1
  <2>5. QED
    BY <2>1, <2>3, <2>4 DEF Place, Seen
<1>9. /\ IsFiniteSet(Place \X Seen)
      /\ Cardinality(Place \X Seen) = FaceNum * (KeepLimit + 1)
  BY <1>8, FS_Product
<1>10. Cardinality(1..Len(face_win_list)) <= Cardinality(Place \X Seen)
  BY <1>7, <1>9, FS_Injection
<1>11. Cardinality(1..Len(face_win_list)) = Len(face_win_list)
  BY <1>2, FS_Interval
<1>12. QED
  BY <1>9, <1>10, <1>11

\* Windows do not pile up, whatever is seen in however many frames.
THEOREM WindowsStayBounded == Spec => []WindowsBounded
<1>1. Spec => []WindowsCounted
  BY TypeCorrect, WindowsCountedInit, WindowsCountedNext, PTL DEF Spec
<1>2. Init => NoneAgedBehind
  BY DEF Init, NoneAgedBehind
<1>3. Spec => []NoneAgedBehind
  BY <1>1, <1>2, TypeCorrect, NoneAgedBehindNext, PTL DEF Spec
<1>4. TypeOK /\ WindowsCounted /\ NoneAgedBehind => WindowsBounded
  BY WindowsFew DEF WindowsBounded, NoneAgedBehind
<1>5. QED
  BY <1>1, <1>3, <1>4, TypeCorrect, PTL

-----------------------------------------------------------------------------
(* The file *)

\* The invariant behind FileFollowsStore: the file has one record for an id,
\* and room for all its records is in the store.  Without the first, reading
\* a record could erase one that was read before.
FileInv ==
    /\ UniqueIds(disk)
    /\ Len(disk) <= MaxRecords
    /\ pc = "down" => data_list = << >> /\ idx = 1
    /\ FileFollowsStore

\* The next record of the file is of somebody the store does not have yet.
LEMMA LoadRecordAppends ==
    ASSUME TypeOK, FileInv, LoadRecord
    PROVE  /\ disk[idx] \in Record
           /\ disk[idx].face_id \notin IdsOf(data_list)
           /\ Len(data_list) < MaxRecords
           /\ data_list' = Append(data_list, disk[idx])
<1>1. /\ data_list \in Seq(Record) /\ disk \in Seq(Record)
      /\ MaxRecords \in Nat /\ Len(data_list) \in Nat /\ Len(disk) \in Nat
  BY LimitsAssumption DEF TypeOK
<1>2. /\ idx = Len(data_list) + 1 /\ idx \in 1..Len(disk)
      /\ Len(disk) <= MaxRecords
      /\ \A k \in DOMAIN data_list : data_list[k] = disk[k]
  BY DEF LoadRecord, FileInv, FileFollowsStore, TypeOK
<1>3. disk[idx] \in Record
  BY <1>1, <1>2
<1>4. ASSUME NEW k \in DOMAIN data_list
      PROVE  data_list[k].face_id # disk[idx].face_id
  <2>1. k \in DOMAIN disk /\ idx \in DOMAIN disk /\ k # idx
    BY <1>1, <1>2
  <2>2. QED
    BY <2>1, <1>2 DEF FileInv, UniqueIds
<1>5. disk[idx].face_id \notin IdsOf(data_list)
  BY <1>4 DEF IdsOf
<1>6. Len(data_list) < MaxRecords
  BY <1>1, <1>2
<1>7. data_list' = Append(data_list, disk[idx])
  BY <1>5, <1>6, <1>1 DEF LoadRecord, InsertRecord, RemoveId
<1>8. QED
  BY <1>3, <1>5, <1>6, <1>7

\* Saving a record changes no id.
LEMMA SavedId ==
    ASSUME NEW record \in Record
    PROVE  /\ Saved(record) \in Record
           /\ Saved(record).face_id = record.face_id
BY FeatureAssumption DEF Saved, Record

\* The next record that is written is of somebody the file does not have yet.
LEMMA SaveRecordAppends ==
    ASSUME TypeOK, TablesAgree, FileInv, SaveRecord
    PROVE  /\ data_list[idx] \in Record
           /\ data_list[idx].face_id \notin IdsOf(disk)
           /\ disk' = Append(disk, Saved(data_list[idx]))
           /\ idx = Len(disk) + 1
           /\ idx \in 1..Len(data_list)
<1>1. /\ data_list \in Seq(Record) /\ disk \in Seq(Record)
      /\ Len(data_list) \in Nat /\ Len(disk) \in Nat
  BY DEF TypeOK
<1>2. /\ idx = Len(disk) + 1 /\ idx \in 1..Len(data_list)
      /\ \A k \in DOMAIN disk : disk[k] = Saved(data_list[k])
      /\ disk' = Append(disk, Saved(data_list[idx]))
  BY DEF SaveRecord, FileInv, FileFollowsStore, TypeOK
<1>3. data_list[idx] \in Record
  BY <1>1, <1>2
<1>4. ASSUME NEW k \in DOMAIN disk
      PROVE  disk[k].face_id # data_list[idx].face_id
  <2>1. k \in DOMAIN data_list /\ idx \in DOMAIN data_list /\ k # idx
    BY <1>1, <1>2
  <2>2. disk[k].face_id = data_list[k].face_id
    BY <2>1, <1>1, <1>2, SavedId
  <2>3. QED
    BY <2>1, <2>2 DEF TablesAgree, UniqueIds
<1>5. data_list[idx].face_id \notin IdsOf(disk)
  BY <1>4 DEF IdsOf
<1>6. QED
  BY <1>2, <1>3, <1>5

\* Reading the file.
LEMMA FileLoad ==
    ASSUME TypeOK, FileInv, LoadRecord \/ LoadReturn
    PROVE  FileInv'
<1>0. data_list \in Seq(Record) /\ disk \in Seq(Record)
  BY DEF TypeOK
<1>1. CASE LoadRecord
  <2>1. /\ data_list' = Append(data_list, disk[idx])
        /\ disk' = disk /\ idx' = idx + 1 /\ pc = "load" /\ pc' = "load"
        /\ idx \in 1..Len(disk)
    BY <1>1, LoadRecordAppends DEF LoadRecord, TypeOK
  <2>2. /\ idx = Len(data_list) + 1
        /\ \A k \in DOMAIN data_list : data_list[k] = disk[k]
    BY <2>1 DEF FileInv, FileFollowsStore
  <2>3. /\ Len(data_list') = Len(data_list) + 1
        /\ \A k \in 1..Len(data_list') :
             data_list'[k] = IF k = idx THEN disk[idx] ELSE data_list[k]
        /\ DOMAIN data_list' = 1..Len(data_list')
    BY <2>1, <2>2, <1>0
  <2>4. /\ idx' = Len(data_list') + 1 /\ Len(data_list') <= Len(disk)
        /\ \A k \in DOMAIN data_list' : data_list'[k] = disk[k]
    BY <2>1, <2>2, <2>3, <1>0
  <2>5. QED
    BY <2>1, <2>4 DEF FileInv, FileFollowsStore
<1>2. CASE LoadReturn
  <2>1. /\ data_list' = data_list /\ disk' = disk /\ pc' = "idle"
        /\ pc = "load" /\ idx > Len(disk)
    BY <1>2 DEF LoadReturn, tables
  <2>2. /\ idx = Len(data_list) + 1 /\ Len(data_list) <= Len(disk)
        /\ \A k \in DOMAIN data_list : data_list[k] = disk[k]
    BY <2>1 DEF FileInv, FileFollowsStore
  <2>3. DOMAIN disk = DOMAIN data_list
    BY <2>1, <2>2, <1>0
  <2>4. IdsOf(disk) = IdsOf(data_list)
    BY <2>2, <2>3 DEF IdsOf
  <2>5. QED
    BY <2>1, <2>4 DEF FileInv, FileFollowsStore
<1>3. QED
  BY <1>1, <1>2

\* Writing it.
LEMMA FileSave ==
    ASSUME TypeOK, TablesAgree, FileInv,
           SaveStart \/ SaveRecord \/ SaveReturn
    PROVE  FileInv'
<1>0. /\ data_list \in Seq(Record) /\ disk \in Seq(Record)
      /\ MaxRecords \in Nat
  BY LimitsAssumption DEF TypeOK
<1>1. CASE SaveStart
  <2>1. /\ disk' = << >> /\ idx' = 1 /\ pc' = "save"
        /\ data_list' = data_list
    BY <1>1 DEF SaveStart, tables
  <2>2. Len(data_list) \in Nat
    BY <1>0
  <2>3. QED
    BY <1>0, <2>1, <2>2 DEF FileInv, FileFollowsStore, UniqueIds
<1>2. CASE SaveRecord
  <2> DEFINE new == Saved(data_list[idx])
  <2>1. /\ data_list[idx] \in Record
        /\ data_list[idx].face_id \notin IdsOf(disk)
        /\ disk' = Append(disk, new)
        /\ idx = Len(disk) + 1
        /\ idx \in 1..Len(data_list)
    BY <1>2, SaveRecordAppends
  <2>2. new \in Record /\ new.face_id = data_list[idx].face_id
    BY <2>1, SavedId
  <2>3. /\ data_list' = data_list /\ idx' = idx + 1
        /\ pc = "save" /\ pc' = "save"
    BY <1>2 DEF SaveRecord, tables
  <2>4. \A k \in DOMAIN disk : disk[k] = Saved(data_list[k])
    BY <2>3 DEF FileInv, FileFollowsStore
  <2>5. new = Saved(data_list[idx])
    OBVIOUS
  <2> HIDE DEF new
  <2>6. UniqueIds(disk')
    BY <1>0, <2>1, <2>2, AppendIds DEF FileInv
  <2>7. /\ Len(disk') = Len(disk) + 1
        /\ DOMAIN disk' = 1..Len(disk')
        /\ \A k \in 1..Len(disk') :
             disk'[k] = IF k = idx THEN new ELSE disk[k]
    BY <1>0, <2>1, <2>2
  <2>8. \A k \in DOMAIN disk' : disk'[k] = Saved(data_list'[k])
    BY <1>0, <2>1, <2>3, <2>4, <2>5, <2>7
  <2>9. Len(disk') <= Len(data_list') /\ idx' = Len(disk') + 1
    BY <1>0, <2>1, <2>3, <2>7
  <2>10. Len(disk') <= MaxRecords
    <3>1. Len(data_list) <= MaxRecords
      BY DEF TablesAgree
    <3>2. QED
      BY <1>0, <2>3, <2>7, <2>9, <3>1
  <2>11. QED
    BY <2>3, <2>6, <2>8, <2>9, <2>10 DEF FileInv, FileFollowsStore
<1>3. CASE SaveReturn
  <2>1. /\ data_list' = data_list /\ disk' = disk /\ pc' = "idle"
        /\ pc = "save" /\ idx > Len(data_list)
    BY <1>3 DEF SaveReturn, tables
  <2>2. /\ idx = Len(disk) + 1 /\ Len(disk) <= Len(data_list)
        /\ \A k \in DOMAIN disk : disk[k] = Saved(data_list[k])
    BY <2>1 DEF FileInv, FileFollowsStore
  <2>3. DOMAIN disk = DOMAIN data_list
    BY <2>1, <2>2, <1>0
  <2>4. ASSUME NEW k \in DOMAIN disk
        PROVE  disk[k].face_id = data_list[k].face_id
    BY <1>0, <2>2, <2>3, SavedId
  <2>5. IdsOf(disk) = IdsOf(data_list)
    BY <2>3, <2>4 DEF IdsOf
  <2>6. QED
    BY <2>1, <2>5 DEF FileInv, FileFollowsStore
<1>4. QED
  BY <1>1, <1>2, <1>3

\* What may be in the file, and what the store holds of it, in every step.
LEMMA FileNext ==
    TypeOK /\ TablesAgree /\ FileInv /\ [Next]_vars => FileInv'
<1> SUFFICES ASSUME TypeOK, TablesAgree, FileInv, [Next]_vars
             PROVE  FileInv'
  OBVIOUS
<1>1. CASE LoadRecord \/ LoadReturn
  BY <1>1, FileLoad
<1>2. CASE SaveStart \/ SaveRecord \/ SaveReturn
  BY <1>2, FileSave
<1>3. CASE Start
  <2>1. /\ pc = "down" /\ pc' = "load" /\ idx' = idx
        /\ data_list' = data_list /\ disk' \in {disk, << >>}
    BY <1>3 DEF Start, tables
  <2>2. data_list' = << >> /\ idx' = 1
    BY <2>1 DEF FileInv
  <2>3. UniqueIds(disk') /\ Len(disk') <= MaxRecords /\ Len(disk') \in Nat
    <3>1. CASE disk' = disk
      BY <3>1 DEF FileInv, TypeOK
    <3>2. CASE disk' = << >>
      BY <3>2, LimitsAssumption DEF UniqueIds
    <3>3. QED
      BY <2>1, <3>1, <3>2
  <2>4. QED
    BY <2>1, <2>2, <2>3 DEF FileInv, FileFollowsStore
<1>4. CASE Crash
  <2>1. pc' = "down" /\ data_list' = << >> /\ idx' = 1 /\ disk' = disk
    BY <1>4 DEF Crash
  <2>2. QED
    BY <2>1 DEF FileInv, FileFollowsStore
<1>5. CASE Register
  <2>1. pc = "idle" /\ pc' = "idle" /\ disk' = disk
    BY <1>5 DEF Register, RegisterRefused, RegisterNoFeature, RegisterPerson,
                Refuse
  <2>2. IdsOf(data_list) \subseteq IdsOf(data_list')
    <3>1. CASE UNCHANGED <<data_list, feature_db>>
      BY <3>1
    <3>2. CASE Crash
      BY <2>1, <3>2 DEF Crash
    <3>3. ASSUME NEW record \in Record,
                 data_list' = InsertRecord(data_list, record, MaxRecords),
                 feature_db' = InsertFeature(feature_db, record.feature,
                                             record.face_id)
          PROVE  IdsOf(data_list) \subseteq IdsOf(data_list')
      BY <3>3, TablesStep
    <3>4. QED
      BY <3>1, <3>2, <3>3, TablesNext
  <2>3. QED
    BY <2>1, <2>2 DEF FileInv, FileFollowsStore
<1>6. CASE \/ RecognizeStart \/ TitleFace \/ BuildResult
           \/ DropWindow \/ RecognizeReturn
  <2>1. /\ data_list' = data_list /\ disk' = disk
        /\ pc \in {"idle", "track", "drop"} /\ pc' \in {"idle", "track", "drop"}
    BY <1>6 DEF RecognizeStart, TitleFace, BuildResult, DropWindow,
                RecognizeReturn, tables
  <2>2. QED
    BY <2>1 DEF FileInv, FileFollowsStore
<1>7. CASE UNCHANGED vars
  BY <1>7 DEF vars, tables, FileInv, FileFollowsStore
<1>8. QED
  BY <1>1, <1>2, <1>3, <1>4, <1>5, <1>6, <1>7 DEF Next, Proceed

\* There is no file and nobody at the start.
LEMMA FileInit == Init => FileInv
<1> SUFFICES ASSUME Init PROVE FileInv
  OBVIOUS
<1>1. disk = << >> /\ data_list = << >> /\ pc = "down" /\ idx = 1
  BY DEF Init
<1>2. QED
  BY <1>1, LimitsAssumption DEF FileInv, FileFollowsStore, UniqueIds

\* For a store of any size and any number of lives of the process: what is
\* read is what was written, record by record, and between calls the file
\* holds nobody whom the store has lost, so that saving again forgets nobody.
THEOREM FileAlwaysFollows == Spec => []FileFollowsStore
<1>1. Spec => []FileInv
  BY TypeCorrect, TablesAlwaysAgree, FileInit, FileNext, PTL DEF Spec
<1>2. FileInv => FileFollowsStore
  BY DEF FileInv
<1>3. QED
  BY <1>1, <1>2, PTL

-----------------------------------------------------------------------------
(* The recogniser is a registry of people *)

\* An empty table is nobody.
LEMMA PeopleOfEmpty == PeopleOf(<< >>) = << >>
BY DEF PeopleOf, IdsOf

\* What is stored of the person of a record.
PersonOf(record) == [name |-> record.name, feature |-> record.feature]

\* A record at the back of a table without its id is one more person.
LEMMA PeopleOfAppend ==
    ASSUME NEW S, NEW table \in Seq(S), UniqueIds(table),
           NEW record \in S, record.face_id \notin IdsOf(table)
    PROVE  PeopleOf(Append(table, record))
             = Registry!With(PeopleOf(table), record.face_id, PersonOf(record))
<1> DEFINE new == Append(table, record)
           id  == record.face_id
<1>1. /\ new \in Seq(S) /\ Len(new) = Len(table) + 1
      /\ \A j \in DOMAIN table : j \in DOMAIN new /\ new[j] = table[j]
      /\ Len(table) + 1 \in DOMAIN new
      /\ new[Len(table) + 1] = record
  OBVIOUS
<1>2. IdsOf(new) = IdsOf(table) \cup {id} /\ UniqueIds(new)
  BY AppendIds
<1> HIDE DEF new
<1>3. FindRecord(new, id) = record
  BY <1>1, <1>2, FindRecordUnique
<1>4. ASSUME NEW other \in IdsOf(table)
      PROVE  FindRecord(table, other) = FindRecord(new, other)
  BY <1>1, <1>2, SameEntryFound
<1>5. ASSUME NEW other \in IdsOf(table)
      PROVE  PeopleOf(new)[other] = PeopleOf(table)[other] /\ other # id
  BY <1>2, <1>4 DEF PeopleOf
<1>6. PeopleOf(new)[id] = PersonOf(record)
  BY <1>2, <1>3 DEF PeopleOf, PersonOf
<1>7. DOMAIN PeopleOf(new) = IdsOf(table) \cup {id}
  BY <1>2 DEF PeopleOf
<1>8. DOMAIN PeopleOf(table) = IdsOf(table)
  BY DEF PeopleOf
<1>9. PeopleOf(new) = [k \in DOMAIN PeopleOf(new) |-> PeopleOf(new)[k]]
  BY DEF PeopleOf
<1>10. PeopleOf(new)
         = [k \in IdsOf(table) \cup {id} |->
              IF k = id THEN PersonOf(record) ELSE PeopleOf(table)[k]]
  BY <1>5, <1>6, <1>7, <1>9
<1>11. QED
  BY <1>8, <1>10 DEF Registry!With, new

\* With a person under an id it does not matter who had the id before.
LEMMA PeopleOfRemove ==
    ASSUME NEW S, NEW table \in Seq(S), UniqueIds(table), NEW id, NEW person
    PROVE  Registry!With(PeopleOf(RemoveId(table, id)), id, person)
             = Registry!With(PeopleOf(table), id, person)
<1> DEFINE rest == RemoveId(table, id)
<1>1. /\ rest \in Seq(S) /\ UniqueIds(rest)
      /\ IdsOf(rest) = IdsOf(table) \ {id}
  BY RemoveIdType, RemoveIdIds
<1>2. \A j \in DOMAIN rest : \E k \in DOMAIN table : rest[j] = table[k]
  BY RemoveIdEntries
<1> HIDE DEF rest
<1>3. ASSUME NEW other \in IdsOf(table) \ {id}
      PROVE  FindRecord(rest, other) = FindRecord(table, other)
  BY <1>1, <1>2, SameEntryFound
<1>4. ASSUME NEW other \in IdsOf(table) \ {id}
      PROVE  PeopleOf(rest)[other] = PeopleOf(table)[other]
  BY <1>1, <1>3 DEF PeopleOf
<1>5. /\ DOMAIN PeopleOf(rest) = IdsOf(table) \ {id}
      /\ DOMAIN PeopleOf(table) = IdsOf(table)
  BY <1>1 DEF PeopleOf
<1>6. DOMAIN PeopleOf(rest) \cup {id} = DOMAIN PeopleOf(table) \cup {id}
  BY <1>5
<1>7. [k \in DOMAIN PeopleOf(rest) \cup {id} |->
         IF k = id THEN person ELSE PeopleOf(rest)[k]]
        = [k \in DOMAIN PeopleOf(table) \cup {id} |->
             IF k = id THEN person ELSE PeopleOf(table)[k]]
  BY <1>4, <1>5, <1>6
<1>8. QED
  BY <1>7 DEF Registry!With, rest

\* Reading a record is reading a person.
LEMMA RegistryLoad ==
    ASSUME TypeOK, TablesAgree, FileInv, LoadRecord
    PROVE  Registry!LoadOne
<1> DEFINE record == disk[idx]
<1>1. /\ record \in Record
      /\ record.face_id \notin IdsOf(data_list)
      /\ data_list' = Append(data_list, record)
  BY LoadRecordAppends
<1>2. /\ pc = "load" /\ pc' = "load" /\ disk' = disk
      /\ idx \in DOMAIN disk
  BY DEF LoadRecord, TypeOK
<1>3. /\ data_list \in Seq(Record) /\ disk \in Seq(Record)
      /\ UniqueIds(data_list) /\ UniqueIds(disk)
  BY DEF TypeOK, TablesAgree, FileInv
<1>4. /\ record.face_id \in IdsOf(disk)
      /\ FindRecord(disk, record.face_id) = record
  BY <1>2, <1>3, FindRecordUnique
<1> HIDE DEF record
<1>5. PeopleOf(data_list')
        = Registry!With(PeopleOf(data_list), record.face_id, PersonOf(record))
  BY <1>1, <1>3, PeopleOfAppend
<1>6. PeopleOf(disk)[record.face_id] = PersonOf(record)
  BY <1>4 DEF PeopleOf, PersonOf
<1>7. record.face_id \in DOMAIN PeopleOf(disk) \ DOMAIN PeopleOf(data_list)
  BY <1>1, <1>4 DEF PeopleOf
<1>8. QED
  BY <1>2, <1>5, <1>6, <1>7 DEF Registry!LoadOne

\* At the end of the loop all of them have been read.
LEMMA RegistryLoaded ==
    ASSUME TypeOK, FileInv, LoadReturn
    PROVE  Registry!Loaded
<1>1. /\ pc = "load" /\ pc' = "idle" /\ disk' = disk
      /\ data_list' = data_list /\ idx > Len(disk)
  BY DEF LoadReturn, tables
<1>2. data_list \in Seq(Record) /\ disk \in Seq(Record)
  BY DEF TypeOK
<1>3. /\ idx = Len(data_list) + 1 /\ Len(data_list) <= Len(disk)
      /\ \A k \in DOMAIN data_list : data_list[k] = disk[k]
  BY <1>1 DEF FileInv, FileFollowsStore
<1>4. data_list = disk
  <2>1. Len(data_list) = Len(disk)
    BY <1>1, <1>2, <1>3
  <2>2. QED
    BY <1>2, <1>3, <2>1
<1>5. QED
  BY <1>1, <1>4 DEF Registry!Loaded

\* The person of a record that is written is the person written.
LEMMA SavedPerson ==
    ASSUME NEW record \in Record
    PROVE  PersonOf(Saved(record)) = Saved(PersonOf(record))
BY FeatureAssumption DEF Saved, Record, PersonOf

\* Writing a record is writing a person.
LEMMA RegistrySave ==
    ASSUME TypeOK, TablesAgree, FileInv, SaveRecord
    PROVE  Registry!SaveOne
<1> DEFINE record == data_list[idx]
           new    == Saved(record)
<1>1. /\ record \in Record
      /\ record.face_id \notin IdsOf(disk)
      /\ disk' = Append(disk, new)
      /\ idx \in DOMAIN data_list
  BY SaveRecordAppends DEF TypeOK
<1>2. pc = "save" /\ pc' = "save" /\ data_list' = data_list
  BY DEF SaveRecord, tables
<1>3. /\ data_list \in Seq(Record) /\ disk \in Seq(Record)
      /\ UniqueIds(data_list) /\ UniqueIds(disk)
  BY DEF TypeOK, TablesAgree, FileInv
<1>4. /\ record.face_id \in IdsOf(data_list)
      /\ FindRecord(data_list, record.face_id) = record
  BY <1>1, <1>3, FindRecordUnique
<1> HIDE DEF record
<1>5. /\ new \in Record /\ new.face_id = record.face_id
      /\ PersonOf(new) = Saved(PersonOf(record))
  BY <1>1, SavedId, SavedPerson
<1> HIDE DEF new
<1>6. PeopleOf(disk')
        = Registry!With(PeopleOf(disk), record.face_id, PersonOf(new))
  BY <1>1, <1>3, <1>5, PeopleOfAppend
<1>7. PeopleOf(data_list)[record.face_id] = PersonOf(record)
  BY <1>4 DEF PeopleOf, PersonOf
<1>8. record.face_id \in DOMAIN PeopleOf(data_list) \ DOMAIN PeopleOf(disk)
  BY <1>1, <1>4 DEF PeopleOf
<1>9. QED
  BY <1>2, <1>5, <1>6, <1>7, <1>8 DEF Registry!SaveOne

\* At the end of the loop all of them have been written.
LEMMA RegistrySaved ==
    ASSUME TypeOK, TablesAgree, FileInv, SaveReturn
    PROVE  Registry!Saved
<1>1. /\ pc = "save" /\ pc' = "idle" /\ disk' = disk
      /\ data_list' = data_list /\ idx > Len(data_list)
  BY DEF SaveReturn, tables
<1>2. /\ data_list \in Seq(Record) /\ disk \in Seq(Record)
      /\ UniqueIds(data_list) /\ UniqueIds(disk)
  BY DEF TypeOK, TablesAgree, FileInv
<1>3. /\ idx = Len(disk) + 1 /\ Len(disk) <= Len(data_list)
      /\ \A k \in DOMAIN disk : disk[k] = Saved(data_list[k])
  BY <1>1 DEF FileInv, FileFollowsStore
<1>4. DOMAIN disk = DOMAIN data_list
  BY <1>1, <1>2, <1>3
<1>5. ASSUME NEW k \in DOMAIN disk
      PROVE  disk[k].face_id = data_list[k].face_id
  BY <1>2, <1>3, <1>4, SavedId
<1>6. IdsOf(disk) = IdsOf(data_list)
  BY <1>4, <1>5 DEF IdsOf
<1>7. ASSUME NEW id \in IdsOf(data_list)
      PROVE  PeopleOf(disk)[id] = Saved(PeopleOf(data_list)[id])
  <2>1. PICK k \in DOMAIN data_list : data_list[k].face_id = id
    BY DEF IdsOf
  <2>2. FindRecord(data_list, id) = data_list[k] /\ data_list[k] \in Record
    BY <2>1, <1>2, FindRecordUnique
  <2>3. FindRecord(disk, id) = Saved(data_list[k])
    BY <2>1, <1>2, <1>3, <1>4, <1>5, FindRecordUnique
  <2>4. PeopleOf(data_list)[id] = PersonOf(data_list[k])
    BY <2>2 DEF PeopleOf, PersonOf
  <2>5. PeopleOf(disk)[id] = PersonOf(Saved(data_list[k]))
    BY <2>3, <1>6 DEF PeopleOf, PersonOf
  <2>6. PersonOf(Saved(data_list[k])) = Saved(PersonOf(data_list[k]))
    BY <2>2, SavedPerson
  <2>7. QED
    BY <2>4, <2>5, <2>6
<1>8. /\ DOMAIN PeopleOf(disk) = IdsOf(data_list)
      /\ DOMAIN PeopleOf(data_list) = IdsOf(data_list)
      /\ PeopleOf(disk) = [k \in DOMAIN PeopleOf(disk) |-> PeopleOf(disk)[k]]
  BY <1>6 DEF PeopleOf
<1>9. PeopleOf(disk) = Registry!Copy(PeopleOf(data_list))
  BY <1>7, <1>8 DEF Registry!Copy
<1>10. QED
  BY <1>1, <1>9 DEF Registry!Saved

\* Registering takes one person in, or, when it is refused or the store is
\* full, changes nobody.
LEMMA RegistryRegister ==
    ASSUME TypeOK, TablesAgree, Register
    PROVE  Registry!Register \/ UNCHANGED Registry!rvars
<1>1. pc = "idle" /\ pc' = "idle" /\ disk' = disk
  BY DEF Register, RegisterRefused, RegisterNoFeature, RegisterPerson, Refuse
<1>2. CASE data_list' = data_list
  BY <1>1, <1>2 DEF Registry!rvars
<1>3. ASSUME NEW record \in Record, Len(data_list) # MaxRecords,
             data_list' = InsertRecord(data_list, record, MaxRecords)
      PROVE  Registry!Register
  <2> DEFINE rest == RemoveId(data_list, record.face_id)
             id   == record.face_id
  <2>1. data_list \in Seq(Record) /\ MaxRecords \in Nat /\ UniqueIds(data_list)
    BY LimitsAssumption DEF TypeOK, TablesAgree
  <2>2. data_list' = Append(rest, record)
    BY <1>3 DEF InsertRecord
  <2>3. /\ rest \in Seq(Record) /\ UniqueIds(rest)
        /\ id \notin IdsOf(rest)
    BY <2>1, RemoveIdType, RemoveIdIds
  <2>4. Registry!With(PeopleOf(rest), id, PersonOf(record))
          = Registry!With(PeopleOf(data_list), id, PersonOf(record))
    BY <2>1, PeopleOfRemove
  <2> HIDE DEF rest
  <2>5. PeopleOf(data_list')
          = Registry!With(PeopleOf(rest), id, PersonOf(record))
    BY <2>2, <2>3, PeopleOfAppend
  <2>6. id \in RegistryIds /\ PersonOf(record) \in [name : Name, feature : Feature]
    BY DEF Record, PersonOf
  <2>7. Cardinality(DOMAIN PeopleOf(data_list)) < MaxRecords
    <3>1. DOMAIN PeopleOf(data_list) = IdsOf(data_list)
      BY DEF PeopleOf
    <3>2. Len(data_list) < MaxRecords /\ Len(data_list) \in Nat
      BY <1>3, <2>1 DEF TablesAgree
    <3>3. /\ Cardinality(IdsOf(data_list)) \in Nat
          /\ Cardinality(IdsOf(data_list)) <= Len(data_list)
      BY <2>1, IdsOfCardinality
    <3>4. QED
      BY <2>1, <3>1, <3>2, <3>3
  <2>8. \E k \in RegistryIds, person \in [name : Name, feature : Feature] :
          PeopleOf(data_list') = Registry!With(PeopleOf(data_list), k, person)
    BY <2>4, <2>5, <2>6, Zenon
  <2>9. Registry!Cardinality(DOMAIN PeopleOf(data_list)) < MaxRecords
    BY <2>7 DEF Registry!Cardinality, Cardinality
  <2>10. QED
    BY <1>1, <2>8, <2>9 DEF Registry!Register
<1>4. CASE Crash
  BY <1>1, <1>4 DEF Crash
<1>5. \/ data_list' = data_list
      \/ Crash
      \/ \E record \in Record :
           data_list' = InsertRecord(data_list, record, MaxRecords)
  <2>1. [Next]_vars
    BY DEF Next
  <2>2. QED
    BY <2>1, TablesNext
<1>6. CASE Len(data_list) = MaxRecords
  BY <1>2, <1>4, <1>5, <1>6 DEF InsertRecord
<1>7. QED
  BY <1>2, <1>3, <1>4, <1>5, <1>6

\* Every step of the recogniser is a step of the registry, or none.
LEMMA RegistryNext ==
    ASSUME TypeOK, TablesAgree, FileInv, [Next]_vars
    PROVE  [Registry!Next]_(Registry!rvars)
<1>1. CASE LoadRecord
  BY <1>1, RegistryLoad DEF Registry!Next
<1>2. CASE LoadReturn
  BY <1>2, RegistryLoaded DEF Registry!Next
<1>3. CASE SaveRecord
  BY <1>3, RegistrySave DEF Registry!Next
<1>4. CASE SaveReturn
  BY <1>4, RegistrySaved DEF Registry!Next
<1>5. CASE Register
  BY <1>5, RegistryRegister DEF Registry!Next
<1>6. CASE SaveStart
  <2>1. /\ pc = "idle" /\ pc' = "save" /\ disk' = << >>
        /\ data_list' = data_list
    BY <1>6 DEF SaveStart, tables
  <2>2. PeopleOf(disk') = << >>
    BY <2>1, PeopleOfEmpty
  <2>3. Registry!SaveBegins
    BY <2>1, <2>2 DEF Registry!SaveBegins, Registry!Nobody
  <2>4. QED
    BY <2>3 DEF Registry!Next
<1>7. CASE Start
  <2>1. /\ pc = "down" /\ pc' = "load" /\ disk' \in {disk, << >>}
        /\ data_list' = data_list
    BY <1>7 DEF Start, tables
  <2>2. PeopleOf(disk') \in {PeopleOf(disk), << >>}
    BY <2>1, PeopleOfEmpty
  <2>3. Registry!Start
    BY <2>1, <2>2 DEF Registry!Start, Registry!Nobody
  <2>4. QED
    BY <2>3 DEF Registry!Next
<1>8. CASE Crash
  <2>1. /\ pc # "down" /\ pc' = "down" /\ disk' = disk
        /\ data_list' = << >>
    BY <1>8 DEF Crash
  <2>2. PeopleOf(data_list') = << >>
    BY <2>1, PeopleOfEmpty
  <2>3. Registry!Crash
    BY <2>1, <2>2 DEF Registry!Crash, Registry!Nobody
  <2>4. QED
    BY <2>3 DEF Registry!Next
<1>9. CASE \/ RecognizeStart \/ TitleFace \/ BuildResult
           \/ DropWindow \/ RecognizeReturn
  <2>1. /\ data_list' = data_list /\ disk' = disk
        /\ pc \in {"idle", "track", "drop"} /\ pc' \in {"idle", "track", "drop"}
    BY <1>9 DEF RecognizeStart, TitleFace, BuildResult, DropWindow,
                RecognizeReturn, tables
  <2>2. QED
    BY <2>1 DEF Registry!rvars
<1>10. CASE UNCHANGED vars
  BY <1>10 DEF vars, tables, Registry!rvars
<1>11. QED
  BY <1>1, <1>2, <1>3, <1>4, <1>5, <1>6, <1>7, <1>8, <1>9, <1>10
  DEF Next, Proceed

\* The recogniser is a registry of people, step by step: with all its windows
\* and scans, replaced records and interrupted loops it does nothing to the
\* people and to the file that FaceRegistry does not allow.  (That loading
\* and saving come to an end is checked, not proved.)
THEOREM RecogniserIsRegistry ==
    Spec => Registry!Init /\ [][Registry!Next]_(Registry!rvars)
<1>1. Init => Registry!Init
  BY PeopleOfEmpty DEF Init, Registry!Init, Registry!Nobody
<1>2. Spec => []FileInv
  BY TypeCorrect, TablesAlwaysAgree, FileInit, FileNext, PTL DEF Spec
<1>3. TypeOK /\ TablesAgree /\ FileInv /\ [Next]_vars
        => [Registry!Next]_(Registry!rvars)
  BY RegistryNext
<1>4. QED
  BY <1>1, <1>2, <1>3, TypeCorrect, TablesAlwaysAgree, PTL DEF Spec
=============================================================================
