----------------------------- MODULE FaceStore -----------------------------
(***************************************************************************)
(* The two in-memory tables of the recogniser, as operators on sequences.  *)
(*                                                                         *)
(*   face_mem_store            the people: records with a face_id, a name  *)
(*                             and the feature vector of the registration  *)
(*   cosine_distance_verifier  what a face is compared with: pairs of a    *)
(*                             face_id and a feature vector                *)
(*                                                                         *)
(* Both are vectors searched from the front, and both replace an entry by  *)
(* erasing it and pushing the new one at the back.  Only the first is      *)
(* bounded.  A feature vector is an element of a set; comparing two of     *)
(* them is a function the modules that use this one declare.               *)
(***************************************************************************)
EXTENDS Integers, SequencesExt

\* The ids an entry of the table carries.
IdsOf(table) == { table[i].face_id : i \in DOMAIN table }

\* Where a scan from the front finds the id.
PositionOf(table, id) == Min({ i \in DOMAIN table : table[i].face_id = id })

\* No id has two entries.
UniqueIds(table) ==
    \A i, j \in DOMAIN table : table[i].face_id = table[j].face_id => i = j

\* face_mem_store::remove_record(face_id) and remove_feature(face_id): erase
\* the first entry with that id, if there is one.
RemoveId(table, id) ==
    IF id \in IdsOf(table) THEN RemoveAt(table, PositionOf(table, id)) ELSE table

\* face_mem_store::find_record(face_id): the first record with that id, when
\* there is one.
FindRecord(store, id) == store[PositionOf(store, id)]

\* Deviation: the store counts as full one record early.
InsertRecord_FullEarly(store, record, max) ==
    IF Len(store) + 1 >= max
    THEN store
    ELSE Append(RemoveId(store, record.face_id), record)

\* Deviation: a full store drops its oldest record.
InsertRecord_DropsOldest(store, record, max) ==
    IF Len(store) = max
    THEN Append(Tail(store), record)
    ELSE Append(RemoveId(store, record.face_id), record)

\* face_mem_store::insert_new_record.  The bound is tested before the record
\* of the same id is erased, so a full store refuses to replace one as well.
InsertRecord(store, record, max) ==
    IF Len(store) = max
    THEN store
    ELSE Append(RemoveId(store, record.face_id), record)

\* Deviation: the old feature of the id stays.
InsertFeature_KeepsOld(db, feature, id) ==
    Append(db, [face_id |-> id, feature |-> feature])

\* cosine_distance_verifier::insert_feature, which has no bound.
InsertFeature(db, feature, id) ==
    Append(RemoveId(db, id), [face_id |-> id, feature |-> feature])

\* cosine_distance_verifier::search: entry i is the one whose id comes out
\* with a score above thresh.  The scan starts from score 0 and moves on only
\* to a strictly better entry, so the first of the best ones wins.
IsBestMatch(db, score, thresh, i) ==
    /\ score[i] > thresh
    /\ \A j \in DOMAIN db : /\ score[j] <= score[i]
                            /\ j < i => score[j] < score[i]

\* No entry comes out of the search with a score above thresh.
NoMatch(db, score, thresh) == \A i \in DOMAIN db : score[i] <= thresh

\* Entry by entry, the verifier compares faces with the people of the store.
InStep(store, db) ==
    /\ Len(db) = Len(store)
    /\ \A k \in DOMAIN store : /\ db[k].face_id = store[k].face_id
                               /\ db[k].feature = store[k].feature
=============================================================================
