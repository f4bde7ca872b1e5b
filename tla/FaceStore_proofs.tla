-------------------------- MODULE FaceStore_proofs --------------------------
(***************************************************************************)
(* Facts about the tables of FaceStore, for tables of every length.        *)
(***************************************************************************)
EXTENDS FaceStore, TLAPS, SequenceTheorems, FiniteSetTheorems,
        WellFoundedInduction

\* A non-empty set of naturals has a least element, and Min is it: what a
\* scan from the front stops at.
LEMMA MinOfNats ==
    ASSUME NEW T, T \subseteq Nat, T # {}
    PROVE  /\ Min(T) \in T
           /\ \A x \in T : Min(T) <= x
<1>1. PICK x \in T : \A y \in T : ~ (<<y, x>> \in OpToRel(<, Nat))
  BY NatLessThanWellFounded, WFMin, Zenon
<1>2. ASSUME NEW y \in T
      PROVE  ~ (y < x)
  <2>1. ~ (<<y, x>> \in { ss \in Nat \X Nat : ss[1] < ss[2] })
    BY <1>1, Zenon DEF OpToRel
  <2>2. <<y, x>> \in Nat \X Nat
    OBVIOUS
  <2>3. QED
    BY <2>1, <2>2
<1>3. \A y \in T : x <= y
  BY <1>2
<1>4. QED
  BY <1>3 DEF Min

\* Erasing entry k: one entry fewer, and those behind it move up.
LEMMA RemoveAtEntries ==
    ASSUME NEW S, NEW s \in Seq(S), NEW k \in 1..Len(s)
    PROVE  /\ RemoveAt(s, k) \in Seq(S)
           /\ Len(RemoveAt(s, k)) = Len(s) - 1
           /\ \A j \in 1..(Len(s) - 1) :
                RemoveAt(s, k)[j] = IF j < k THEN s[j] ELSE s[j + 1]
<1> DEFINE a == SubSeq(s, 1, k - 1)
           b == SubSeq(s, k + 1, Len(s))
<1>0. Len(s) \in Nat
  OBVIOUS
<1>1. a \in Seq(S) /\ Len(a) = k - 1 /\ \A j \in 1..(k - 1) : a[j] = s[j]
  BY <1>0
<1>2. b \in Seq(S) /\ Len(b) = Len(s) - k /\ \A j \in 1..(Len(s) - k) : b[j] = s[k + j]
  BY <1>0
<1>3. /\ a \o b \in Seq(S)
      /\ Len(a \o b) = Len(s) - 1
      /\ \A j \in 1..(Len(s) - 1) :
           (a \o b)[j] = IF j <= k - 1 THEN a[j] ELSE b[j - (k - 1)]
  <2> HIDE DEF a, b
  <2>1. /\ a \o b \in Seq(S)
        /\ Len(a \o b) = Len(a) + Len(b)
        /\ \A j \in 1..(Len(a) + Len(b)) :
             (a \o b)[j] = IF j <= Len(a) THEN a[j] ELSE b[j - Len(a)]
    BY <1>1, <1>2, ConcatProperties
  <2>2. Len(a) + Len(b) = Len(s) - 1
    BY <1>0, <1>1, <1>2
  <2>3. QED
    BY <1>1, <2>1, <2>2
<1>4. ASSUME NEW j \in 1..(Len(s) - 1)
      PROVE  (a \o b)[j] = IF j < k THEN s[j] ELSE s[j + 1]
  <2> HIDE DEF a, b
  <2>1. CASE j < k
    BY <2>1, <1>0, <1>1, <1>3
  <2>2. CASE ~ (j < k)
    <3>1. j - (k - 1) \in 1..(Len(s) - k)
      BY <2>2, <1>0
    <3>2. b[j - (k - 1)] = s[j + 1]
      BY <3>1, <1>2, <1>0
    <3> QED
      BY <2>2, <3>2, <1>0, <1>3
  <2> QED
    BY <2>1, <2>2
<1>5. QED
  BY <1>3, <1>4 DEF RemoveAt

\* A scan finds the id if some entry carries it.
LEMMA PositionOfFound ==
    ASSUME NEW S, NEW table \in Seq(S), NEW id \in IdsOf(table)
    PROVE  /\ PositionOf(table, id) \in 1..Len(table)
           /\ table[PositionOf(table, id)].face_id = id
<1> DEFINE T == { i \in DOMAIN table : table[i].face_id = id }
<1>1. T \subseteq Nat /\ T # {}
  BY DEF IdsOf
<1>2. Min(T) \in T
  BY <1>1, MinOfNats
<1>3. QED
  BY <1>2 DEF PositionOf

\* Removing an id keeps the kind of the entries and adds none.
LEMMA RemoveIdType ==
    ASSUME NEW S, NEW table \in Seq(S), NEW id
    PROVE  /\ RemoveId(table, id) \in Seq(S)
           /\ Len(RemoveId(table, id)) <= Len(table)
           /\ id \in IdsOf(table) => Len(RemoveId(table, id)) = Len(table) - 1
<1>1. CASE id \in IdsOf(table)
  BY <1>1, PositionOfFound, RemoveAtEntries DEF RemoveId
<1>2. CASE id \notin IdsOf(table)
  BY <1>2 DEF RemoveId
<1>3. QED
  BY <1>1, <1>2

\* In a table where every id has one entry, removing an id removes that id
\* and no other.
LEMMA RemoveIdIds ==
    ASSUME NEW S, NEW table \in Seq(S), UniqueIds(table), NEW id
    PROVE  /\ UniqueIds(RemoveId(table, id))
           /\ IdsOf(RemoveId(table, id)) = IdsOf(table) \ {id}
<1>1. CASE id \notin IdsOf(table)
  BY <1>1 DEF RemoveId
<1>2. CASE id \in IdsOf(table)
  <2> DEFINE k == PositionOf(table, id)
             t == RemoveAt(table, k)
  <2>1. RemoveId(table, id) = t
    BY <1>2 DEF RemoveId
  <2>2. k \in 1..Len(table) /\ table[k].face_id = id
    BY <1>2, PositionOfFound
  <2> HIDE DEF k
  <2>3. /\ t \in Seq(S)
        /\ Len(t) = Len(table) - 1
        /\ \A j \in 1..(Len(table) - 1) :
             t[j] = IF j < k THEN table[j] ELSE table[j + 1]
    BY <2>2, RemoveAtEntries
  <2> HIDE DEF t
  <2>4. UniqueIds(t)
    <3> SUFFICES ASSUME NEW p \in 1..(Len(table) - 1), NEW q \in 1..(Len(table) - 1),
                        t[p].face_id = t[q].face_id
                 PROVE  p = q
      BY <2>3 DEF UniqueIds
    <3> DEFINE P == IF p < k THEN p ELSE p + 1
               Q == IF q < k THEN q ELSE q + 1
    <3>1. P \in 1..Len(table) /\ Q \in 1..Len(table)
      BY <2>2
    <3>2. t[p] = table[P] /\ t[q] = table[Q]
      BY <2>3
    <3>3. P = Q
      BY <3>1, <3>2 DEF UniqueIds
    <3>4. QED
      BY <3>3, <2>2
  <2>5. IdsOf(t) \subseteq IdsOf(table) \ {id}
    <3> SUFFICES ASSUME NEW p \in 1..(Len(table) - 1)
                 PROVE  t[p].face_id \in IdsOf(table) /\ t[p].face_id # id
      BY <2>3 DEF IdsOf
    <3> DEFINE P == IF p < k THEN p ELSE p + 1
    <3>1. P \in 1..Len(table) /\ P # k
      BY <2>2
    <3>2. t[p] = table[P]
      BY <2>3
    <3>3. QED
      BY <3>1, <3>2, <2>2 DEF IdsOf, UniqueIds
  <2>6. IdsOf(table) \ {id} \subseteq IdsOf(t)
    <3> SUFFICES ASSUME NEW P \in 1..Len(table), table[P].face_id # id
                 PROVE  table[P].face_id \in IdsOf(t)
      BY DEF IdsOf
    <3> DEFINE p == IF P < k THEN P ELSE P - 1
    <3>1. p \in 1..(Len(table) - 1) /\ (IF p < k THEN p ELSE p + 1) = P
      BY <2>2
    <3>2. t[p] = table[P]
      BY <3>1, <2>3
    <3>3. QED
      BY <3>1, <3>2, <2>3 DEF IdsOf
  <2>7. QED
    BY <2>1, <2>4, <2>5, <2>6
<1>3. QED
  BY <1>1, <1>2

\* What a push at the back does to the ids.
LEMMA AppendIds ==
    ASSUME NEW S, NEW table \in Seq(S), NEW e \in S
    PROVE  /\ IdsOf(Append(table, e)) = IdsOf(table) \cup {e.face_id}
           /\ UniqueIds(table) /\ e.face_id \notin IdsOf(table)
                => UniqueIds(Append(table, e))
<1>1. /\ Len(Append(table, e)) = Len(table) + 1
      /\ DOMAIN Append(table, e) = 1..(Len(table) + 1)
      /\ \A j \in 1..Len(table) : Append(table, e)[j] = table[j]
      /\ Append(table, e)[Len(table) + 1] = e
  OBVIOUS
<1>2. IdsOf(Append(table, e)) = IdsOf(table) \cup {e.face_id}
  BY <1>1 DEF IdsOf
<1>3. ASSUME UniqueIds(table), e.face_id \notin IdsOf(table)
      PROVE  UniqueIds(Append(table, e))
  BY <1>1, <1>3 DEF UniqueIds, IdsOf
<1>4. QED
  BY <1>2, <1>3

\* Inserting a record: the kind of the entries, the bound, one entry for an
\* id, and nobody lost.
LEMMA InsertRecordTable ==
    ASSUME NEW S, NEW store \in Seq(S), NEW record \in S, NEW max \in Nat
    PROVE  LET new == InsertRecord(store, record, max)
           IN /\ new \in Seq(S)
              /\ Len(store) <= max => Len(new) <= max
              /\ UniqueIds(store) => UniqueIds(new)
              /\ UniqueIds(store) => IdsOf(store) \subseteq IdsOf(new)
              /\ UniqueIds(store) => IdsOf(new) \subseteq IdsOf(store) \cup {record.face_id}
<1> DEFINE rest == RemoveId(store, record.face_id)
<1>1. CASE Len(store) = max
  BY <1>1 DEF InsertRecord
<1>2. CASE Len(store) # max
  <2>1. rest \in Seq(S) /\ Len(rest) <= Len(store)
    BY RemoveIdType
  <2>2. InsertRecord(store, record, max) = Append(rest, record)
    BY <1>2 DEF InsertRecord
  <2>3. Append(rest, record) \in Seq(S) /\ Len(Append(rest, record)) = Len(rest) + 1
    BY <2>1
  <2>4. Len(store) <= max => Len(Append(rest, record)) <= max
    BY <1>2, <2>1, <2>3
  <2>5. ASSUME UniqueIds(store)
        PROVE  UniqueIds(rest) /\ IdsOf(rest) = IdsOf(store) \ {record.face_id}
    BY <2>5, RemoveIdIds
  <2> HIDE DEF rest
  <2>6. IdsOf(Append(rest, record)) = IdsOf(rest) \cup {record.face_id}
    BY <2>1, AppendIds
  <2>7. ASSUME UniqueIds(store)
        PROVE  UniqueIds(Append(rest, record))
    BY <2>1, <2>5, <2>7, AppendIds
  <2>8. QED
    BY <2>2, <2>3, <2>4, <2>5, <2>6, <2>7
<1>3. QED
  BY <1>1, <1>2

\* Inserting a feature: the same, without a bound, and the id is there after.
LEMMA InsertFeatureTable ==
    ASSUME NEW S, NEW db \in Seq(S), NEW feature, NEW id,
           [face_id |-> id, feature |-> feature] \in S
    PROVE  LET new == InsertFeature(db, feature, id)
           IN /\ new \in Seq(S)
              /\ UniqueIds(db) => UniqueIds(new)
              /\ UniqueIds(db) => IdsOf(new) = IdsOf(db) \cup {id}
<1> DEFINE rest == RemoveId(db, id)
           pair == [face_id |-> id, feature |-> feature]
<1>1. rest \in Seq(S)
  BY RemoveIdType
<1>2. ASSUME UniqueIds(db)
      PROVE  UniqueIds(rest) /\ IdsOf(rest) = IdsOf(db) \ {id}
  BY <1>2, RemoveIdIds
<1>3. pair \in S /\ pair.face_id = id
  OBVIOUS
<1> HIDE DEF rest, pair
<1>4. Append(rest, pair) \in Seq(S)
  BY <1>1, <1>3
<1>5. ASSUME UniqueIds(db)
      PROVE  /\ UniqueIds(Append(rest, pair))
             /\ IdsOf(Append(rest, pair)) = IdsOf(db) \cup {id}
  BY <1>1, <1>2, <1>3, <1>5, AppendIds
<1>6. QED
  BY <1>4, <1>5 DEF InsertFeature, rest, pair

\* Tables in step stay in step when the same id is removed from both.
LEMMA RemoveInStep ==
    ASSUME NEW S, NEW store \in Seq(S), NEW D, NEW db \in Seq(D), NEW id,
           InStep(store, db)
    PROVE  InStep(RemoveId(store, id), RemoveId(db, id))
<1>1. Len(store) = Len(db) /\ DOMAIN store = DOMAIN db /\ IdsOf(store) = IdsOf(db)
  BY DEF InStep, IdsOf
<1>2. PositionOf(store, id) = PositionOf(db, id)
  <2>1. { k \in DOMAIN store : store[k].face_id = id }
          = { k \in DOMAIN db : db[k].face_id = id }
    BY <1>1 DEF InStep
  <2>2. QED
    BY <2>1 DEF PositionOf
<1>3. CASE id \notin IdsOf(store)
  BY <1>1, <1>3 DEF RemoveId
<1>4. CASE id \in IdsOf(store)
  <2> DEFINE p == PositionOf(store, id)
  <2>1. p \in 1..Len(store)
    BY <1>4, PositionOfFound
  <2>2. RemoveId(store, id) = RemoveAt(store, p) /\ RemoveId(db, id) = RemoveAt(db, p)
    BY <1>1, <1>2, <1>4 DEF RemoveId
  <2> HIDE DEF p
  <2>3. /\ RemoveAt(store, p) \in Seq(S)
        /\ Len(RemoveAt(store, p)) = Len(store) - 1
        /\ \A j \in 1..(Len(store) - 1) :
             RemoveAt(store, p)[j] = IF j < p THEN store[j] ELSE store[j + 1]
    BY <2>1, RemoveAtEntries
  <2>4. /\ Len(RemoveAt(db, p)) = Len(store) - 1
        /\ \A j \in 1..(Len(store) - 1) :
             RemoveAt(db, p)[j] = IF j < p THEN db[j] ELSE db[j + 1]
    BY <1>1, <2>1, RemoveAtEntries
  <2>5. ASSUME NEW j \in 1..(Len(store) - 1)
        PROVE  /\ RemoveAt(db, p)[j].face_id = RemoveAt(store, p)[j].face_id
               /\ RemoveAt(db, p)[j].feature = RemoveAt(store, p)[j].feature
    <3>1. j \in DOMAIN store /\ j + 1 \in DOMAIN store
      OBVIOUS
    <3>2. QED
      BY <2>3, <2>4, <3>1 DEF InStep
  <2>6. QED
    BY <2>2, <2>3, <2>4, <2>5 DEF InStep
<1>5. QED
  BY <1>3, <1>4

\* A registration, or a record read back: both tables take the same person,
\* and what TablesAgree says of them stays true.
LEMMA InsertInBoth ==
    ASSUME NEW S, NEW store \in Seq(S), NEW record \in S, NEW max \in Nat,
           NEW D, NEW db \in Seq(D),
           [face_id |-> record.face_id, feature |-> record.feature] \in D,
           Len(store) < max => InStep(store, db),
           Len(store) <= max
    PROVE  LET newStore == InsertRecord(store, record, max)
               newDb    == InsertFeature(db, record.feature, record.face_id)
           IN Len(newStore) < max => InStep(newStore, newDb)
<1> DEFINE pair  == [face_id |-> record.face_id, feature |-> record.feature]
           rest  == RemoveId(store, record.face_id)
           restD == RemoveId(db, record.face_id)
<1>1. CASE Len(store) = max
  BY <1>1 DEF InsertRecord
<1>2. CASE Len(store) < max
  <2>1. rest \in Seq(S) /\ restD \in Seq(D)
    BY RemoveIdType
  <2>2. InStep(rest, restD)
    BY <1>2, RemoveInStep
  <2>3. pair \in D /\ pair.face_id = record.face_id /\ pair.feature = record.feature
    OBVIOUS
  <2>4. /\ InsertRecord(store, record, max) = Append(rest, record)
        /\ InsertFeature(db, record.feature, record.face_id) = Append(restD, pair)
    BY <1>2 DEF InsertRecord, InsertFeature
  <2> HIDE DEF rest, restD, pair
  <2>5. InStep(Append(rest, record), Append(restD, pair))
    BY <2>1, <2>2, <2>3 DEF InStep
  <2>6. QED
    BY <2>4, <2>5
<1>3. QED
  BY <1>1, <1>2

\* In a table with one entry for an id, that entry is found.
LEMMA FindRecordUnique ==
    ASSUME NEW S, NEW table \in Seq(S), UniqueIds(table),
           NEW k \in DOMAIN table
    PROVE  /\ table[k].face_id \in IdsOf(table)
           /\ FindRecord(table, table[k].face_id) = table[k]
<1>1. table[k].face_id \in IdsOf(table)
  BY DEF IdsOf
<1> DEFINE p == PositionOf(table, table[k].face_id)
<1>2. p \in 1..Len(table) /\ table[p].face_id = table[k].face_id
  BY <1>1, PositionOfFound
<1> HIDE DEF p
<1>3. p = k
  BY <1>2 DEF UniqueIds
<1>4. QED
  BY <1>1, <1>3 DEF FindRecord, p

\* Removing an id leaves entries of the table, and no others.
LEMMA RemoveIdEntries ==
    ASSUME NEW S, NEW table \in Seq(S), NEW id,
           NEW j \in DOMAIN RemoveId(table, id)
    PROVE  \E k \in DOMAIN table : RemoveId(table, id)[j] = table[k]
<1>1. CASE id \notin IdsOf(table)
  BY <1>1 DEF RemoveId
<1>2. CASE id \in IdsOf(table)
  <2> DEFINE p == PositionOf(table, id)
  <2>1. p \in 1..Len(table) /\ RemoveId(table, id) = RemoveAt(table, p)
    BY <1>2, PositionOfFound DEF RemoveId
  <2> HIDE DEF p
  <2>2. /\ RemoveAt(table, p) \in Seq(S)
        /\ Len(RemoveAt(table, p)) = Len(table) - 1
        /\ \A i \in 1..(Len(table) - 1) :
             RemoveAt(table, p)[i] = IF i < p THEN table[i] ELSE table[i + 1]
    BY <2>1, RemoveAtEntries
  <2>3. j \in 1..(Len(table) - 1)
    BY <2>1, <2>2
  <2>4. j \in DOMAIN table /\ j + 1 \in DOMAIN table
    BY <2>3
  <2>5. QED
    BY <2>1, <2>2, <2>3, <2>4
<1>3. QED
  BY <1>1, <1>2

\* Two tables that have an entry in common find it under its id.
LEMMA SameEntryFound ==
    ASSUME NEW S, NEW a \in Seq(S), NEW b \in Seq(S),
           UniqueIds(a), UniqueIds(b), NEW id \in IdsOf(a),
           \A j \in DOMAIN a :
             a[j].face_id = id => \E k \in DOMAIN b : a[j] = b[k]
    PROVE  FindRecord(a, id) = FindRecord(b, id)
<1>1. PICK j \in DOMAIN a : a[j].face_id = id
  BY DEF IdsOf
<1>2. PICK k \in DOMAIN b : a[j] = b[k]
  BY <1>1
<1>3. FindRecord(a, id) = a[j]
  BY <1>1, FindRecordUnique
<1>4. FindRecord(b, id) = b[k]
  BY <1>1, <1>2, FindRecordUnique
<1>5. QED
  BY <1>2, <1>3, <1>4

\* A table has no more people than records.
LEMMA IdsOfCardinality ==
    ASSUME NEW S, NEW table \in Seq(S)
    PROVE  Cardinality(IdsOf(table)) \in Nat
           /\ Cardinality(IdsOf(table)) <= Len(table)
<1> DEFINE f == [k \in 1..Len(table) |-> table[k].face_id]
<1>1. DOMAIN table = 1..Len(table) /\ Len(table) \in Nat
  OBVIOUS
<1>2. f \in Surjection(1..Len(table), IdsOf(table))
  BY <1>1 DEF Surjection, IdsOf
<1>3. IsFiniteSet(1..Len(table)) /\ Cardinality(1..Len(table)) = Len(table)
  BY <1>1, FS_Interval
<1> HIDE DEF f
<1>4. /\ IsFiniteSet(IdsOf(table))
      /\ Cardinality(IdsOf(table)) <= Cardinality(1..Len(table))
  BY <1>2, <1>3, FS_Surjection
<1>5. QED
  BY <1>3, <1>4, FS_CardinalityType
=============================================================================
