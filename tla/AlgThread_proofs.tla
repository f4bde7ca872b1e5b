-------------------------- MODULE AlgThread_proofs --------------------------
(***************************************************************************)
(* What the recognition thread keeps true, proved for any number of faces, *)
(* slots and people, any limit, and any clock.                             *)
(***************************************************************************)
EXTENDS AlgThread, TLAPS, FiniteSetTheorems, WellFoundedInduction

-----------------------------------------------------------------------------
(* Helpers *)

\* A non-empty set of naturals has a least element, and Min is it: where a
\* loop that counts up stops first.
LEMMA MinOfNats ==
    ASSUME NEW T, T \subseteq Nat, T # {}
    PROVE  /\ Min(T) \in T
           /\ \A x \in T : Min(T) <= x
<1>1. PICK x \in T : \A y \in T : ~ (<<y, x>> \in OpToRel(<, Nat))
  BY NatLessThanWellFounded, WFMin, Zenon
<1>2. ASSUME NEW y \in T
      PROVE  ~ (y < x)
  <2>1. ~ (<<y, x>> \in { ss \in Nat \X Nat : ss[1] < ss[2] })
    BY <1>1, Zenon DEF OpToRel
  <2>2. <<y, x>> \in Nat \X Nat
    OBVIOUS
  <2>3. QED
    BY <2>1, <2>2
<1>3. \A y \in T : x <= y
  BY <1>2
<1>4. QED
  BY <1>3 DEF Min

\* Two things are at most two, and a part of something is no larger.
LEMMA PairSize ==
    ASSUME NEW a, NEW b
    PROVE  IsFiniteSet({a, b}) /\ Cardinality({a, b}) <= 2
<1>1. IsFiniteSet({a}) /\ Cardinality({a}) = 1
  BY FS_Singleton
<1>2. {a, b} = {a} \cup {b}
  OBVIOUS
<1>3. IsFiniteSet({a} \cup {b}) /\ Cardinality({a} \cup {b}) \in {1, 2}
  BY <1>1, FS_AddElement
<1>4. QED
  BY <1>2, <1>3

\* One thing more is at most one more.
LEMMA OneMore ==
    ASSUME NEW T, IsFiniteSet(T), NEW n \in Nat, Cardinality(T) <= n, NEW x
    PROVE  IsFiniteSet(T \cup {x}) /\ Cardinality(T \cup {x}) <= n + 1
<1>1. IsFiniteSet(T \cup {x})
  BY FS_AddElement
<1>2. Cardinality(T) \in Nat
  BY FS_CardinalityType
<1>3. Cardinality(T \cup {x}) = Cardinality(T)
        \/ Cardinality(T \cup {x}) = Cardinality(T) + 1
  BY FS_AddElement
<1>4. QED
  BY <1>1, <1>2, <1>3

\* Two pairs are at most four things.
LEMMA TwoPairs ==
    ASSUME NEW a, NEW b, NEW c, NEW d
    PROVE  /\ IsFiniteSet({a, b} \cup {c, d})
           /\ Cardinality({a, b} \cup {c, d}) <= 4
<1> DEFINE T == {a, b}
           U == T \cup {c}
<1>1. IsFiniteSet(T) /\ Cardinality(T) <= 2
  BY PairSize
<1> HIDE DEF T
<1>2. IsFiniteSet(U) /\ Cardinality(U) <= 2 + 1
  BY <1>1, OneMore
<1> HIDE DEF U
<1>3. IsFiniteSet(U \cup {d}) /\ Cardinality(U \cup {d}) <= 3 + 1
  BY <1>2, OneMore
<1>4. U \cup {d} = {a, b} \cup {c, d}
  BY DEF T, U
<1>5. QED
  BY <1>3, <1>4

\* A part of a finite set is no larger.
LEMMA SubsetSize ==
    ASSUME NEW T, IsFiniteSet(T), NEW U, U \subseteq T, NEW n \in Nat,
           Cardinality(T) <= n
    PROVE  IsFiniteSet(U) /\ Cardinality(U) <= n
BY FS_Subset, FS_CardinalityType

\* What an int holds of a number is in its range, and is the number but for
\* a multiple of 2 * IntHalf.
LEMMA ToIntRange ==
    ASSUME NEW n \in Int
    PROVE  /\ ToInt(n) \in Int32
           /\ \E q \in Int : ToInt(n) = n + 2 * IntHalf * q
<1>1. ToInt(n) \in Int32
  BY SizesAssumption DEF ToInt, Int32
<1>2. \E q \in Int : ToInt(n) = n - 2 * IntHalf * q
  BY SizesAssumption DEF ToInt, Int32
<1>3. PICK q \in Int : ToInt(n) = n - 2 * IntHalf * q
  BY <1>2
<1>4. ToInt(n) = n + 2 * IntHalf * (-q)
  BY <1>1, <1>3, SizesAssumption
<1>5. QED
  BY <1>1, <1>4

\* Two ints that differ by a multiple of 2 * IntHalf are one.
LEMMA IntsApart ==
    ASSUME NEW a \in Int32, NEW b \in Int32, NEW q \in Int,
           a = b + 2 * IntHalf * q
    PROVE  a = b
BY SizesAssumption DEF Int32

\* A number that fits is kept as it is.
LEMMA ToIntSmall ==
    ASSUME NEW n \in Int32
    PROVE  ToInt(n) = n
BY SizesAssumption DEF Int32, ToInt

\* Arithmetic on what ints hold of two times is arithmetic on the times.
LEMMA ToIntOfDifference ==
    ASSUME NEW t \in Int, NEW w \in Int, NEW c \in Int
    PROVE  ToInt(ToInt(t) + w - ToInt(c)) = ToInt(t + w - c)
<1> DEFINE x == ToInt(t) + w - ToInt(c)
           y == t + w - c
<1>1. PICK p \in Int : ToInt(t) = t + 2 * IntHalf * p
  BY ToIntRange
<1>2. PICK r \in Int : ToInt(c) = c + 2 * IntHalf * r
  BY ToIntRange
<1>3. ToInt(t) \in Int /\ ToInt(c) \in Int /\ IntHalf \in Int
  BY ToIntRange, SizesAssumption DEF Int32
<1>4. x \in Int /\ y \in Int
  BY <1>3
<1>5. x = y + 2 * IntHalf * (p - r)
  BY <1>1, <1>2, <1>3
<1> HIDE DEF x, y
<1>6. PICK q \in Int : ToInt(x) = x + 2 * IntHalf * q
  BY <1>4, ToIntRange
<1>7. PICK s \in Int : ToInt(y) = y + 2 * IntHalf * s
  BY <1>4, ToIntRange
<1>8. ToInt(x) = ToInt(y) + 2 * IntHalf * (p - r + q - s)
  BY <1>3, <1>4, <1>5, <1>6, <1>7
<1>9. ToInt(x) = ToInt(y)
  BY <1>4, <1>8, ToIntRange, IntsApart
<1>10. QED
  BY <1>9 DEF x, y

\* Two times that are up at the same moment were taken at the same.
LEMMA SameTimeUp ==
    ASSUME NEW a \in Int32, NEW b \in Int32, NEW c \in Int32,
           ToInt(a + Wait - c) = 0, ToInt(b + Wait - c) = 0
    PROVE  a = b
<1>1. a \in Int /\ b \in Int /\ c \in Int /\ IntHalf \in Int /\ Wait \in Int
  BY SizesAssumption DEF Int32
<1>2. PICK p \in Int : ToInt(a + Wait - c) = a + Wait - c + 2 * IntHalf * p
  <2>1. a + Wait - c \in Int
    BY <1>1
  <2>2. QED
    BY <2>1, ToIntRange
<1>3. PICK q \in Int : ToInt(b + Wait - c) = b + Wait - c + 2 * IntHalf * q
  <2>1. b + Wait - c \in Int
    BY <1>1
  <2>2. QED
    BY <2>1, ToIntRange
<1>4. a = b + 2 * IntHalf * (q - p)
  BY <1>1, <1>2, <1>3
<1>5. QED
  BY <1>4, IntsApart

\* What has just begun to wait is not up.
LEMMA FreshIsNotUp ==
    ASSUME NEW c \in Int32
    PROVE  ToInt(c + Wait - c) # 0
<1>1. c + Wait - c = Wait
  BY SizesAssumption DEF Int32
<1>2. Wait \in Int32 /\ Wait # 0
  BY SizesAssumption, SlotsAssumption DEF Int32
<1>3. QED
  BY <1>1, <1>2, ToIntSmall

-----------------------------------------------------------------------------
(* Types *)

\* TypeOK, with what it leaves open: the people in the store are finitely many,
\* and who is registered is the face of the slot the loop is at.
TypeInv ==
    /\ TypeOK
    /\ IsFiniteSet(DOMAIN people)
    /\ DOMAIN since = Ids(m_face)
    /\ pc \in {"fetch", "assign"} => i = 0
    /\ pc \in {"register", "save", "picture", "flush"} => i \in Slot

\* The places the loops count from and to.
LEMMA Places ==
    /\ 0 \in 0..NSlots /\ 0 \in 0..FaceNum /\ 0 \notin Slot
    /\ Slot \subseteq 0..NSlots
    /\ 1..FaceNum \subseteq 0..FaceNum
BY SizesAssumption DEF Slot

\* No more faces are read than there is room for.
LEMMA FacesInRoom ==
    ASSUME TypeInv
    PROVE  DOMAIN m_face \subseteq 1..FaceNum
<1>1. m_face \in Seq(Parsed) /\ Len(m_face) <= FaceNum
  BY DEF TypeInv, TypeOK
<1>2. QED
  BY <1>1, SizesAssumption

\* The next face of a slot and the next slot are one of those looked for.
LEMMA MinFace ==
    ASSUME TypeInv, NEW F, F \subseteq DOMAIN m_face, F # {}
    PROVE  /\ Min(F) \in F /\ Min(F) \in 1..FaceNum
           /\ \A k \in F : Min(F) <= k
<1>1. DOMAIN m_face \subseteq 1..FaceNum
  BY FacesInRoom
<1>2. QED
  BY <1>1, MinOfNats

\* Where a loop over the slots stops first.
LEMMA MinSlot ==
    ASSUME NEW F, F \subseteq Slot, F # {}
    PROVE  /\ Min(F) \in F /\ Min(F) \in Slot
           /\ \A s \in F : Min(F) <= s
<1>1. Slot \subseteq Nat
  BY SizesAssumption DEF Slot
<1>2. QED
  BY <1>1, MinOfNats

\* Every id a face may have is a natural number.
LEMMA IdsAreNumbers ==
    ASSUME TypeInv
    PROVE  UnknownId \cup EyeX \cup {0} \cup known \subseteq Nat
<1>1. RegistryId \subseteq Nat
  BY SizesAssumption, RegistryAssumption DEF RegistryId
<1>2. QED
  BY <1>1, SizesAssumption DEF TypeInv, TypeOK

\* A face that was read has a natural number for an id.
LEMMA FaceIdType ==
    ASSUME TypeInv, NEW k \in DOMAIN m_face
    PROVE  m_face[k].id \in Nat
<1>1. UnknownId \cup EyeX \cup {0} \cup known \subseteq Nat
  BY IdsAreNumbers
<1>2. m_face[k] \in Parsed
  BY DEF TypeInv, TypeOK
<1>3. QED
  BY <1>1, <1>2 DEF Parsed

\* The number a newcomer gets is a registry id.
LEMMA NewIdType == TypeInv => NewId \in RegistryId
<1> SUFFICES ASSUME TypeInv
             PROVE  NewId \in RegistryId
  OBVIOUS
<1>1. register_id \in RegistryId
  BY DEF TypeInv, TypeOK
<1>2. IdBound \in Nat /\ RegistryLimit \in Nat /\ IdBound < RegistryLimit
  BY SizesAssumption, RegistryAssumption
<1>3. QED
  BY <1>1, <1>2 DEF NewId, RegistryId

\* The store with a newcomer is a store, no larger than it may be.
LEMMA StoreType ==
    ASSUME TypeInv, NEW id, NEW name \in Nat, StorePerson(id, name)
    PROVE  /\ people' \in [DOMAIN people' -> Nat]
           /\ DOMAIN people' \subseteq DOMAIN people \cup {id}
           /\ IsFiniteSet(DOMAIN people')
           /\ Cardinality(DOMAIN people') <= MaxRecords
           /\ newcomers' \subseteq DOMAIN people'
<1>1. /\ IsFiniteSet(DOMAIN people) /\ Cardinality(DOMAIN people) <= MaxRecords
      /\ people \in [DOMAIN people -> Nat] /\ newcomers \subseteq DOMAIN people
  BY DEF TypeInv, TypeOK
<1>2. CASE Cardinality(DOMAIN people) = MaxRecords
  BY <1>1, <1>2 DEF StorePerson
<1>3. CASE Cardinality(DOMAIN people) # MaxRecords
  <2>1. /\ people' = [p \in DOMAIN people \cup {id} |->
                       IF p = id THEN name ELSE people[p]]
        /\ newcomers' = newcomers \cup {id}
    BY <1>3 DEF StorePerson
  <2>2. DOMAIN people' = DOMAIN people \cup {id}
    BY <2>1
  <2>3. /\ IsFiniteSet(DOMAIN people \cup {id})
        /\ Cardinality(DOMAIN people \cup {id})
             \in {Cardinality(DOMAIN people), Cardinality(DOMAIN people) + 1}
    BY <1>1, FS_AddElement
  <2>4. Cardinality(DOMAIN people) \in Nat
    BY <1>1, FS_CardinalityType
  <2>5. MaxRecords \in Nat
    BY RegistryAssumption
  <2>6. Cardinality(DOMAIN people \cup {id}) <= MaxRecords
    BY <1>1, <1>3, <2>3, <2>4, <2>5
  <2>7. people' \in [DOMAIN people' -> Nat]
    BY <1>1, <2>1
  <2>8. QED
    BY <1>1, <2>1, <2>2, <2>3, <2>6, <2>7
<1>4. QED
  BY <1>2, <1>3

\* What a step of the loops on faces and slots leaves as it is.
LEMMA SlotType ==
    ASSUME TypeInv, NEW s \in Slot, NEW left \in {Free} \cup Nat,
           faces' = [faces EXCEPT ![s].lasttime = left]
    PROVE  /\ faces' \in [Slot -> [id : Nat \cup {-1}, capTime : Int32,
                                   lasttime : {Free} \cup Nat]]
           /\ \A t \in Slot : faces'[t].id = faces[t].id
                              /\ faces'[t].capTime = faces[t].capTime
           /\ \A t \in Slot \ {s} : faces'[t] = faces[t]
           /\ faces'[s].lasttime = left
BY DEF TypeInv, TypeOK

\* The time left, as an int.
LEMMA LeftType ==
    ASSUME TypeInv, i \in Slot
    PROVE  Left \in Int32
<1>1. faces[i].capTime \in Int32 /\ curtime \in Int32
  BY DEF TypeInv, TypeOK
<1>2. faces[i].capTime + Wait - curtime \in Int
  BY <1>1, SizesAssumption DEF Int32
<1>3. QED
  BY <1>2, ToIntRange DEF Left

\* The faces as they are read from the text are faces, whatever was shown.
LEMMA RecognizeType ==
    ASSUME TypeInv, RecognizeSome
    PROVE  /\ m_face' \in Seq(Parsed) /\ Len(m_face') \in 0..FaceNum
           /\ reported' \subseteq Nat
           /\ DOMAIN since' = Ids(m_face')
           /\ Ids(m_face') \subseteq Nat
           /\ clock' \in MinTime..MaxTime /\ curtime' = ToInt(clock')
           /\ \E d \in Step : clock' = clock + d
           /\ \A id \in Ids(m_face') :
                since'[id] = IF id \in DOMAIN since THEN since[id] ELSE clock'
<1>1. PICK n \in 0..FaceNum :
        \E shown \in [1..n -> [id : UnknownId \cup known,
                               frontal : BOOLEAN, titled : BOOLEAN]] :
          Recognize(shown)
  BY DEF RecognizeSome
<1>2. PICK shown \in [1..n -> [id : UnknownId \cup known,
                               frontal : BOOLEAN, titled : BOOLEAN]] :
        Recognize(shown)
  BY <1>1
<1>3. UnknownId \cup EyeX \cup {0} \cup known \subseteq Nat
  BY IdsAreNumbers
<1>4. m_face' \in [1..n -> Parsed]
  BY <1>2 DEF Recognize
<1>5. m_face' \in Seq(Parsed) /\ Len(m_face') = n
  BY <1>4
<1>6. Ids(m_face') \subseteq Nat
  BY <1>3, <1>4 DEF Ids, Parsed
<1>7. reported' \subseteq Nat
  <2>1. reported' = Ids(shown)
    BY <1>2 DEF Recognize
  <2>2. \A k \in DOMAIN shown : shown[k].id \in Nat
    BY <1>2, <1>3
  <2>3. QED
    BY <2>1, <2>2 DEF Ids
<1>8. PICK d \in Step :
        /\ clock + d \in MinTime..MaxTime
        /\ clock' = clock + d
        /\ curtime' = ToInt(clock + d)
        /\ since' = [id \in Ids(m_face') |->
                        IF id \in DOMAIN since THEN since[id] ELSE clock + d]
  BY <1>2 DEF Recognize
<1>9. QED
  BY <1>5, <1>6, <1>7, <1>8

\* The thread starts with its types.
LEMMA TypeInit == Init => TypeInv
<1> SUFFICES ASSUME Init
             PROVE  TypeInv
  OBVIOUS
<1> USE DEF Init
<1>1. ToInt(StartTime) \in Int32
  BY SizesAssumption, ToIntRange
<1>2. 0 \in Int32 /\ NSlots \in Nat /\ FaceNum \in Nat /\ NameBase \in Nat
  BY SizesAssumption DEF Int32
<1>3. faces \in [Slot -> [id : Nat \cup {-1}, capTime : Int32,
                          lasttime : {Free} \cup Nat]]
  BY <1>2
<1>4. m_face \in Seq(Parsed) /\ Len(m_face) = 0 /\ Ids(m_face) = {}
  BY DEF Ids
<1>5. DOMAIN since = {}
  OBVIOUS
<1>6. ASSUME NEW old \in OldPeople \cup {<< >>}
      PROVE  /\ DOMAIN old \subseteq RegistryId /\ old \in [DOMAIN old -> Nat]
             /\ IsFiniteSet(DOMAIN old) /\ Cardinality(DOMAIN old) <= MaxRecords
  <2>1. CASE old \in OldPeople
    <3>1. IsFiniteSet(RegistryId)
      BY SizesAssumption, RegistryAssumption, FS_Interval DEF RegistryId
    <3>2. QED
      BY <2>1, <3>1, OldPeopleAssumption, FS_Subset
  <2>2. CASE old = << >>
    <3>1. DOMAIN old = {} /\ IsFiniteSet({}) /\ Cardinality({}) = 0
      BY <2>2, FS_EmptySet
    <3>2. QED
      BY <2>2, <3>1, RegistryAssumption
  <2>3. QED
    BY <2>1, <2>2
<1>7. people \in OldPeople \cup {<< >>} /\ saved \in OldPeople \cup {<< >>}
  OBVIOUS
<1>8. IdBound \in RegistryId
  BY SizesAssumption, RegistryAssumption DEF RegistryId
<1>9. /\ register_id \in RegistryId
      /\ known = DOMAIN people
      /\ newcomers = {} /\ fileFailed \in BOOLEAN /\ pictures = {}
      /\ flushRegistMat = 0 /\ face_id \in Nat
  BY <1>2, <1>8
<1>10. TypeOK
  <2>1. /\ DOMAIN people \subseteq known /\ known \subseteq RegistryId
        /\ people \in [DOMAIN people -> Nat]
        /\ Cardinality(DOMAIN people) <= MaxRecords
        /\ DOMAIN saved \subseteq RegistryId /\ saved \in [DOMAIN saved -> Nat]
    BY <1>6, <1>7, <1>9
  <2>2. /\ pc = "fetch" /\ i = 0 /\ j = 0 /\ reported = {}
        /\ clock = StartTime /\ curtime \in Int32
    BY <1>1
  <2> HIDE DEF Init
  <2>3. QED
    BY <1>2, <1>3, <1>4, <1>5, <1>9, <2>1, <2>2, SizesAssumption DEF TypeOK
<1>11. QED
  BY <1>4, <1>5, <1>6, <1>7, <1>10 DEF TypeInv

\* The steps of the loops leave the frame and the people alone.
LEMMA LoopsType ==
    ASSUME TypeInv, UNCHANGED <<frame, tables, file, pictures>>,
           UNCHANGED flushRegistMat, face_id' \in Nat,
           pc' \in {"fetch", "slots", "register", "assign"},
           i' \in 0..NSlots, j' \in 0..FaceNum,
           pc' \in {"fetch", "assign"} => i' = 0,
           pc' = "register" => i' \in Slot,
           faces' \in [Slot -> [id : Nat \cup {-1}, capTime : Int32,
                                lasttime : {Free} \cup Nat]]
    PROVE  TypeInv'
<1>1. Parsed' = Parsed /\ Ids(m_face)' = Ids(m_face) /\ m_face' = m_face
  BY DEF Parsed, Ids, frame, tables
<1>2. TypeOK'
  BY <1>1 DEF TypeInv, TypeOK, frame, tables, file
<1>3. QED
  BY <1>1, <1>2 DEF TypeInv, frame, tables

\* Every step of the thread keeps the types.
LEMMA TypeStep == TypeInv /\ [Next]_vars => TypeInv'
<1> SUFFICES ASSUME TypeInv, [Next]_vars
             PROVE  TypeInv'
  OBVIOUS
<1>0. UNCHANGED vars => TypeInv'
  BY DEF TypeInv, TypeOK, vars, loop, frame, person, tables, file, Parsed, Ids
<1>1. CASE RecognizeSome
  <2>1. /\ pc' = "slots" /\ i' = 0 /\ j' = 0
        /\ UNCHANGED <<faces, person>>
    BY <1>1 DEF RecognizeSome, Recognize
  <2>2. /\ UNCHANGED <<people, known, register_id, newcomers>>
        /\ UNCHANGED <<saved, fileFailed, pictures, flushRegistMat, face_id>>
        /\ Parsed' = Parsed
    BY <2>1 DEF person, tables, file, Parsed
  <2>3. curtime' \in Int32
    <3>1. clock' \in Int
      BY <1>1, RecognizeType, SizesAssumption
    <3>2. QED
      BY <1>1, <3>1, RecognizeType, ToIntRange
  <2>4. TypeOK'
    <3>1. /\ m_face' \in Seq(Parsed') /\ Len(m_face') <= FaceNum
          /\ reported' \subseteq Nat
          /\ DOMAIN since' \subseteq Nat
          /\ clock' \in MinTime..MaxTime
      BY <1>1, <2>2, RecognizeType, SizesAssumption
    <3>2. 0 \in 0..NSlots /\ 0 \in 0..FaceNum
      BY SizesAssumption
    <3>3. QED
      BY <2>1, <2>2, <2>3, <3>1, <3>2 DEF TypeInv, TypeOK
  <2>5. QED
    BY <1>1, <2>1, <2>2, <2>4, RecognizeType DEF TypeInv
<1>2. CASE EnterSlot
  <2>1. Min(LaterSlots) \in Slot
    BY <1>2, MinSlot DEF EnterSlot, LaterSlots
  <2>2. faces' \in [Slot -> [id : Nat \cup {-1}, capTime : Int32,
                             lasttime : {Free} \cup Nat]]
    BY <1>2, <2>1, SlotType DEF EnterSlot, SetLasttime
  <2>3. QED
    BY <1>2, <2>1, <2>2, LoopsType, Places
       DEF EnterSlot, TypeInv, TypeOK, frame, person
<1>3. ASSUME AtItsFace
      PROVE  j' \in 0..FaceNum /\ i \in Slot
  <2>1. LaterFaces \subseteq DOMAIN m_face /\ LaterFaces # {}
    BY <1>3 DEF AtItsFace, LaterFaces
  <2>2. j' \in 1..FaceNum
    BY <1>3, <2>1, MinFace DEF AtItsFace
  <2>3. QED
    BY <1>3, <2>1, <2>2, SizesAssumption DEF LaterFaces
<1>4. CASE LooksAway
  <2>1. faces' \in [Slot -> [id : Nat \cup {-1}, capTime : Int32,
                             lasttime : {Free} \cup Nat]]
    BY <1>3, <1>4, SlotType, SizesAssumption DEF LooksAway, SetLasttime
  <2>2. QED
    BY <1>3, <1>4, <2>1, LoopsType
       DEF LooksAway, AtItsFace, TypeInv, TypeOK, frame, person
<1>5. CASE StillWaits
  <2>1. Left \in Nat
    BY <1>3, <1>5, LeftType, SizesAssumption DEF StillWaits, Int32
  <2>2. faces' \in [Slot -> [id : Nat \cup {-1}, capTime : Int32,
                             lasttime : {Free} \cup Nat]]
    BY <1>3, <1>5, <2>1, SlotType DEF StillWaits, SetLasttime
  <2>3. QED
    BY <1>3, <1>5, <2>2, LoopsType
       DEF StillWaits, AtItsFace, TypeInv, TypeOK, frame, person
<1>6. CASE HasWaited
  <2>1. faces' \in [Slot -> [id : Nat \cup {-1}, capTime : Int32,
                             lasttime : {Free} \cup Nat]]
    BY <1>3, <1>6, SlotType DEF HasWaited, SetLasttime
  <2>2. QED
    BY <1>3, <1>6, <2>1, LoopsType
       DEF HasWaited, AtItsFace, TypeInv, TypeOK, frame
<1>7. CASE EndSlots
  BY <1>7, LoopsType, Places
     DEF EndSlots, TypeInv, TypeOK, frame, person
<1>8. CASE RegisterSucceeds
  <2>1. /\ StorePerson(NewId, face_id) /\ face_id \in Nat
        /\ register_id' = NewId /\ known' = known \cup {NewId}
        /\ UNCHANGED <<frame, faces, file>>
    BY <1>8 DEF RegisterSucceeds, TypeInv, TypeOK
  <2>2. NewId \in RegistryId
    BY NewIdType
  <2>3. DOMAIN people \subseteq known /\ known \subseteq RegistryId
    BY DEF TypeInv, TypeOK
  <2>4. /\ people' \in [DOMAIN people' -> Nat] /\ IsFiniteSet(DOMAIN people')
        /\ DOMAIN people' \subseteq known' /\ known' \subseteq RegistryId
        /\ Cardinality(DOMAIN people') <= MaxRecords
        /\ newcomers' \subseteq DOMAIN people'
    BY <2>1, <2>2, <2>3, StoreType
  <2>5. Parsed \subseteq Parsed'
    BY <2>1 DEF Parsed
  <2>6. m_face' = m_face /\ m_face \in Seq(Parsed')
    BY <2>1, <2>5 DEF frame, TypeInv, TypeOK
  <2>7. TypeOK'
    BY <1>8, <2>1, <2>2, <2>4, <2>6
       DEF RegisterSucceeds, TypeInv, TypeOK, frame, file
  <2>8. QED
    BY <1>8, <2>4, <2>7 DEF RegisterSucceeds, TypeInv, frame, Ids
<1>9. CASE RegisterFails \/ RaiseFlush
  BY <1>9 DEF RegisterFails, RaiseFlush, TypeInv, TypeOK, frame, person,
              tables, file, Parsed, Ids
<1>10. CASE SaveAll
  <2>1. DOMAIN people \subseteq RegistryId /\ people \in [DOMAIN people -> Nat]
    BY DEF TypeInv, TypeOK
  <2>2. DOMAIN saved' \subseteq RegistryId /\ saved' \in [DOMAIN saved' -> Nat]
    BY <1>10, <2>1 DEF SaveAll, TypeInv, TypeOK
  <2>3. QED
    BY <1>10, <2>2
       DEF SaveAll, TypeInv, TypeOK, frame, tables, Parsed, Ids
<1>11. CASE WritePicture
  BY <1>11 DEF WritePicture, TypeInv, TypeOK, frame, tables, file, Parsed, Ids
<1>12. CASE GiveSlot
  <2>1. j' \in 1..FaceNum /\ j' \in DOMAIN m_face
    BY <1>12, MinFace DEF GiveSlot, Slotless
  <2>2. Min(FreeSlots) \in Slot
    BY <1>12, MinSlot DEF GiveSlot, FreeSlots
  <2>3. m_face[j'].id \in Nat
    BY <2>1, FaceIdType
  <2>4. [id |-> m_face[j'].id, capTime |-> curtime, lasttime |-> Wait]
          \in [id : Nat \cup {-1}, capTime : Int32, lasttime : {Free} \cup Nat]
    BY <2>3, SizesAssumption DEF TypeInv, TypeOK
  <2>5. faces' \in [Slot -> [id : Nat \cup {-1}, capTime : Int32,
                             lasttime : {Free} \cup Nat]]
    BY <1>12, <2>2, <2>4 DEF GiveSlot, TypeInv, TypeOK
  <2>6. QED
    BY <1>12, <2>1, <2>5, LoopsType, Places
       DEF GiveSlot, TypeInv, TypeOK, frame, person
<1>13. CASE EndFrame
  BY <1>13, LoopsType, Places
     DEF EndFrame, TypeInv, TypeOK, frame, person
<1>14. QED
  BY <1>0, <1>1, <1>2, <1>4, <1>5, <1>6, <1>7, <1>8, <1>9, <1>10, <1>11,
     <1>12, <1>13 DEF Next

\* TypeInv is inductive.
LEMMA TypeAlways == Spec => []TypeInv
<1>1. QED
  BY TypeInit, TypeStep, PTL DEF Spec

\* The variables of the recognition thread have their types: i and j stay
\* within the arrays they index, a face that is read from a text in which
\* titles are missing is a face, and the time left in a slot is never
\* negative but in a slot that is free.
THEOREM WaitingRoomTypes == Spec => []TypeOK
<1>1. TypeInv => TypeOK
  BY DEF TypeInv
<1>2. QED
  BY <1>1, TypeAlways, PTL

-----------------------------------------------------------------------------
(* People *)

\* Names only grow, and the last one given is newer than the name of every
\* newcomer until Register has been called with it.  Who has no picture yet is
\* the person that is being registered, and only LocalSave is still to come
\* when the file is not what it should be.
PeopleInv ==
    /\ PeopleComplete
    /\ \A p \in newcomers : people[p] \in Nat /\ people[p] <= face_id
    /\ pc = "register" => \A p \in newcomers : people[p] < face_id
    /\ pc # "save" => fileFailed \/ saved = people
    /\ \A p \in newcomers :
         \/ people[p] \in pictures
         \/ pc \in {"save", "picture"} /\ people[p] = face_id

\* A newcomer is saved and has a picture before the loops go on.
LEMMA PeopleStep == TypeInv /\ PeopleInv /\ [Next]_vars => PeopleInv'
<1> SUFFICES ASSUME TypeInv, PeopleInv, [Next]_vars
             PROVE  PeopleInv'
  OBVIOUS
<1>0. face_id \in Nat
  BY DEF TypeInv, TypeOK
<1>1. CASE UNCHANGED vars
  BY <1>1 DEF PeopleInv, PeopleComplete, vars, loop, person, tables, file
<1>2. ASSUME UNCHANGED person,
             pc \notin {"register", "save", "picture"},
             pc' \notin {"register", "save", "picture"}
      PROVE  PeopleInv'
  BY <1>2 DEF PeopleInv, PeopleComplete, person, tables, file
<1>3. CASE \/ RecognizeSome \/ EnterSlot \/ LooksAway \/ StillWaits
           \/ EndSlots \/ GiveSlot \/ EndFrame
  BY <1>2, <1>3 DEF RecognizeSome, Recognize, EnterSlot, LooksAway,
                    StillWaits, AtItsFace, EndSlots, GiveSlot, EndFrame
<1>4. CASE HasWaited
  BY <1>0, <1>4
     DEF HasWaited, AtItsFace, PeopleInv, PeopleComplete, tables, file
<1>5. CASE RegisterSucceeds
  <2>1. /\ pc = "register" /\ pc' = "save"
        /\ face_id' = face_id /\ pictures' = pictures
        /\ StorePerson(NewId, face_id)
    BY <1>5 DEF RegisterSucceeds
  <2>2. CASE Cardinality(DOMAIN people) = MaxRecords
    <3>1. people' = people /\ newcomers' = newcomers
      BY <2>1, <2>2 DEF StorePerson
    <3>2. QED
      BY <2>1, <3>1 DEF PeopleInv, PeopleComplete
  <2>3. CASE Cardinality(DOMAIN people) # MaxRecords
    <3>1. /\ people' = [p \in DOMAIN people \cup {NewId} |->
                         IF p = NewId THEN face_id ELSE people[p]]
          /\ newcomers' = newcomers \cup {NewId}
      BY <2>1, <2>3 DEF StorePerson
    <3>2. newcomers \subseteq DOMAIN people
      BY DEF TypeInv, TypeOK
    <3>3. \A p \in newcomers' :
            people'[p] = IF p = NewId THEN face_id ELSE people[p]
      BY <3>1, <3>2
    <3>4. \A p, q \in newcomers' : people'[p] = people'[q] => p = q
      BY <1>0, <2>1, <3>1, <3>3 DEF PeopleInv, PeopleComplete
    <3>5. QED
      BY <1>0, <2>1, <3>1, <3>3, <3>4 DEF PeopleInv, PeopleComplete
  <2>4. QED
    BY <2>2, <2>3
<1>6. CASE RegisterFails
  BY <1>6 DEF RegisterFails, person, tables, file, PeopleInv, PeopleComplete
<1>7. CASE SaveAll
  BY <1>7 DEF SaveAll, tables, PeopleInv, PeopleComplete
<1>8. CASE WritePicture
  BY <1>8 DEF WritePicture, tables, file, PeopleInv, PeopleComplete
<1>9. CASE RaiseFlush
  BY <1>9 DEF RaiseFlush, tables, file, PeopleInv, PeopleComplete
<1>10. QED
  BY <1>1, <1>3, <1>4, <1>5, <1>6, <1>7, <1>8, <1>9 DEF Next

\* Two people this process has registered and stored never share a name,
\* whichever calls of Register and LocalSave fail, whoever was loaded, whether
\* the store is full, and though the registry ids go round.  When the next
\* frame is fetched each of them has a picture, and the file is the store but
\* for a file that could not be opened: the count of face_id, the call of
\* Register, LocalSave and imwrite are four steps.
THEOREM PeopleAlwaysComplete == Spec => []PeopleComplete
<1>1. Init => PeopleInv
  BY SizesAssumption DEF Init, PeopleInv, PeopleComplete
<1>2. PeopleInv => PeopleComplete
  BY DEF PeopleInv
<1>3. QED
  BY <1>1, <1>2, TypeAlways, PeopleStep, PTL DEF Spec

-----------------------------------------------------------------------------
(* The steps as the waiting room sees them *)

\* The loop on the slots is under way.
InLoop == pc \in {"slots", "register", "save", "picture", "flush"}

\* The slot has been looked at in this frame.
Done(s) ==
    \/ pc = "assign"
    \/ InLoop /\ s <= i

\* Somebody waits in the slot, or it is being looked at.
Holds(s) == Waiting(s) \/ s = i

\* Everybody in the frame looks at the camera.
AllFrontal == \A k \in DOMAIN m_face : m_face[k].frontal

\* At a face the slot the loop is at gets another time left, and that is 0
\* only if the limit has just been reached; whose time is up is registered.
AtFace ==
    /\ i \in Slot /\ i' = i
    /\ InLoop /\ InLoop'
    /\ faces'[i].lasttime > 0 \/ Left <= 0
    /\ Waiting(i)' /\ AllFrontal => Left >= 0
    /\ pc' = "register" => Left < 0
    /\ UNCHANGED frame
    /\ faces[i].id \in Ids(m_face)
    /\ faces'[i].id = faces[i].id /\ faces'[i].capTime = faces[i].capTime
    /\ faces'[i].lasttime = 0 =>
         ToInt(faces[i].capTime + Wait - curtime) = 0
    /\ \A s \in Slot \ {i} : faces'[s] = faces[s]

\* Looking at a slot whose face is in the frame, in each of the three ways.
LEMMA AtFaceEffect ==
    ASSUME TypeInv, LooksAway \/ StillWaits \/ HasWaited
    PROVE  AtFace
<1>1. LaterFaces # {} /\ i \in Slot /\ i' = i /\ UNCHANGED frame
  BY DEF LooksAway, StillWaits, HasWaited, AtItsFace, LaterFaces
<1>2. faces[i].id \in Ids(m_face)
  BY <1>1 DEF LaterFaces, Ids
<1>3. InLoop /\ InLoop'
  BY DEF LooksAway, StillWaits, HasWaited, AtItsFace, InLoop
<1>4. PICK left \in {Free} \cup Nat :
        /\ faces' = [faces EXCEPT ![i].lasttime = left]
        /\ left = 0 => ToInt(faces[i].capTime + Wait - curtime) = 0
  <2>1. CASE LooksAway
    BY <2>1, SizesAssumption DEF LooksAway, SetLasttime
  <2>2. CASE StillWaits
    <3>1. Left \in {Free} \cup Nat
      BY <1>1, <2>2, LeftType, SizesAssumption DEF StillWaits, Int32
    <3>2. QED
      BY <2>2, <3>1 DEF StillWaits, SetLasttime, Left
  <2>3. CASE HasWaited
    <3>1. Free # 0
      BY DEF Free
    <3>2. faces' = [faces EXCEPT ![i].lasttime = Free]
      BY <2>3 DEF HasWaited, SetLasttime
    <3>3. QED
      BY <3>1, <3>2
  <2>4. QED
    BY <2>1, <2>2, <2>3
<1>5. Left \in Int /\ Wait \in Int /\ Wait > 0
  BY <1>1, LeftType, SizesAssumption DEF Int32
<1>6. /\ faces'[i].lasttime > 0 \/ Left <= 0
      /\ Waiting(i)' /\ AllFrontal => Left >= 0
      /\ pc' = "register" => Left < 0
  <2>1. CASE LooksAway
    <3>1. faces'[i].lasttime = Wait
      BY <1>1, <2>1 DEF LooksAway, SetLasttime, TypeInv, TypeOK
    <3>2. ~ AllFrontal
      <4>1. j' \in DOMAIN m_face
        BY <2>1, MinFace DEF LooksAway, AtItsFace, LaterFaces
      <4>2. QED
        BY <2>1, <4>1 DEF LooksAway, AllFrontal
    <3>3. pc' # "register"
      BY <2>1 DEF LooksAway, AtItsFace
    <3>4. QED
      BY <1>5, <3>1, <3>2, <3>3
  <2>2. CASE StillWaits
    <3>1. faces'[i].lasttime = Left
      BY <1>1, <2>2 DEF StillWaits, SetLasttime, TypeInv, TypeOK
    <3>2. Left >= 0 /\ pc' # "register"
      BY <2>2 DEF StillWaits, AtItsFace
    <3>3. QED
      BY <1>5, <3>1, <3>2
  <2>3. CASE HasWaited
    <3>1. faces'[i].lasttime = Free
      BY <1>1, <2>3 DEF HasWaited, SetLasttime, TypeInv, TypeOK
    <3>2. Left < 0 /\ ~ Waiting(i)'
      BY <2>3, <3>1 DEF HasWaited, Waiting, Free
    <3>3. QED
      BY <1>5, <3>2
  <2>4. QED
    BY <2>1, <2>2, <2>3
<1>7. QED
  BY <1>1, <1>2, <1>3, <1>4, <1>6, SlotType DEF AtFace

\* The next slot somebody waits in is given up, and the loop is at it.
Entered ==
    /\ InLoop /\ pc' = "slots" /\ LaterFaces = {} /\ j' = 0
    /\ i' \in Slot /\ i < i' /\ Waiting(i')
    /\ \A s \in Slot : i < s /\ s < i' => ~ Waiting(s)
    /\ UNCHANGED frame
    /\ faces'[i'].id = faces[i'].id /\ faces'[i'].capTime = faces[i'].capTime
    /\ faces'[i'].lasttime = Free
    /\ \A s \in Slot \ {i'} : faces'[s] = faces[s]

\* Going on to the next slot somebody waits in gives up those before it.
LEMMA EnterEffect ==
    ASSUME TypeInv, EnterSlot
    PROVE  Entered
<1>1. /\ i' = Min(LaterSlots)
      /\ Min(LaterSlots) \in LaterSlots /\ Min(LaterSlots) \in Slot
      /\ \A s \in LaterSlots : Min(LaterSlots) <= s
  BY MinSlot DEF EnterSlot, LaterSlots
<1>2. i' \in Slot /\ i < i' /\ Waiting(i')
  BY <1>1 DEF LaterSlots
<1>3. ASSUME NEW s \in Slot, i < s, s < i'
      PROVE  ~ Waiting(s)
  <2>1. s \notin LaterSlots
    BY <1>1, <1>3 DEF Slot
  <2>2. QED
    BY <1>3, <2>1 DEF LaterSlots
<1>4. faces' = [faces EXCEPT ![i'].lasttime = Free]
  BY <1>1 DEF EnterSlot, SetLasttime
<1>5. QED
  BY <1>2, <1>3, <1>4, SlotType DEF EnterSlot, InLoop, Entered

\* The first free slot is given to a face of this frame that had none with
\* time left; the faces before it have one or are nobody's.
Given(s, k) ==
    /\ pc = "assign" /\ pc' = "assign" /\ i = 0 /\ i' = 0
    /\ s \in Slot /\ ~ Waiting(s)
    /\ k \in DOMAIN m_face /\ k > j /\ j' = k
    /\ m_face[k].id < IdBound
    /\ ~ HasSlot(m_face[k].id)
    /\ \A l \in DOMAIN m_face :
         j < l /\ l < k /\ m_face[l].id < IdBound => HasSlot(m_face[l].id)
    /\ UNCHANGED frame
    /\ faces'[s] = [id |-> m_face[k].id, capTime |-> curtime, lasttime |-> Wait]
    /\ \A t \in Slot \ {s} : faces'[t] = faces[t]

\* A face without a slot is given a free one.
LEMMA GiveEffect ==
    ASSUME TypeInv, GiveSlot
    PROVE  \E s \in Slot : \E k \in DOMAIN m_face : Given(s, k)
<1> DEFINE s == Min(FreeSlots)
           k == Min(Slotless)
<1>1. s \in FreeSlots /\ s \in Slot
  BY MinSlot DEF GiveSlot, FreeSlots
<1>2. /\ k \in Slotless /\ k \in 1..FaceNum
      /\ \A l \in Slotless : k <= l
  BY MinFace DEF GiveSlot, Slotless
<1>3. /\ UNCHANGED <<pc, i, frame>> /\ j' = k /\ pc = "assign"
      /\ faces' = [faces EXCEPT ![s] =
           [id |-> m_face[k].id, capTime |-> curtime, lasttime |-> Wait]]
  BY DEF GiveSlot
<1>4. i = 0
  BY <1>3 DEF TypeInv
<1>5. s \in Slot /\ ~ Waiting(s)
  BY <1>1 DEF FreeSlots, Waiting, Free
<1>6. k \in DOMAIN m_face /\ k > j /\ m_face[k].id < IdBound
      /\ ~ HasSlot(m_face[k].id)
  BY <1>2 DEF Slotless
<1>7. ASSUME NEW l \in DOMAIN m_face, j < l, l < k, m_face[l].id < IdBound
      PROVE  HasSlot(m_face[l].id)
  <2>1. l \in Int
    BY DEF TypeInv, TypeOK
  <2>2. l \notin Slotless
    BY <1>2, <1>7, <2>1
  <2>3. QED
    BY <1>7, <2>2 DEF Slotless, TypeInv, TypeOK
<1>8. /\ faces'[s] = [id |-> m_face[k].id, capTime |-> curtime,
                      lasttime |-> Wait]
      /\ \A t \in Slot \ {s} : faces'[t] = faces[t]
  BY <1>1, <1>3 DEF TypeInv, TypeOK
<1> HIDE DEF s, k
<1>9. Given(s, k)
  BY <1>3, <1>4, <1>5, <1>6, <1>7, <1>8 DEF Given
<1>10. QED
  BY <1>1, <1>6, <1>9

\* The steps of registering somebody change no slot.
Registers ==
    /\ InLoop /\ InLoop' /\ pc # "slots" /\ pc' # "register"
    /\ UNCHANGED <<i, frame, faces>>

\* A step is one of seven kinds for who waits where.
LEMMA WaitingRoomSteps ==
    ASSUME TypeInv, [Next]_vars
    PROVE  \/ RecognizeSome
           \/ Entered
           \/ AtFace
           \/ Registers
           \/ EndSlots
           \/ \E s \in Slot : \E k \in DOMAIN m_face : Given(s, k)
           \/ EndFrame
           \/ UNCHANGED vars
<1>1. CASE RegisterSucceeds \/ RegisterFails \/ SaveAll \/ WritePicture
           \/ RaiseFlush
  BY <1>1 DEF RegisterSucceeds, RegisterFails, SaveAll, WritePicture,
              RaiseFlush, InLoop, Registers
<1>2. QED
  BY <1>1, EnterEffect, AtFaceEffect, GiveEffect DEF Next

-----------------------------------------------------------------------------
(* Slots do not leak *)

LeakInv ==
    /\ NoSlotLeaked
    /\ \A s \in Slot : Done(s) /\ Waiting(s) => faces[s].id \in Ids(m_face)

\* No step leaves a face that is gone in a slot the loop has passed.
LEMMA LeakStep == TypeInv /\ LeakInv /\ [Next]_vars => LeakInv'
<1> SUFFICES ASSUME TypeInv, LeakInv, [Next]_vars
             PROVE  LeakInv'
  OBVIOUS
<1>0. Slot \subseteq Nat \ {0} /\ i \in Nat
  BY SizesAssumption DEF Slot, TypeInv, TypeOK
<1>1. CASE RecognizeSome
  <2>1. pc' = "slots" /\ i' = 0
    BY <1>1 DEF RecognizeSome, Recognize
  <2>2. \A s \in Slot : ~ Done(s)'
    BY <1>0, <2>1 DEF Done
  <2>3. QED
    BY <2>1, <2>2 DEF LeakInv, NoSlotLeaked
<1>2. CASE Entered
  <2>1. /\ pc' # "fetch" /\ pc' # "assign" /\ i' \in Nat
        /\ Ids(m_face)' = Ids(m_face)
    BY <1>0, <1>2 DEF Entered, frame, Ids
  <2>2. ASSUME NEW s \in Slot, s <= i', Waiting(s)'
        PROVE  s <= i /\ Waiting(s) /\ faces'[s] = faces[s]
    <3>1. s # i'
      BY <1>2, <2>2 DEF Entered, Waiting, Free
    <3>2. faces'[s] = faces[s]
      BY <1>2, <3>1 DEF Entered
    <3>3. Waiting(s)
      BY <2>2, <3>2 DEF Waiting
    <3>4. QED
      BY <1>0, <1>2, <2>1, <2>2, <3>1, <3>2, <3>3 DEF Entered
  <2>3. QED
    BY <1>2, <2>1, <2>2 DEF Entered, LeakInv, NoSlotLeaked, Done
<1>3. CASE AtFace
  BY <1>3 DEF AtFace, LeakInv, NoSlotLeaked, Done, Waiting, InLoop, frame, Ids
<1>4. CASE Registers
  BY <1>4 DEF Registers, LeakInv, NoSlotLeaked, Done, Waiting, InLoop, frame,
              Ids
<1>5. CASE EndSlots
  <2>1. \A s \in Slot : Waiting(s) => s <= i
    BY <1>0, <1>5 DEF EndSlots, LaterSlots
  <2>2. QED
    BY <1>5, <2>1
       DEF EndSlots, LeakInv, NoSlotLeaked, Done, Waiting, InLoop, frame, Ids
<1>6. ASSUME NEW s \in Slot, NEW k \in DOMAIN m_face, Given(s, k)
      PROVE  LeakInv'
  <2>1. pc = "assign" /\ pc' = "assign" /\ Ids(m_face)' = Ids(m_face)
    BY <1>6 DEF Given, frame, Ids
  <2>2. faces'[s].id \in Ids(m_face)
    BY <1>6 DEF Given, Ids
  <2>3. ASSUME NEW t \in Slot, Waiting(t)'
        PROVE  faces'[t].id \in Ids(m_face)
    <3>1. CASE t = s
      BY <2>2, <3>1
    <3>2. CASE t # s
      <4>1. faces'[t] = faces[t]
        BY <1>6, <3>2 DEF Given
      <4>2. Waiting(t)
        BY <2>3, <4>1 DEF Waiting
      <4>3. QED
        BY <2>1, <4>1, <4>2 DEF LeakInv, Done
    <3>3. QED
      BY <3>1, <3>2
  <2>4. \A t \in Slot : Waiting(t)' => faces'[t].id \in Ids(m_face)'
    BY <2>1, <2>3
  <2>5. NoSlotLeaked'
    BY <2>1 DEF NoSlotLeaked
  <2>6. QED
    BY <2>4, <2>5 DEF LeakInv
<1>7. CASE EndFrame
  BY <1>7 DEF EndFrame, LeakInv, NoSlotLeaked, Done, Waiting, InLoop, frame, Ids
<1>8. CASE UNCHANGED vars
  BY <1>8 DEF vars, loop, frame, LeakInv, NoSlotLeaked, Done, Waiting, InLoop,
              Ids
<1>9. QED
  BY <1>1, <1>2, <1>3, <1>4, <1>5, <1>6, <1>7, <1>8, WaitingRoomSteps

\* LeakInv is inductive, with TypeInv.
LEMMA LeakAlways == Spec => []LeakInv
<1>1. Init => LeakInv
  <2>1. SUFFICES ASSUME Init
                 PROVE  LeakInv
    OBVIOUS
  <2>2. \A s \in Slot : faces[s].id = -1
    BY <2>1 DEF Init
  <2>3. QED
    BY <2>1, <2>2 DEF Init, LeakInv, NoSlotLeaked, Done, InLoop
<1>2. QED
  BY <1>1, TypeAlways, LeakStep, PTL DEF Spec

\* When the next frame is fetched, whoever waits in a slot was in the last
\* frame: the loop gives every slot up and takes it back only for a face it
\* finds, however many calls of Register lie between.
THEOREM NoSlotEverLeaked == Spec => []NoSlotLeaked
<1>1. LeakInv => NoSlotLeaked
  BY DEF LeakInv
<1>2. QED
  BY <1>1, LeakAlways, PTL

-----------------------------------------------------------------------------
(* A face has at most two slots *)

\* Two slots of one face were given at different times, since the second was
\* given when the first came to 0.  So when a slot is given at most one is
\* there: of two, one has time left, and then none is given.
TwoInv ==
    /\ \A s \in Slot : Done(s) /\ faces[s].lasttime = 0 =>
         ToInt(faces[s].capTime + Wait - curtime) = 0
    /\ \A s, t \in Slot :
         /\ s # t /\ Holds(s) /\ Holds(t)
         /\ faces[s].id = faces[t].id /\ faces[s].id \in Nat
         => faces[s].capTime # faces[t].capTime
    /\ \A id \in Nat : \E a, b \in Slot :
         \A s \in Slot : Holds(s) /\ faces[s].id = id => s \in {a, b}

\* Slots nobody new waits in, and that keep their face and time, are no harm.
LEMMA TwoKept ==
    ASSUME TwoInv,
           \A s \in Slot : Holds(s)' => /\ Holds(s)
                                        /\ faces'[s].id = faces[s].id
                                        /\ faces'[s].capTime = faces[s].capTime,
           \A s \in Slot : Done(s)' /\ faces'[s].lasttime = 0 =>
             ToInt(faces'[s].capTime + Wait - curtime') = 0
    PROVE  TwoInv'
<1>1. ASSUME NEW s \in Slot, NEW t \in Slot, s # t, Holds(s)', Holds(t)',
             faces'[s].id = faces'[t].id, faces'[s].id \in Nat
      PROVE  faces'[s].capTime # faces'[t].capTime
  BY <1>1 DEF TwoInv
<1>2. ASSUME NEW id \in Nat
      PROVE  \E a, b \in Slot :
               \A s \in Slot : Holds(s)' /\ faces'[s].id = id => s \in {a, b}
  <2>1. PICK a \in Slot, b \in Slot :
          \A s \in Slot : Holds(s) /\ faces[s].id = id => s \in {a, b}
    BY <1>2 DEF TwoInv
  <2>2. QED
    BY <2>1
<1>3. QED
  BY <1>1, <1>2 DEF TwoInv

\* A slot is given to a face that has at most one.
LEMMA TwoGiven ==
    ASSUME TypeInv, TwoInv, NEW g \in Slot, NEW k \in DOMAIN m_face, Given(g, k)
    PROVE  TwoInv'
<1> DEFINE id == m_face[k].id
<1>0. /\ pc = "assign" /\ pc' = "assign" /\ i = 0 /\ i' = 0
      /\ curtime' = curtime /\ curtime \in Int32
      /\ id \in Nat
      /\ faces'[g].id = id /\ faces'[g].capTime = curtime
      /\ faces'[g].lasttime = Wait
      /\ Wait \in Nat \ {0}
  BY FaceIdType, SizesAssumption DEF Given, frame, TypeInv, TypeOK
<1>1. \A s \in Slot : (Holds(s) <=> Waiting(s)) /\ (Holds(s)' <=> Waiting(s)')
  BY <1>0, Places DEF Holds
<1>2. Holds(g)' /\ ~ Holds(g)
  BY <1>0, <1>1 DEF Given, Waiting
<1>3. ASSUME NEW s \in Slot, s # g
      PROVE  faces'[s] = faces[s] /\ (Holds(s)' <=> Holds(s))
  <2>1. faces'[s] = faces[s]
    BY <1>3 DEF Given
  <2>2. QED
    BY <1>1, <2>1 DEF Waiting
<1>4. ASSUME NEW s \in Slot, Holds(s), faces[s].id = id
      PROVE  /\ faces[s].lasttime = 0
             /\ ToInt(faces[s].capTime + Wait - curtime) = 0
             /\ faces[s].capTime \in Int32
             /\ faces[s].capTime # curtime
  <2>1. faces[s].lasttime >= 0 /\ ~ (faces[s].lasttime > 0)
    BY <1>1, <1>4 DEF Given, HasSlot, Waiting
  <2>2. faces[s].lasttime = 0 /\ faces[s].capTime \in Int32
    BY <2>1 DEF TypeInv, TypeOK, Free
  <2>3. ToInt(faces[s].capTime + Wait - curtime) = 0
    BY <1>0, <2>2 DEF TwoInv, Done
  <2>4. QED
    BY <1>0, <2>2, <2>3, FreshIsNotUp
<1>5. ASSUME NEW s \in Slot, NEW t \in Slot, Holds(s), Holds(t),
             faces[s].id = id, faces[t].id = id
      PROVE  s = t
  <2>1. faces[s].capTime = faces[t].capTime
    BY <1>0, <1>4, <1>5, SameTimeUp
  <2>2. QED
    BY <1>0, <1>5, <2>1 DEF TwoInv
<1>6. \A s \in Slot : Done(s)' /\ faces'[s].lasttime = 0 =>
        ToInt(faces'[s].capTime + Wait - curtime') = 0
  BY <1>0, <1>3 DEF TwoInv, Done
<1> HIDE DEF id
<1>7. ASSUME NEW s \in Slot, NEW t \in Slot, s # t, Holds(s)', Holds(t)',
             faces'[s].id = faces'[t].id, faces'[s].id \in Nat
      PROVE  faces'[s].capTime # faces'[t].capTime
  <2>1. CASE s # g /\ t # g
    BY <1>3, <1>7, <2>1 DEF TwoInv
  <2>2. CASE s = g
    BY <1>0, <1>3, <1>4, <1>7, <2>2
  <2>3. CASE t = g
    BY <1>0, <1>3, <1>4, <1>7, <2>3
  <2>4. QED
    BY <2>1, <2>2, <2>3
<1>8. ASSUME NEW n \in Nat
      PROVE  \E a, b \in Slot :
               \A s \in Slot : Holds(s)' /\ faces'[s].id = n => s \in {a, b}
  <2>1. CASE n # id
    <3>1. PICK a \in Slot, b \in Slot :
            \A s \in Slot : Holds(s) /\ faces[s].id = n => s \in {a, b}
      BY <1>8 DEF TwoInv
    <3>2. QED
      BY <1>0, <1>3, <2>1, <3>1
  <2>2. CASE n = id /\ \E s \in Slot : Holds(s) /\ faces[s].id = id
    <3>1. PICK a \in Slot : Holds(a) /\ faces[a].id = id
      BY <2>2
    <3>2. \A s \in Slot : Holds(s)' /\ faces'[s].id = n => s \in {a, g}
      BY <1>3, <1>5, <2>2, <3>1
    <3>3. QED
      BY <3>2
  <2>3. CASE n = id /\ ~ \E s \in Slot : Holds(s) /\ faces[s].id = id
    <3>1. \A s \in Slot : Holds(s)' /\ faces'[s].id = n => s \in {g}
      BY <1>3, <2>3
    <3>2. QED
      BY <3>1
  <2>4. QED
    BY <2>1, <2>2, <2>3
<1>9. QED
  BY <1>6, <1>7, <1>8 DEF TwoInv

\* No step gives a face a third slot.
LEMMA TwoStep == TypeInv /\ TwoInv /\ [Next]_vars => TwoInv'
<1> SUFFICES ASSUME TypeInv, TwoInv, [Next]_vars
             PROVE  TwoInv'
  OBVIOUS
<1>0. Slot \subseteq Nat \ {0} /\ i \in Nat
  BY SizesAssumption DEF Slot, TypeInv, TypeOK
<1>1. CASE RecognizeSome
  <2>1. i' = 0 /\ i = 0 /\ pc' = "slots" /\ faces' = faces
    BY <1>1 DEF RecognizeSome, Recognize, TypeInv
  <2>2. QED
    BY <1>0, <2>1, TwoKept DEF Holds, Waiting, Done, InLoop
<1>2. CASE Entered
  <2>1. pc' # "assign" /\ i' \in Nat /\ curtime' = curtime
    BY <1>0, <1>2 DEF Entered, frame
  <2>2. ASSUME NEW s \in Slot, Holds(s)'
        PROVE  /\ Holds(s) /\ faces'[s].id = faces[s].id
               /\ faces'[s].capTime = faces[s].capTime
    BY <1>2, <2>2 DEF Entered, Holds, Waiting
  <2>3. ASSUME NEW s \in Slot, Done(s)', faces'[s].lasttime = 0
        PROVE  ToInt(faces'[s].capTime + Wait - curtime') = 0
    <3>1. s # i'
      BY <1>2, <2>3 DEF Entered, Free
    <3>2. faces'[s] = faces[s] /\ Waiting(s)
      BY <1>2, <2>3, <3>1 DEF Entered, Waiting
    <3>3. s <= i
      BY <1>0, <1>2, <2>1, <2>3, <3>1, <3>2 DEF Entered, Done
    <3>4. Done(s)
      BY <1>2, <3>3 DEF Entered, Done
    <3>5. QED
      BY <2>1, <2>3, <3>2, <3>4 DEF TwoInv
  <2>4. QED
    BY <2>2, <2>3, TwoKept
<1>3. CASE AtFace
  <2>1. pc # "assign" /\ pc' # "assign" /\ i' = i /\ curtime' = curtime
    BY <1>3 DEF AtFace, InLoop, frame
  <2>2. ASSUME NEW s \in Slot, Holds(s)'
        PROVE  /\ Holds(s) /\ faces'[s].id = faces[s].id
               /\ faces'[s].capTime = faces[s].capTime
    BY <1>3, <2>2 DEF AtFace, Holds, Waiting
  <2>3. ASSUME NEW s \in Slot, Done(s)', faces'[s].lasttime = 0
        PROVE  ToInt(faces'[s].capTime + Wait - curtime') = 0
    <3>1. CASE s = i
      BY <1>3, <2>1, <2>3, <3>1 DEF AtFace
    <3>2. CASE s # i
      BY <1>3, <2>1, <2>3, <3>2 DEF AtFace, TwoInv, Done
    <3>3. QED
      BY <3>1, <3>2
  <2>4. QED
    BY <2>2, <2>3, TwoKept
<1>4. CASE Registers
  BY <1>4, TwoKept DEF Registers, Holds, Waiting, Done, InLoop, frame, TwoInv
<1>5. CASE EndSlots
  <2>1. \A s \in Slot : Waiting(s) => s <= i
    BY <1>0, <1>5 DEF EndSlots, LaterSlots
  <2>2. /\ pc = "slots" /\ i' = 0 /\ faces' = faces /\ curtime' = curtime
    BY <1>5 DEF EndSlots, frame
  <2>3. \A s \in Slot : faces[s].lasttime = 0 => Done(s)
    BY <2>1, <2>2 DEF Waiting, Done, InLoop
  <2>4. QED
    BY <1>0, <2>2, <2>3, TwoKept DEF Holds, Waiting, TwoInv
<1>6. CASE \E s \in Slot : \E k \in DOMAIN m_face : Given(s, k)
  BY <1>6, TwoGiven
<1>7. CASE EndFrame
  <2>1. /\ pc = "assign" /\ pc' = "fetch" /\ i' = 0 /\ i = 0
        /\ faces' = faces /\ curtime' = curtime
    BY <1>7 DEF EndFrame, frame, TypeInv
  <2>2. QED
    BY <2>1, TwoKept DEF Holds, Waiting, Done, InLoop
<1>8. CASE UNCHANGED vars
  BY <1>8, TwoKept DEF vars, loop, frame, Holds, Waiting, Done, InLoop, TwoInv
<1>9. QED
  BY <1>1, <1>2, <1>3, <1>4, <1>5, <1>6, <1>7, <1>8, WaitingRoomSteps

\* TwoInv is inductive, with TypeInv.
LEMMA TwoAlways == Spec => []TwoInv
<1>1. Init => TwoInv
  <2>1. SUFFICES ASSUME Init
                 PROVE  TwoInv
    OBVIOUS
  <2>2. \A s \in Slot : faces[s].id \notin Nat
    BY <2>1 DEF Init
  <2>3. 1 \in Slot
    BY SizesAssumption DEF Slot
  <2>4. \A s \in Slot : ~ Done(s)
    BY <2>1 DEF Init, Done, InLoop
  <2>5. ASSUME NEW id \in Nat
        PROVE  \E a, b \in Slot :
                 \A s \in Slot : Holds(s) /\ faces[s].id = id => s \in {a, b}
    <3>1. \A s \in Slot : faces[s].id # id
      BY <2>2
    <3>2. QED
      BY <2>3, <3>1
  <2>6. QED
    BY <2>2, <2>4, <2>5 DEF TwoInv
<1>2. QED
  BY <1>1, TypeAlways, TwoStep, PTL DEF Spec

\* However the clock goes and the faces look, no face ever waits in three
\* slots: a second slot beside one that came to exactly 0 is possible, a third
\* is not.
THEOREM NeverThreeSlots == Spec => []AtMostTwoSlots
<1>1. TypeInv /\ TwoInv => AtMostTwoSlots
  <2>1. SUFFICES ASSUME TypeInv, TwoInv, NEW id \in UnknownId
                 PROVE  Cardinality({ s \in Slot :
                                        Waiting(s) /\ faces[s].id = id }) <= 2
    BY DEF AtMostTwoSlots
  <2>2. id \in Nat
    BY SizesAssumption
  <2>3. PICK a \in Slot, b \in Slot :
          \A s \in Slot : Holds(s) /\ faces[s].id = id => s \in {a, b}
    BY <2>1, <2>2 DEF TwoInv
  <2>4. { s \in Slot : Waiting(s) /\ faces[s].id = id } \subseteq {a, b}
    BY <2>3 DEF Holds
  <2>5. IsFiniteSet({a, b}) /\ Cardinality({a, b}) <= 2
    BY PairSize
  <2>6. QED
    BY <2>4, <2>5, SubsetSize
<1>2. QED
  BY <1>1, TypeAlways, TwoAlways, PTL

-----------------------------------------------------------------------------
(* There is a slot for every face *)

\* Before the last loop has come to its end, the faces up to j have slots.
WaitInv ==
    /\ EveryUnknownFaceWaits
    /\ pc = "assign" =>
         \A k \in DOMAIN m_face : k <= j /\ m_face[k].id < IdBound =>
            \E s \in Slot : Waiting(s) /\ faces[s].id = m_face[k].id

\* While there is a face without a slot there is a slot for it: the others are
\* one fewer than the faces of a frame and have two slots at most.
LEMMA NotAllTaken ==
    ASSUME TypeInv, LeakInv, TwoInv, pc = "assign", NEW k \in DOMAIN m_face,
           \A s \in Slot : Waiting(s) => faces[s].id # m_face[k].id
    PROVE  FreeSlots # {}
<1>1. SUFFICES ASSUME FreeSlots = {}
               PROVE  FALSE
  OBVIOUS
<1> DEFINE Other == DOMAIN m_face \ {k}
<1>2. ASSUME NEW s \in Slot
      PROVE  \E l \in Other : faces[s].id = m_face[l].id
  <2>1. faces[s].lasttime # Free
    BY <1>1 DEF FreeSlots
  <2>2. Waiting(s)
    BY <2>1 DEF TypeInv, TypeOK, Waiting, Free
  <2>3. faces[s].id \in Ids(m_face)
    BY <2>2 DEF LeakInv, Done
  <2>4. QED
    BY <2>2, <2>3 DEF Ids
<1>3. ASSUME NEW l \in Other
      PROVE  \E a, b \in Slot :
               \A s \in Slot : faces[s].id = m_face[l].id => s \in {a, b}
  <2>1. m_face[l].id \in Nat
    BY FaceIdType
  <2>2. \A s \in Slot : Holds(s)
    BY <1>1 DEF FreeSlots, TypeInv, TypeOK, Holds, Waiting, Free
  <2>3. QED
    BY <2>1, <2>2 DEF TwoInv
<1>4. Other \subseteq 1..FaceNum /\ k \in 1..FaceNum /\ k \notin Other
  BY FacesInRoom
<1>5. Cardinality(Slot) = NSlots /\ NSlots > 2 * (FaceNum - 1) /\ NSlots \in Nat
  BY FS_Interval, SizesAssumption, SlotsAssumption DEF Slot
<1>6. 1 \in Slot
  BY SizesAssumption DEF Slot
<1> HIDE DEF Other
<1>7. CASE FaceNum = 1
  BY <1>2, <1>4, <1>6, <1>7
<1>8. CASE FaceNum = 2
  <2>1. PICK l \in Other : Other = {l}
    <3>1. PICK l \in Other : TRUE
      BY <1>2, <1>6
    <3>2. \A x \in Other : x \in {1, 2} /\ k \in {1, 2} /\ x # k
      BY <1>4, <1>8
    <3>3. \A x \in Other : x = l
      BY <3>1, <3>2
    <3>4. QED
      BY <3>1, <3>3
  <2>2. PICK a \in Slot, b \in Slot :
          \A s \in Slot : faces[s].id = m_face[l].id => s \in {a, b}
    BY <1>3, <2>1
  <2>3. Slot \subseteq {a, b}
    BY <1>2, <2>1, <2>2
  <2>4. Cardinality(Slot) <= 2
    BY <2>3, PairSize, SubsetSize
  <2>5. QED
    BY <1>5, <1>8, <2>4
<1>9. CASE FaceNum = 3
  <2>1. PICK l \in Other, m \in Other : Other = {l, m}
    <3>1. PICK l \in Other : TRUE
      BY <1>2, <1>6
    <3>2. CASE \E m \in Other : m # l
      <4>1. PICK m \in Other : m # l
        BY <3>2
      <4>2. \A x \in Other : x \in {1, 2, 3} /\ k \in {1, 2, 3} /\ x # k
        BY <1>4, <1>9
      <4>3. \A x \in Other : x = l \/ x = m
        BY <3>1, <4>1, <4>2
      <4>4. QED
        BY <3>1, <4>1, <4>3
    <3>3. CASE \A m \in Other : m = l
      BY <3>1, <3>3
    <3>4. QED
      BY <3>2, <3>3
  <2>2. PICK a \in Slot, b \in Slot :
          \A s \in Slot : faces[s].id = m_face[l].id => s \in {a, b}
    BY <1>3
  <2>3. PICK c \in Slot, d \in Slot :
          \A s \in Slot : faces[s].id = m_face[m].id => s \in {c, d}
    BY <1>3
  <2>4. Slot \subseteq {a, b} \cup {c, d}
    BY <1>2, <2>1, <2>2, <2>3
  <2>5. /\ IsFiniteSet({a, b} \cup {c, d})
        /\ Cardinality({a, b} \cup {c, d}) <= 4
    BY TwoPairs
  <2>6. Cardinality(Slot) <= 4
    BY <2>4, <2>5, SubsetSize
  <2>7. QED
    BY <1>5, <1>9, <2>6
<1>10. QED
  BY <1>7, <1>8, <1>9, SizesAssumption

\* Each turn of the last loop finds a slot for its face.
LEMMA WaitStep ==
    TypeInv /\ LeakInv /\ TwoInv /\ WaitInv /\ [Next]_vars => WaitInv'
<1> SUFFICES ASSUME TypeInv, LeakInv, TwoInv, WaitInv, [Next]_vars
             PROVE  WaitInv'
  OBVIOUS
<1>1. CASE pc' \notin {"fetch", "assign"}
  BY <1>1 DEF WaitInv, EveryUnknownFaceWaits
<1>2. CASE RecognizeSome \/ Entered \/ AtFace \/ Registers
  <2>1. pc' \notin {"fetch", "assign"}
    BY <1>2 DEF RecognizeSome, Recognize, Entered, AtFace, Registers, InLoop
  <2>2. QED
    BY <1>1, <2>1
<1>3. CASE EndSlots
  <2>1. pc' = "assign" /\ j' = 0
    BY <1>3 DEF EndSlots
  <2>2. \A k \in DOMAIN m_face' : ~ (k <= j')
    BY <1>3, <2>1 DEF EndSlots, frame, TypeInv, TypeOK
  <2>3. QED
    BY <2>1, <2>2 DEF WaitInv, EveryUnknownFaceWaits
<1>4. ASSUME NEW g \in Slot, NEW k \in DOMAIN m_face, Given(g, k)
      PROVE  WaitInv'
  <2>1. pc = "assign" /\ pc' = "assign" /\ m_face' = m_face /\ j' = k
    BY <1>4 DEF Given, frame
  <2>2. Waiting(g)' /\ faces'[g].id = m_face[k].id /\ ~ Waiting(g)
    BY <1>4, SizesAssumption DEF Given, Waiting
  <2>3. ASSUME NEW s \in Slot, Waiting(s)
        PROVE  Waiting(s)' /\ faces'[s].id = faces[s].id
    <3>1. s # g
      BY <2>2, <2>3
    <3>2. faces'[s] = faces[s]
      BY <1>4, <3>1 DEF Given
    <3>3. QED
      BY <2>3, <3>2 DEF Waiting
  <2>4. ASSUME NEW l \in DOMAIN m_face, l <= k, m_face[l].id < IdBound
        PROVE  \E s \in Slot : Waiting(s)' /\ faces'[s].id = m_face[l].id
    <3>0. l \in Nat /\ k \in Nat /\ j \in Nat
      BY SizesAssumption DEF TypeInv, TypeOK
    <3>1. CASE l = k
      BY <2>2, <3>1
    <3>2. CASE l <= j
      BY <2>1, <2>3, <2>4, <3>2 DEF WaitInv
    <3>3. CASE j < l /\ l < k
      <4>1. HasSlot(m_face[l].id)
        BY <1>4, <2>4, <3>3 DEF Given
      <4>2. PICK s \in Slot :
              faces[s].lasttime > 0 /\ faces[s].id = m_face[l].id
        BY <4>1 DEF HasSlot
      <4>3. Waiting(s)
        BY <4>2 DEF Waiting, TypeInv, TypeOK, Free
      <4>4. QED
        BY <2>3, <4>2, <4>3
    <3>4. QED
      BY <2>4, <3>0, <3>1, <3>2, <3>3
  <2>5. QED
    BY <2>1, <2>4 DEF WaitInv, EveryUnknownFaceWaits
<1>5. CASE EndFrame
  <2>1. /\ pc = "assign" /\ pc' = "fetch"
        /\ m_face' = m_face /\ faces' = faces
        /\ Slotless = {} \/ FreeSlots = {}
    BY <1>5 DEF EndFrame, frame
  <2>2. ASSUME NEW k \in DOMAIN m_face, m_face[k].id < IdBound
        PROVE  \E s \in Slot : Waiting(s) /\ faces[s].id = m_face[k].id
    <3>1. SUFFICES ASSUME \A s \in Slot :
                            Waiting(s) => faces[s].id # m_face[k].id
                   PROVE  FALSE
      OBVIOUS
    <3>2. FreeSlots # {}
      BY <2>1, <3>1, NotAllTaken
    <3>3. ~ (k <= j)
      BY <2>1, <2>2, <3>1 DEF WaitInv
    <3>4. ~ HasSlot(m_face[k].id)
      BY <3>1 DEF HasSlot, Waiting, TypeInv, TypeOK, Free
    <3>5. k > j
      BY <3>3, SizesAssumption DEF TypeInv, TypeOK
    <3>6. k \in Slotless
      BY <2>2, <3>4, <3>5 DEF Slotless
    <3>7. QED
      BY <2>1, <3>2, <3>6
  <2>3. QED
    BY <2>1, <2>2 DEF WaitInv, EveryUnknownFaceWaits, Waiting
<1>6. CASE UNCHANGED vars
  BY <1>6 DEF vars, loop, frame, WaitInv, EveryUnknownFaceWaits, Waiting
<1>7. QED
  BY <1>2, <1>3, <1>4, <1>5, <1>6, WaitingRoomSteps

\* WaitInv is inductive, with the three before it.
LEMMA WaitAlways == Spec => []WaitInv
<1>1. Init => WaitInv
  BY DEF Init, WaitInv, EveryUnknownFaceWaits
<1>2. QED
  BY <1>1, TypeAlways, LeakAlways, TwoAlways, WaitStep, PTL DEF Spec

\* After a frame every unknown face in it waits in a slot, though a face may
\* hold two: there are always enough, because no slot leaks and no face has
\* three.  With one slot fewer than the assumption asks for it is false.
THEOREM EveryFaceGetsASlot == Spec => []EveryUnknownFaceWaits
<1>1. WaitInv => EveryUnknownFaceWaits
  BY DEF WaitInv
<1>2. QED
  BY <1>1, WaitAlways, PTL

-----------------------------------------------------------------------------
(* How long a face waits *)

\* The life of the process is too short for a difference of two of its times
\* to leave the range of an int: with the 5000 and 2^31 of the code, it is
\* shorter than 24 days and 20 hours.
ShortLife == MaxTime - MinTime + Wait < IntHalf

\* Either that, or the clock is never set back, and then it may run for ever.
ClockAssumption == Step \subseteq Nat \/ ShortLife

\* Slot s was given, or is as if it had been given, at time t.
TookAt(s, t) == t \in MinTime..MaxTime /\ faces[s].capTime = ToInt(t)

\* What is left of the limit is that of the times, as long as they are not
\* too far apart for an int.
LEMMA LeftOfTimes ==
    ASSUME TypeInv, curtime = ToInt(clock), i \in Slot, NEW t, TookAt(i, t)
    PROVE  /\ t + Wait - clock < IntHalf /\ Left < 0 => t + Wait < clock
           /\ t + Wait - clock < IntHalf /\ t + Wait > clock => Left > 0
           /\ ShortLife /\ Left >= 0 => t + Wait >= clock
<1> DEFINE x == t + Wait - clock
<1>1. /\ t \in MinTime..MaxTime /\ clock \in MinTime..MaxTime
      /\ {MinTime, MaxTime, Wait} \subseteq Nat /\ IntHalf \in Nat \ {0}
      /\ Wait < IntHalf
  BY SizesAssumption, SlotsAssumption DEF TookAt, TypeInv, TypeOK
<1>2. t \in Int /\ clock \in Int /\ Wait \in Int /\ x \in Int
  BY <1>1
<1>3. Left = ToInt(x)
  BY <1>2, ToIntOfDifference DEF Left, TookAt
<1>4. x \in Int32 => Left = x
  BY <1>3, ToIntSmall
<1>5. /\ x < IntHalf /\ x >= -IntHalf => Left = x
  BY <1>1, <1>2, <1>4 DEF Int32
<1>6. ShortLife => x < IntHalf /\ x >= -IntHalf
  BY <1>1 DEF ShortLife
<1>7. x < IntHalf /\ Left < 0 => x < 0
  BY <1>1, <1>2, <1>5
<1>8. x < IntHalf /\ x > 0 => Left > 0
  BY <1>1, <1>2, <1>5
<1>9. ShortLife /\ Left >= 0 => x >= 0
  BY <1>2, <1>5, <1>6
<1>10. QED
  BY <1>1, <1>7, <1>8, <1>9

\* Every slot was given at some time; in a frame in which all look here, a slot
\* that has been looked at and kept was given no longer than Wait ago.
TimeInv ==
    /\ curtime = ToInt(clock)
    /\ \A s \in Slot : faces[s].id # -1 => \E t \in Int : TookAt(s, t)
    /\ AllFrontal =>
         \A s \in Slot : Done(s) /\ Waiting(s) =>
           \E t \in Int : TookAt(s, t) /\ t >= clock - Wait
    /\ NobodyWaitsTooLong

\* In a short life a slot that is kept was taken within the limit.
LEMMA TimeStep ==
    ASSUME ShortLife
    PROVE  TypeInv /\ TimeInv /\ [Next]_vars => TimeInv'
<1> SUFFICES ASSUME TypeInv, TimeInv, [Next]_vars
             PROVE  TimeInv'
  OBVIOUS
<1>0. /\ Slot \subseteq Nat \ {0} /\ i \in Nat
      /\ clock \in Int /\ Wait \in Nat /\ MaxTime \in Nat /\ MinTime \in Nat
  BY SizesAssumption DEF Slot, TypeInv, TypeOK
<1>1. CASE RecognizeSome
  <2>1. /\ pc' = "slots" /\ i' = 0 /\ faces' = faces
        /\ curtime' = ToInt(clock)'
    BY <1>1, RecognizeType DEF RecognizeSome, Recognize, ToInt
  <2>2. \A s \in Slot : ~ Done(s)'
    BY <1>0, <2>1 DEF Done
  <2>3. QED
    BY <2>1, <2>2 DEF TimeInv, NobodyWaitsTooLong, TookAt
<1>2. ASSUME frame' = frame, pc' # "fetch",
             \A s \in Slot : faces'[s].id = faces[s].id
                             /\ faces'[s].capTime = faces[s].capTime,
             \A s \in Slot : AllFrontal /\ Done(s)' /\ Waiting(s)' =>
               \/ Done(s) /\ Waiting(s)
               \/ \E t \in Int : TookAt(s, t) /\ t >= clock - Wait
      PROVE  TimeInv'
  <2>1. clock' = clock /\ curtime' = curtime /\ (AllFrontal' <=> AllFrontal)
    BY <1>2 DEF frame, AllFrontal
  <2>2. \A s \in Slot : \A t \in Int : TookAt(s, t)' <=> TookAt(s, t)
    BY <1>2 DEF TookAt, ToInt
  <2>3. curtime' = ToInt(clock)'
    BY <2>1 DEF TimeInv, ToInt
  <2>4. ASSUME NEW s \in Slot, faces'[s].id # -1
        PROVE  \E t \in Int : TookAt(s, t)'
    BY <1>2, <2>2, <2>4 DEF TimeInv
  <2>5. ASSUME AllFrontal, NEW s \in Slot, Done(s)', Waiting(s)'
        PROVE  \E t \in Int : TookAt(s, t)' /\ t >= clock' - Wait
    <3>1. \E t \in Int : TookAt(s, t) /\ t >= clock - Wait
      BY <1>2, <2>5 DEF TimeInv
    <3>2. QED
      BY <2>1, <2>2, <3>1
  <2>6. QED
    BY <1>2, <2>1, <2>3, <2>4, <2>5 DEF TimeInv, NobodyWaitsTooLong
<1>3. CASE Entered
  <2>1. \A s \in Slot : faces'[s].id = faces[s].id
                        /\ faces'[s].capTime = faces[s].capTime
    BY <1>3 DEF Entered
  <2>2. ASSUME NEW s \in Slot, Done(s)', Waiting(s)'
        PROVE  Done(s) /\ Waiting(s)
    <3>1. s # i'
      BY <1>3, <2>2 DEF Entered, Waiting, Free
    <3>2. faces'[s] = faces[s] /\ Waiting(s)
      BY <1>3, <2>2, <3>1 DEF Entered, Waiting
    <3>3. s <= i
      BY <1>0, <1>3, <2>2, <3>1, <3>2 DEF Entered, Done
    <3>4. QED
      BY <1>3, <3>2, <3>3 DEF Entered, Done
  <2>3. QED
    BY <1>2, <1>3, <2>1, <2>2 DEF Entered
<1>4. CASE AtFace
  <2>1. \A s \in Slot : faces'[s].id = faces[s].id
                        /\ faces'[s].capTime = faces[s].capTime
    BY <1>4 DEF AtFace
  <2>2. ASSUME AllFrontal, NEW s \in Slot, Done(s)', Waiting(s)'
        PROVE  \/ Done(s) /\ Waiting(s)
               \/ \E t \in Int : TookAt(s, t) /\ t >= clock - Wait
    <3>1. CASE s # i
      BY <1>4, <2>2, <3>1 DEF AtFace, Done, Waiting, InLoop
    <3>2. CASE s = i
      <4>1. faces[s].id # -1
        <5>1. PICK k \in DOMAIN m_face : faces[i].id = m_face[k].id
          BY <1>4 DEF AtFace, Ids
        <5>2. QED
          BY <3>2, <5>1, FaceIdType
      <4>2. PICK t \in Int : TookAt(s, t)
        BY <4>1 DEF TimeInv
      <4>3. Left >= 0
        BY <1>4, <2>2, <3>2 DEF AtFace
      <4>4. t + Wait >= clock
        BY <3>2, <4>2, <4>3, LeftOfTimes DEF TimeInv
      <4>5. QED
        BY <1>0, <4>2, <4>4
    <3>3. QED
      BY <3>1, <3>2
  <2>3. frame' = frame /\ pc' # "fetch"
    BY <1>4 DEF AtFace, InLoop
  <2>4. QED
    BY <1>2, <2>1, <2>2, <2>3
<1>5. CASE Registers
  BY <1>2, <1>5 DEF Registers, Done, Waiting, InLoop
<1>6. CASE EndSlots
  <2>1. \A s \in Slot : Waiting(s) => s <= i
    BY <1>0, <1>6 DEF EndSlots, LaterSlots
  <2>2. /\ pc = "slots" /\ pc' = "assign" /\ faces' = faces /\ frame' = frame
    BY <1>6 DEF EndSlots
  <2>3. \A s \in Slot : Waiting(s)' => Done(s) /\ Waiting(s)
    BY <2>1, <2>2 DEF Waiting, Done, InLoop
  <2>4. QED
    BY <1>2, <2>2, <2>3
<1>7. ASSUME NEW g \in Slot, NEW k \in DOMAIN m_face, Given(g, k)
      PROVE  TimeInv'
  <2>1. /\ clock' = clock /\ curtime' = curtime /\ (AllFrontal' <=> AllFrontal)
        /\ pc = "assign" /\ pc' = "assign"
    BY <1>7 DEF Given, frame, AllFrontal
  <2>2. curtime' = ToInt(clock)'
    BY <2>1 DEF TimeInv, ToInt
  <2>3. TookAt(g, clock)' /\ clock >= clock - Wait
    BY <1>0, <1>7, <2>1, <2>2 DEF Given, TookAt, TypeInv, TypeOK
  <2>4. ASSUME NEW s \in Slot, s # g
        PROVE  /\ faces'[s] = faces[s] /\ (Waiting(s)' => Waiting(s))
               /\ \A t \in Int : TookAt(s, t) => TookAt(s, t)'
    <3>1. faces'[s] = faces[s]
      BY <1>7, <2>4 DEF Given
    <3>2. QED
      BY <3>1 DEF Waiting, TookAt, ToInt
  <2>5. ASSUME NEW s \in Slot, faces'[s].id # -1
        PROVE  \E t \in Int : TookAt(s, t)'
    BY <1>0, <2>1, <2>3, <2>4, <2>5 DEF TimeInv
  <2>6. ASSUME AllFrontal, NEW s \in Slot, Waiting(s)'
        PROVE  \E t \in Int : TookAt(s, t)' /\ t >= clock - Wait
    <3>1. CASE s = g
      BY <1>0, <2>1, <2>3, <3>1
    <3>2. CASE s # g
      <4>1. \E t \in Int : TookAt(s, t) /\ t >= clock - Wait
        BY <2>1, <2>4, <2>6, <3>2 DEF TimeInv, Done
      <4>2. QED
        BY <2>4, <3>2, <4>1
    <3>3. QED
      BY <3>1, <3>2
  <2>7. QED
    BY <2>1, <2>2, <2>5, <2>6 DEF TimeInv, NobodyWaitsTooLong
<1>8. CASE EndFrame
  <2>1. /\ pc = "assign" /\ pc' = "fetch" /\ frame' = frame /\ faces' = faces
        /\ clock' = clock /\ curtime' = curtime /\ m_face' = m_face
        /\ i' = 0
    BY <1>8 DEF EndFrame, frame
  <2>2. \A s \in Slot : ~ Done(s)'
    BY <2>1 DEF Done, InLoop
  <2>3. \A s \in Slot : \A t \in Int : TookAt(s, t) => TookAt(s, t)'
    BY <2>1 DEF TookAt, ToInt
  <2>4. curtime' = ToInt(clock)'
    BY <2>1 DEF TimeInv, ToInt
  <2>5. ASSUME AllFrontal, NEW s \in Slot, Waiting(s)
        PROVE  \E t \in (clock - Wait)..MaxTime : faces[s].capTime = ToInt(t)
    <3>1. PICK t \in Int : TookAt(s, t) /\ t >= clock - Wait
      BY <2>1, <2>5 DEF TimeInv, Done
    <3>2. t \in (clock - Wait)..MaxTime /\ faces[s].capTime = ToInt(t)
      BY <1>0, <3>1 DEF TookAt
    <3>3. QED
      BY <3>2
  <2>6. NobodyWaitsTooLong'
    BY <2>1, <2>5 DEF NobodyWaitsTooLong, AllFrontal, Waiting, ToInt
  <2>7. QED
    BY <2>1, <2>2, <2>3, <2>4, <2>6 DEF TimeInv
<1>9. CASE UNCHANGED vars
  BY <1>9 DEF vars, loop, frame, TimeInv, NobodyWaitsTooLong, TookAt, Done,
              Waiting, InLoop, AllFrontal, ToInt
<1>10. QED
  BY <1>1, <1>3, <1>4, <1>5, <1>6, <1>7, <1>8, <1>9, WaitingRoomSteps

\* In a process that lives for less than 24 days, a face whose limit is over
\* has been through Register by the end of a frame in which all look here:
\* that the int has gone round, as it did long before the process started and
\* may do again while a face waits, lets nobody wait for ever.
THEOREM LimitIsKept ==
    ASSUME ShortLife
    PROVE  Spec => []NobodyWaitsTooLong
<1>1. Init => TimeInv
  <2>1. SUFFICES ASSUME Init
                 PROVE  TimeInv
    OBVIOUS
  <2>2. \A s \in Slot : faces[s].id = -1
    BY <2>1 DEF Init
  <2>3. curtime = ToInt(clock) /\ (\A s \in Slot : ~ Done(s))
    BY <2>1 DEF Init, Done, InLoop
  <2>4. QED
    BY <2>2, <2>3 DEF TimeInv, NobodyWaitsTooLong
<1>2. TypeInv /\ TimeInv /\ [Next]_vars => TimeInv'
  BY TimeStep
<1>3. TimeInv => NobodyWaitsTooLong
  BY DEF TimeInv
<1>4. QED
  BY <1>1, <1>2, <1>3, TypeAlways, PTL DEF Spec

\* The slot holds the face and will still have time left at the end of the
\* frame: its turn is yet to come, or is now, or has been and left some.
Keeps(s, id) ==
    /\ faces[s].id = id
    /\ \/ pc # "assign" /\ i < s /\ Waiting(s)
       \/ pc = "slots" /\ i = s /\ LaterFaces # {}
       \/ Done(s) /\ faces[s].lasttime > 0

\* A slot was given after its face appeared.  If the clock has been set back
\* since the face appeared, its slot is not up: so a face is never given a
\* slot at a time before it came.
SinceInv ==
    /\ curtime = ToInt(clock)
    /\ \A id \in DOMAIN since :
         /\ since[id] \in MinTime..MaxTime
         /\ Step \subseteq Nat => since[id] <= clock
    /\ \A s \in Slot : Holds(s) /\ faces[s].id \in DOMAIN since =>
         \E t \in Int : /\ TookAt(s, t) /\ since[faces[s].id] <= t
                        /\ Step \subseteq Nat => t <= clock
    /\ pc # "fetch" =>
         \A id \in DOMAIN since : id < IdBound /\ since[id] > clock =>
           \E s \in Slot : Keeps(s, id)
    /\ RegisteredAfterWaiting

\* Under the clock's assumption no difference of two times is too large.
LEMMA NoOverflow ==
    ASSUME ClockAssumption, TypeInv, NEW t \in MinTime..MaxTime,
           Step \subseteq Nat => t <= clock
    PROVE  t + Wait - clock < IntHalf
<1>1. clock \in MinTime..MaxTime /\ {MinTime, MaxTime, Wait} \subseteq Nat
      /\ IntHalf \in Nat /\ Wait < IntHalf
  BY SizesAssumption, SlotsAssumption DEF TypeInv, TypeOK
<1>2. QED
  BY <1>1 DEF ClockAssumption, ShortLife

\* A new frame forgets since when a face has been there only if it is not.
LEMMA SinceRecognize ==
    ASSUME TypeInv, LeakInv, WaitInv, SinceInv, RecognizeSome
    PROVE  SinceInv'
<1>0. /\ Slot \subseteq Nat \ {0} /\ clock \in Int
      /\ {MinTime, MaxTime} \subseteq Nat
  BY SizesAssumption DEF Slot, TypeInv, TypeOK
<1>1. /\ pc = "fetch" /\ pc' = "slots" /\ i' = 0 /\ faces' = faces
      /\ curtime' = ToInt(clock)' /\ clock' \in MinTime..MaxTime
      /\ DOMAIN since' = Ids(m_face') /\ DOMAIN since = Ids(m_face)
      /\ Ids(m_face') \subseteq Nat
      /\ \A id \in DOMAIN since' :
           since'[id] = IF id \in DOMAIN since THEN since[id] ELSE clock'
  BY RecognizeType DEF RecognizeSome, Recognize, ToInt, TypeInv
<1>2. Step \subseteq Nat => clock <= clock'
  <2>1. PICK d \in Step : clock' = clock + d
    BY RecognizeType
  <2>2. QED
    BY <1>0, <2>1
<1>3. clock' \in Int
  BY <1>0, <1>1
<1>4. \A id \in DOMAIN since' :
        since'[id] \in MinTime..MaxTime
        /\ (Step \subseteq Nat => since'[id] <= clock')
  BY <1>0, <1>1, <1>2, <1>3 DEF SinceInv
<1>5. ASSUME NEW s \in Slot, Holds(s)', faces'[s].id \in DOMAIN since'
      PROVE  \E t \in Int : /\ TookAt(s, t)' /\ since'[faces'[s].id] <= t
                            /\ Step \subseteq Nat => t <= clock'
  <2>1. Waiting(s) /\ Holds(s)
    BY <1>0, <1>1, <1>5 DEF Holds, Waiting
  <2>2. faces[s].id \in DOMAIN since
    <3>1. faces[s].id \in Ids(m_face) \cup {-1}
      BY <1>1, <2>1 DEF LeakInv, NoSlotLeaked
    <3>2. faces[s].id \in Nat
      BY <1>1, <1>5
    <3>3. QED
      BY <1>1, <3>1, <3>2
  <2>3. PICK t \in Int : /\ TookAt(s, t) /\ since[faces[s].id] <= t
                         /\ Step \subseteq Nat => t <= clock
    BY <2>1, <2>2 DEF SinceInv
  <2>4. TookAt(s, t)' /\ since'[faces'[s].id] <= t
    BY <1>1, <1>5, <2>2, <2>3 DEF TookAt, ToInt
  <2>5. Step \subseteq Nat => t <= clock'
    BY <1>0, <1>2, <1>3, <2>3
  <2>6. QED
    BY <2>4, <2>5
<1>6. ASSUME NEW id \in DOMAIN since', id < IdBound, since'[id] > clock'
      PROVE  \E s \in Slot : Keeps(s, id)'
  <2>1. id \in DOMAIN since
    BY <1>1, <1>3, <1>6
  <2>2. PICK k \in DOMAIN m_face : id = m_face[k].id
    BY <1>1, <2>1 DEF Ids
  <2>3. PICK s \in Slot : Waiting(s) /\ faces[s].id = id
    BY <1>1, <1>6, <2>2 DEF WaitInv, EveryUnknownFaceWaits
  <2>4. Keeps(s, id)'
    BY <1>0, <1>1, <2>3 DEF Keeps, Waiting
  <2>5. QED
    BY <2>4
<1>7. QED
  BY <1>1, <1>4, <1>5, <1>6 DEF SinceInv, RegisteredAfterWaiting

\* A step that gives no slot keeps the times; what is left to show is that
\* nobody's slot runs out too early, and what Register is called with.
LEMMA SinceKept ==
    ASSUME TypeInv, SinceInv, frame' = frame,
           \A s \in Slot : Holds(s)' => /\ Holds(s)
                                        /\ faces'[s].id = faces[s].id
                                        /\ faces'[s].capTime = faces[s].capTime,
           pc' # "fetch" => pc # "fetch" /\
             \A s \in Slot : \A id \in DOMAIN since :
               id < IdBound /\ since[id] > clock /\ Keeps(s, id)
                 => Keeps(s, id)',
           RegisteredAfterWaiting'
    PROVE  SinceInv'
<1>1. clock' = clock /\ curtime' = curtime /\ since' = since
  BY DEF frame
<1>2. curtime' = ToInt(clock)'
  BY <1>1 DEF SinceInv, ToInt
<1>3. ASSUME NEW s \in Slot, Holds(s)', faces'[s].id \in DOMAIN since'
      PROVE  \E t \in Int : /\ TookAt(s, t)' /\ since'[faces'[s].id] <= t
                            /\ Step \subseteq Nat => t <= clock'
  <2>1. /\ Holds(s) /\ faces'[s].id = faces[s].id
        /\ faces'[s].capTime = faces[s].capTime
    BY <1>3
  <2>2. PICK t \in Int : /\ TookAt(s, t) /\ since[faces[s].id] <= t
                         /\ Step \subseteq Nat => t <= clock
    BY <1>1, <1>3, <2>1 DEF SinceInv
  <2>3. TookAt(s, t)'
    BY <2>1, <2>2 DEF TookAt, ToInt
  <2>4. QED
    BY <1>1, <2>1, <2>2, <2>3
<1>4. ASSUME pc' # "fetch", NEW id \in DOMAIN since', id < IdBound,
             since'[id] > clock'
      PROVE  \E s \in Slot : Keeps(s, id)'
  <2>1. PICK s \in Slot : Keeps(s, id)
    BY <1>1, <1>4 DEF SinceInv
  <2>2. QED
    BY <1>1, <1>4, <2>1
<1>5. QED
  BY <1>1, <1>2, <1>3, <1>4 DEF SinceInv

\* A face that has waited was there all the time its slot was kept.
LEMMA SinceAtFace ==
    ASSUME ClockAssumption, TypeInv, SinceInv, AtFace
    PROVE  SinceInv'
<1>0. /\ Slot \subseteq Nat \ {0} /\ i \in Slot /\ clock \in Int /\ Wait \in Nat
      /\ {MinTime, MaxTime} \subseteq Nat
  BY SizesAssumption DEF Slot, TypeInv, TypeOK, AtFace
<1>1. /\ frame' = frame /\ since' = since /\ clock' = clock /\ i' = i
      /\ pc \notin {"fetch", "assign"} /\ pc' \notin {"fetch", "assign"}
  BY DEF AtFace, frame, InLoop
<1>2. \A s \in Slot : Holds(s)' => /\ Holds(s)
                                   /\ faces'[s].id = faces[s].id
                                   /\ faces'[s].capTime = faces[s].capTime
  BY <1>1 DEF AtFace, Holds, Waiting
<1>3. faces[i].id \in DOMAIN since /\ Holds(i)
  BY DEF AtFace, TypeInv, Holds
<1>4. PICK t \in Int : /\ TookAt(i, t) /\ since[faces[i].id] <= t
                       /\ Step \subseteq Nat => t <= clock
  BY <1>0, <1>3 DEF SinceInv
<1>5. t + Wait - clock < IntHalf /\ since[faces[i].id] \in Int
  BY <1>0, <1>3, <1>4, NoOverflow DEF SinceInv, TookAt
<1>6. ASSUME NEW s \in Slot, NEW id \in DOMAIN since, since[id] > clock,
             Keeps(s, id)
      PROVE  Keeps(s, id)'
  <2>1. CASE s = i
    <3>1. t + Wait > clock
      BY <1>0, <1>4, <1>5, <1>6, <2>1 DEF Keeps
    <3>2. Left > 0
      BY <1>0, <1>4, <1>5, <3>1, LeftOfTimes DEF SinceInv
    <3>3. Left \in Int
      BY <1>0, LeftType, SizesAssumption DEF Int32
    <3>4. faces'[i].lasttime > 0
      BY <3>2, <3>3 DEF AtFace
    <3>5. Done(s)'
      BY <1>0, <1>1, <2>1 DEF AtFace, Done
    <3>6. QED
      BY <1>6, <2>1, <3>4, <3>5 DEF Keeps, AtFace
  <2>2. CASE s # i
    <3>1. faces'[s] = faces[s]
      BY <2>2 DEF AtFace
    <3>2. CASE pc # "assign" /\ i < s /\ Waiting(s)
      BY <1>1, <1>6, <3>1, <3>2 DEF Keeps, Waiting
    <3>3. CASE Done(s) /\ faces[s].lasttime > 0
      BY <1>1, <1>6, <3>1, <3>3 DEF Keeps, Done, AtFace
    <3>4. QED
      BY <1>6, <2>2, <3>2, <3>3 DEF Keeps
  <2>3. QED
    BY <2>1, <2>2
<1>7. RegisteredAfterWaiting'
  <2>1. SUFFICES ASSUME pc' = "register"
                 PROVE  /\ faces'[i'].id \in DOMAIN since'
                        /\ since'[faces'[i'].id] + Wait < clock'
    BY DEF RegisteredAfterWaiting
  <2>2. Left < 0
    BY <2>1 DEF AtFace
  <2>3. t + Wait < clock
    BY <1>0, <1>4, <1>5, <2>2, LeftOfTimes DEF SinceInv
  <2>4. since[faces[i].id] + Wait < clock
    BY <1>0, <1>4, <1>5, <2>3
  <2>5. faces'[i'].id = faces[i].id
    BY <1>1 DEF AtFace
  <2>6. QED
    BY <1>1, <1>3, <2>4, <2>5
<1>8. QED
  BY <1>1, <1>2, <1>6, <1>7, SinceKept

\* Slots that are given up ask nothing of their faces.
LEMMA SinceEntered ==
    ASSUME TypeInv, SinceInv, Entered
    PROVE  SinceInv'
<1>0. Slot \subseteq Nat \ {0} /\ i \in Nat /\ i' \in Slot
  BY SizesAssumption DEF Slot, TypeInv, TypeOK, Entered
<1>1. /\ frame' = frame /\ since' = since /\ m_face' = m_face
      /\ InLoop /\ pc # "assign" /\ pc # "fetch" /\ pc' = "slots"
  BY DEF Entered, frame, InLoop
<1>2. \A s \in Slot : Holds(s)' => /\ Holds(s)
                                   /\ faces'[s].id = faces[s].id
                                   /\ faces'[s].capTime = faces[s].capTime
  BY DEF Entered, Holds, Waiting
<1>3. ASSUME NEW s \in Slot, NEW id \in DOMAIN since, Keeps(s, id)
      PROVE  Keeps(s, id)'
  <2>1. CASE i < s /\ Waiting(s) /\ s # i'
    <3>1. ~ (s < i')
      BY <2>1 DEF Entered
    <3>2. i' < s
      BY <1>0, <2>1, <3>1
    <3>3. faces'[s] = faces[s]
      BY <2>1 DEF Entered
    <3>4. QED
      BY <1>1, <1>3, <2>1, <3>2, <3>3 DEF Keeps, Waiting
  <2>2. CASE s = i'
    <3>1. faces'[s].id = id
      BY <1>3, <2>2 DEF Keeps, Entered
    <3>2. PICK k \in DOMAIN m_face : m_face[k].id = id
      BY <1>3 DEF TypeInv, Ids
    <3>3. k > 0
      BY <3>2 DEF TypeInv, TypeOK
    <3>4. k \in LaterFaces'
      BY <1>0, <1>1, <2>2, <3>1, <3>2, <3>3 DEF Entered, LaterFaces, Slot
    <3>5. QED
      BY <1>1, <2>2, <3>1, <3>4 DEF Keeps
  <2>3. CASE Done(s) /\ faces[s].lasttime > 0 /\ s # i'
    <3>0. faces'[s] = faces[s]
      BY <1>1, <2>3 DEF Entered
    <3>1. faces'[s] = faces[s] /\ s <= i'
      BY <1>0, <1>1, <2>3, <3>0 DEF Entered, Done
    <3>2. Done(s)'
      BY <1>1, <3>1 DEF Done, InLoop
    <3>3. QED
      BY <1>3, <2>3, <3>1, <3>2 DEF Keeps
  <2>4. LaterFaces = {}
    BY DEF Entered
  <2>5. QED
    BY <1>3, <2>1, <2>2, <2>3, <2>4 DEF Keeps
<1>4. RegisteredAfterWaiting'
  BY <1>1 DEF RegisteredAfterWaiting
<1>5. QED
  BY <1>1, <1>2, <1>3, <1>4, SinceKept

\* After the slots whatever is kept is in the frame.
LEMMA SinceEndSlots ==
    ASSUME TypeInv, SinceInv, EndSlots
    PROVE  SinceInv'
<1>0. Slot \subseteq Nat \ {0} /\ i \in Nat
  BY SizesAssumption DEF Slot, TypeInv, TypeOK
<1>1. /\ frame' = frame /\ faces' = faces
      /\ pc = "slots" /\ pc' = "assign" /\ i' = 0 /\ LaterFaces = {}
      /\ \A s \in Slot : Waiting(s) => s <= i
  BY <1>0 DEF EndSlots, LaterSlots
<1>2. \A s \in Slot : Holds(s)' => /\ Holds(s)
                                   /\ faces'[s].id = faces[s].id
                                   /\ faces'[s].capTime = faces[s].capTime
  BY <1>0, <1>1 DEF Holds, Waiting
<1>3. ASSUME NEW s \in Slot, NEW id \in DOMAIN since, Keeps(s, id)
      PROVE  Keeps(s, id)'
  <2>1. ~ (i < s /\ Waiting(s))
    BY <1>0, <1>1
  <2>2. faces[s].id = id /\ faces[s].lasttime > 0
    BY <1>1, <1>3, <2>1 DEF Keeps
  <2>3. QED
    BY <1>1, <2>2 DEF Keeps, Done
<1>4. RegisteredAfterWaiting'
  BY <1>1 DEF RegisteredAfterWaiting
<1>5. QED
  BY <1>1, <1>2, <1>3, <1>4, SinceKept

\* A face that came at a later time than the clock has now is not without time
\* left, so the time a slot is given is not before its face came.
LEMMA SinceGiven ==
    ASSUME TypeInv, SinceInv, NEW g \in Slot, NEW k \in DOMAIN m_face,
           Given(g, k)
    PROVE  SinceInv'
<1> DEFINE id == m_face[k].id
<1>0. /\ clock \in MinTime..MaxTime /\ clock \in Int
      /\ {MinTime, MaxTime} \subseteq Nat
  BY SizesAssumption DEF TypeInv, TypeOK
<1>1. /\ since' = since /\ clock' = clock /\ curtime' = curtime
      /\ pc = "assign" /\ pc' = "assign" /\ i = 0 /\ i' = 0
      /\ 0 \notin Slot
      /\ faces'[g].id = id /\ faces'[g].capTime = curtime
      /\ id < IdBound /\ ~ HasSlot(id)
  BY Places DEF Given, frame
<1>2. id \in DOMAIN since
  BY DEF TypeInv, Ids
<1> HIDE DEF id
<1>3. ASSUME NEW s \in Slot, s # g
      PROVE  /\ faces'[s] = faces[s] /\ (Holds(s)' => Holds(s))
             /\ \A t \in Int : TookAt(s, t) => TookAt(s, t)'
  <2>1. faces'[s] = faces[s]
    BY <1>3 DEF Given
  <2>2. QED
    BY <1>1, <2>1 DEF Holds, Waiting, TookAt, ToInt
<1>4. \A s \in Slot : \A n : Keeps(s, n) => HasSlot(n)
  BY <1>1 DEF Keeps, HasSlot
<1>5. since[id] <= clock
  <2>1. ~ (since[id] > clock)
    BY <1>1, <1>2, <1>4 DEF SinceInv
  <2>2. since[id] \in Int
    BY <1>0, <1>2 DEF SinceInv
  <2>3. QED
    BY <1>0, <2>1, <2>2
<1>6. curtime' = ToInt(clock)'
  BY <1>1 DEF SinceInv, ToInt
<1>7. TookAt(g, clock)'
  BY <1>0, <1>1, <1>6 DEF TookAt
<1>8. ASSUME NEW s \in Slot, Holds(s)', faces'[s].id \in DOMAIN since'
      PROVE  \E t \in Int : /\ TookAt(s, t)' /\ since'[faces'[s].id] <= t
                            /\ Step \subseteq Nat => t <= clock'
  <2>1. CASE s = g
    BY <1>0, <1>1, <1>5, <1>7, <2>1
  <2>2. CASE s # g
    <3>1. PICK t \in Int : /\ TookAt(s, t) /\ since[faces[s].id] <= t
                           /\ Step \subseteq Nat => t <= clock
      BY <1>1, <1>3, <1>8, <2>2 DEF SinceInv
    <3>2. QED
      BY <1>1, <1>3, <2>2, <3>1
  <2>3. QED
    BY <2>1, <2>2
<1>9. ASSUME NEW n \in DOMAIN since', n < IdBound, since'[n] > clock'
      PROVE  \E s \in Slot : Keeps(s, n)'
  <2>1. PICK s \in Slot : Keeps(s, n)
    BY <1>1, <1>9 DEF SinceInv
  <2>2. faces[s].lasttime > 0 /\ faces[s].id = n
    BY <1>1, <2>1 DEF Keeps
  <2>3. s # g
    BY <2>2 DEF Given, Waiting, TypeInv, TypeOK, Free
  <2>4. Keeps(s, n)'
    BY <1>1, <1>3, <2>2, <2>3 DEF Keeps, Done
  <2>5. QED
    BY <2>4
<1>10. QED
  BY <1>1, <1>6, <1>8, <1>9 DEF SinceInv, RegisteredAfterWaiting

\* Every step keeps SinceInv.
LEMMA SinceStep ==
    ASSUME ClockAssumption
    PROVE  TypeInv /\ LeakInv /\ WaitInv /\ SinceInv /\ [Next]_vars => SinceInv'
<1> SUFFICES ASSUME TypeInv, LeakInv, WaitInv, SinceInv, [Next]_vars
             PROVE  SinceInv'
  OBVIOUS
<1>1. CASE Registers
  <2>1. /\ frame' = frame /\ faces' = faces /\ i' = i
        /\ InLoop /\ InLoop' /\ pc # "slots" /\ pc' # "register"
    BY <1>1 DEF Registers
  <2>2. \A s \in Slot : \A id : Keeps(s, id) => Keeps(s, id)'
    BY <2>1 DEF Keeps, Done, Waiting, InLoop
  <2>3. \A s \in Slot : Holds(s)' <=> Holds(s)
    BY <2>1 DEF Holds, Waiting
  <2>4. QED
    BY <2>1, <2>2, <2>3, SinceKept DEF RegisteredAfterWaiting, InLoop
<1>2. CASE EndFrame
  <2>1. /\ frame' = frame /\ faces' = faces /\ pc' = "fetch" /\ i' = 0 /\ i = 0
    BY <1>2 DEF EndFrame, TypeInv
  <2>2. \A s \in Slot : Holds(s)' <=> Holds(s)
    BY <2>1 DEF Holds, Waiting
  <2>3. QED
    BY <2>1, <2>2, SinceKept DEF RegisteredAfterWaiting
<1>3. CASE UNCHANGED vars
  BY <1>3 DEF vars, loop, frame, SinceInv, TookAt, Keeps, Holds, Done, Waiting,
              InLoop, LaterFaces, RegisteredAfterWaiting, ToInt
<1>4. QED
  BY <1>1, <1>2, <1>3, WaitingRoomSteps, SinceRecognize, SinceAtFace,
     SinceEntered, SinceEndSlots, SinceGiven

\* Nobody is registered in passing, not even when the clock is set back or the
\* int it is kept in has gone round: when Register is called, the face has
\* been in every frame for longer than Wait.  The clock may run for ever if it
\* is never set back, or be set back at will in a short life.
THEOREM NobodyRegisteredInPassing ==
    ASSUME ClockAssumption
    PROVE  Spec => []RegisteredAfterWaiting
<1>1. Init => SinceInv
  <2>1. SUFFICES ASSUME Init
                 PROVE  SinceInv
    OBVIOUS
  <2>2. DOMAIN since = {} /\ curtime = ToInt(clock) /\ pc = "fetch"
    BY <2>1 DEF Init
  <2>3. QED
    BY <2>2 DEF SinceInv, RegisteredAfterWaiting
<1>2. TypeInv /\ LeakInv /\ WaitInv /\ SinceInv /\ [Next]_vars => SinceInv'
  BY SinceStep
<1>3. SinceInv => RegisteredAfterWaiting
  BY DEF SinceInv
<1>4. QED
  BY <1>1, <1>2, <1>3, TypeAlways, LeakAlways, WaitAlways, PTL DEF Spec
=============================================================================
