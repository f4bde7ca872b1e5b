--------------------------- MODULE Suppress_proofs ---------------------------
(* Proofs about nms_boxes, for every list, every rule and every unit: the    *)
(* kept boxes do not cover each other, every other box is covered by a kept  *)
(* one of at least its score, and no quotient is divided by zero.            *)
EXTENDS Suppress, TLAPS

\* Covering does not depend on which of the two boxes comes first.
LEMMA OverSymmetric ==
    ASSUME NEW rule, NEW a, NEW b,
           a.x0 \in Int, a.y0 \in Int, a.x1 \in Int, a.y1 \in Int,
           b.x0 \in Int, b.y0 \in Int, b.x1 \in Int, b.y1 \in Int
    PROVE  Over(rule, a, b) <=> Over(rule, b, a)
<1> Unit \in Int
    BY UnitAssumption
<1>1. /\ InnerHigh(a, b) = InnerHigh(b, a)
      /\ InnerWide(a, b) = InnerWide(b, a)
    BY DEF InnerHigh, InnerWide, Smaller, Larger
<1>2. Inner(a, b) = Inner(b, a)
    BY <1>1 DEF Inner
<1>3. Area(a) \in Int /\ Area(b) \in Int
    BY DEF Area, High, Wide
<1>4. Smaller(Area(a), Area(b)) = Smaller(Area(b), Area(a))
    BY <1>3 DEF Smaller
<1>5. Whole(rule.type, a, b) = Whole(rule.type, b, a)
  <2>1. CASE rule.type = "union"
    <3>1. /\ Whole(rule.type, a, b) = Area(a) + Area(b) - Inner(a, b)
          /\ Whole(rule.type, b, a) = Area(b) + Area(a) - Inner(b, a)
        BY <2>1, Zenon DEF Whole
    <3>2. Inner(a, b) \in Int
        BY DEF Inner, InnerHigh, InnerWide, Smaller, Larger
    <3> QED
        BY <1>2, <1>3, <3>1, <3>2
  <2>2. CASE rule.type # "union"
    BY <1>4, <2>2, Zenon DEF Whole
  <2> QED
    BY <2>1, <2>2
<1> QED
    BY <1>1, <1>2, <1>5 DEF Over

\* A product of two integers does not grow when both become smaller.
LEMMA ProductMonotone ==
    ASSUME NEW h \in Int, NEW w \in Int, NEW H \in Int, NEW W \in Int,
           0 < h, 0 < w, h <= H, w <= W
    PROVE  /\ h * w \in Int
           /\ H * W \in Int
           /\ 0 < h * w
           /\ h * w <= H * W
<1>1. h * w <= H * w
    BY Z3
<1>2. H * w <= H * W
    BY Z3
<1>3. 0 < h * w
    BY Z3
<1> QED
    BY <1>1, <1>2, <1>3

\* Boxes that share a part at all have areas above zero and not below that
\* part: neither kind of quotient is divided by zero or exceeds one, also for
\* boxes the regression has turned inside out.
THEOREM QuotientDefined ==
    ASSUME NEW type, NEW a \in Corners, NEW b \in Corners,
           InnerHigh(a, b) > 0, InnerWide(a, b) > 0
    PROVE  /\ Whole(type, a, b) > 0
           /\ Inner(a, b) <= Whole(type, a, b)
<1> Unit \in Int
    BY UnitAssumption
<1> /\ a.x0 \in Int /\ a.y0 \in Int /\ a.x1 \in Int /\ a.y1 \in Int
    /\ b.x0 \in Int /\ b.y0 \in Int /\ b.x1 \in Int /\ b.y1 \in Int
    BY DEF Corners
<1> DEFINE h == InnerHigh(a, b)
           w == InnerWide(a, b)
<1>1. /\ h \in Int /\ w \in Int
      /\ High(a) \in Int /\ Wide(a) \in Int
      /\ High(b) \in Int /\ Wide(b) \in Int
      /\ h <= High(a) /\ h <= High(b)
      /\ w <= Wide(a) /\ w <= Wide(b)
    BY DEF InnerHigh, InnerWide, High, Wide, Smaller, Larger
<1>2. 0 < h /\ 0 < w
    BY <1>1
<1> HIDE DEF h, w
<1>3. /\ h * w \in Int /\ 0 < h * w
      /\ Area(a) \in Int /\ h * w <= Area(a)
    BY <1>1, <1>2, ProductMonotone DEF Area
<1>4. Area(b) \in Int /\ h * w <= Area(b)
    BY <1>1, <1>2, ProductMonotone DEF Area
<1>5. Inner(a, b) = h * w
    BY DEF Inner, h, w
<1> DEFINE n == h * w
<1>6. n \in Int /\ 0 < n /\ n <= Area(a) /\ n <= Area(b) /\ Inner(a, b) = n
    BY <1>3, <1>4, <1>5
<1> HIDE DEF n
<1> QED
    BY <1>3, <1>4, <1>6 DEF Whole, Smaller

-----------------------------------------------------------------------------

\* A list's domain and its members.
LEMMA ListFacts ==
    ASSUME NEW list \in Lists
    PROVE  /\ Len(list) \in Nat
           /\ Len(list) <= MaxBoxes
           /\ DOMAIN list = 1..Len(list)
           /\ \A k \in DOMAIN list : list[k] \in Boxes
<1>1. PICK n \in 0..MaxBoxes : list \in [1..n -> Boxes]
    BY DEF Lists
<1>2. n \in Nat
    BY MaxBoxesAssumption
<1>3. list \in Seq(Boxes)
    BY <1>1, <1>2
<1>4. DOMAIN list = 1..n /\ Len(list) = n
    BY <1>1, <1>2, <1>3
<1> QED
    BY <1>1, <1>2, <1>4, MaxBoxesAssumption

\* What connects the sorted list, the marks and the kept boxes.
Merging ==
    pc = "merge" =>
        /\ Sorted(input)
        /\ \A j \in DOMAIN given : \E k \in DOMAIN input : input[k] = given[j]

\* Sorting makes up no box.
FromGiven == \A k \in DOMAIN input : \E j \in DOMAIN given : input[k] = given[j]

KeptSeen == kept \subseteq 1..(i - 1)

SeenDecided == \A j \in DOMAIN input : j < i => (j \in kept \/ merged[j])

MergedByKept ==
    \A j \in DOMAIN input :
        merged[j] => \E k \in kept : k < j /\ Covers(input[k], input[j])

KeptMerges ==
    \A k \in kept : \A j \in DOMAIN input :
        (j > k /\ Covers(input[k], input[j])) => merged[j]

KeptNotMerged == \A k \in kept : ~merged[k]

StartsEmpty == pc = "sort" => (i = 1 /\ kept = {})

IInv ==
    /\ TypeOK
    /\ StartsEmpty
    /\ Merging
    /\ FromGiven
    /\ KeptSeen
    /\ SeenDecided
    /\ MergedByKept
    /\ KeptMerges
    /\ KeptNotMerged

\* Nothing is merged or kept at the start.
LEMMA InitIInv == Init => IInv
<1> SUFFICES ASSUME Init PROVE IInv
    OBVIOUS
<1> USE DEF Init
<1>1. given \in Lists /\ Len(given) \in Nat /\ DOMAIN given = 1..Len(given)
    BY ListFacts
<1>2. TypeOK
    BY <1>1 DEF TypeOK
<1>3. /\ StartsEmpty /\ Merging /\ FromGiven
      /\ KeptSeen /\ KeptMerges /\ KeptNotMerged
    BY DEF StartsEmpty, Merging, FromGiven, KeptSeen, KeptMerges, KeptNotMerged
<1>4. SeenDecided /\ MergedByKept
    BY <1>1 DEF SeenDecided, MergedByKept
<1> QED
    BY <1>2, <1>3, <1>4 DEF IInv

\* Sorting keeps the boxes and puts the best first.
LEMMA SortIInv == IInv /\ Sort => IInv'
<1> SUFFICES ASSUME IInv, Sort PROVE IInv'
    OBVIOUS
<1>1. /\ given \in Lists /\ pc = "sort" /\ i = 1 /\ kept = {}
      /\ DOMAIN input = DOMAIN given
      /\ merged \in [DOMAIN given -> BOOLEAN]
    BY DEF IInv, TypeOK, StartsEmpty, Sort
<1>2. DOMAIN given = 1..Len(given) /\ Len(given) \in 0..MaxBoxes
    BY <1>1, ListFacts, MaxBoxesAssumption
<1>3. PICK p \in Orders(given) :
        input' = [k \in DOMAIN given |-> given[p[k]]]
    BY DEF Sort
<1>4. /\ p \in [DOMAIN given -> DOMAIN given]
      /\ \A k \in DOMAIN given : \E j \in DOMAIN given : p[j] = k
    BY <1>3 DEF Orders
<1>5. input' \in [1..Len(given) -> Boxes]
    BY <1>1, <1>2, <1>3, <1>4, ListFacts
<1>6. input' \in Lists /\ DOMAIN input' = DOMAIN given
    BY <1>2, <1>5 DEF Lists
<1>7. /\ UNCHANGED <<given, merged, kept, i>> /\ pc' = "merge"
      /\ Sorted(input')
    BY DEF Sort
<1>8. TypeOK'
  <2>1. Len(input') = Len(given)
    BY <1>1, <1>2, <1>6, ListFacts
  <2> QED
    BY <1>1, <1>2, <1>6, <1>7, <2>1 DEF TypeOK
<1>9. Merging' /\ FromGiven'
    BY <1>3, <1>4, <1>6, <1>7 DEF Merging, FromGiven
<1>10. StartsEmpty' /\ KeptSeen' /\ KeptMerges' /\ KeptNotMerged'
    BY <1>1, <1>7 DEF StartsEmpty, KeptSeen, KeptMerges, KeptNotMerged
<1>11. SeenDecided'
    BY <1>1, <1>2, <1>6, <1>7 DEF SeenDecided
<1>12. MergedByKept'
  <2>1. \A j \in DOMAIN given : ~merged[j]
    BY <1>1 DEF IInv, MergedByKept
  <2> QED
    BY <2>1, <1>6, <1>7 DEF MergedByKept
<1> QED
    BY <1>8, <1>9, <1>10, <1>11, <1>12 DEF IInv

\* A merged box is passed.
LEMMA SkipIInv == IInv /\ Skip => IInv'
<1> SUFFICES ASSUME IInv, Skip PROVE IInv'
    OBVIOUS
<1>1. /\ UNCHANGED <<given, input, merged, kept, pc>>
      /\ pc = "merge" /\ i \in DOMAIN input /\ merged[i] /\ i' = i + 1
    BY DEF Skip
<1>2. /\ input \in Lists /\ DOMAIN input = 1..Len(input)
      /\ Len(input) \in Nat /\ i \in 1..Len(input)
    BY <1>1, ListFacts DEF IInv, TypeOK
<1>3. TypeOK'
    BY <1>1, <1>2 DEF IInv, TypeOK
<1>4. KeptSeen'
    BY <1>1, <1>2 DEF IInv, KeptSeen
<1>5. SeenDecided'
    BY <1>1, <1>2 DEF IInv, SeenDecided
<1>6. /\ StartsEmpty' /\ Merging' /\ FromGiven' /\ MergedByKept'
      /\ KeptMerges' /\ KeptNotMerged'
    BY <1>1 DEF IInv, StartsEmpty, Merging, FromGiven, MergedByKept, KeptMerges,
                KeptNotMerged, Sorted
<1> QED
    BY <1>3, <1>4, <1>5, <1>6 DEF IInv

\* A box that is kept merges those behind it that it covers.
LEMMA KeepIInv == IInv /\ Keep => IInv'
<1> SUFFICES ASSUME IInv, Keep PROVE IInv'
    OBVIOUS
<1>1. /\ UNCHANGED <<given, input, pc>>
      /\ pc = "merge" /\ i \in DOMAIN input /\ ~merged[i] /\ i' = i + 1
      /\ kept' = kept \cup {i}
    BY DEF Keep
<1>2. merged' = [j \in DOMAIN input |->
                    merged[j] \/ (j > i /\ Covers(input[i], input[j]))]
    BY DEF Keep
<1>3. /\ input \in Lists /\ DOMAIN input = 1..Len(input)
      /\ Len(input) \in Nat /\ i \in 1..Len(input)
      /\ merged \in [DOMAIN input -> BOOLEAN]
    BY <1>1, ListFacts DEF IInv, TypeOK
<1>4. \A j \in DOMAIN input :
        merged'[j] <=> (merged[j] \/ (j > i /\ Covers(input[i], input[j])))
    BY <1>2, Zenon
<1>5. kept \subseteq 1..(i - 1)
    BY DEF IInv, KeptSeen
<1>6. TypeOK'
  <2>1. merged' \in [DOMAIN input -> BOOLEAN]
    <3>1. \A j \in DOMAIN input :
            (merged[j] \/ (j > i /\ Covers(input[i], input[j]))) \in BOOLEAN
        OBVIOUS
    <3> QED
        BY <1>2, <3>1, Zenon
  <2> QED
    BY <1>1, <1>3, <2>1 DEF IInv, TypeOK
<1>7. KeptSeen'
  <2>1. i \in Nat /\ i >= 1
    BY <1>3
  <2>2. (1..(i - 1)) \cup {i} \subseteq 1..((i + 1) - 1)
    BY <2>1
  <2>3. kept' \subseteq 1..((i + 1) - 1)
    BY <1>1, <1>5, <2>2, Zenon
  <2> QED
    BY <1>1, <2>3, Zenon DEF KeptSeen
<1>8. SeenDecided'
    BY <1>1, <1>3, <1>4 DEF IInv, SeenDecided
<1>9. MergedByKept'
    BY <1>1, <1>3, <1>4 DEF IInv, MergedByKept
<1>10. KeptMerges'
    BY <1>1, <1>3, <1>4 DEF IInv, KeptMerges
<1>11. KeptNotMerged'
  <2>1. ~merged'[i]
    BY <1>1, <1>3, <1>4
  <2>2. ASSUME NEW k \in kept PROVE ~merged'[k]
    BY <1>3, <1>4, <1>5 DEF IInv, KeptNotMerged
  <2> QED
    BY <1>1, <2>1, <2>2 DEF KeptNotMerged
<1>12. StartsEmpty' /\ Merging' /\ FromGiven'
    BY <1>1 DEF IInv, StartsEmpty, Merging, FromGiven, Sorted
<1> QED
    BY <1>6, <1>7, <1>8, <1>9, <1>10, <1>11, <1>12 DEF IInv

\* IInv is inductive.
LEMMA NextIInv == IInv /\ [Next]_vars => IInv'
<1>1. ASSUME IInv, UNCHANGED vars PROVE IInv'
    BY <1>1 DEF vars, IInv, TypeOK, StartsEmpty, Merging, FromGiven,
                KeptSeen, SeenDecided, MergedByKept, KeptMerges, KeptNotMerged, Sorted
<1> QED
    BY <1>1, SortIInv, SkipIInv, KeepIInv DEF Next, Finished

\* And so holds always.
LEMMA SpecIInv == Spec => []IInv
<1> QED
    BY InitIInv, NextIInv, PTL DEF Spec

-----------------------------------------------------------------------------

\* The variables of nms_boxes keep their types and the outer loop never
\* passes the end of the list.
THEOREM SuppressTypes == Spec => []TypeOK
<1>1. IInv => TypeOK
    BY DEF IInv
<1> QED
    BY <1>1, SpecIInv, PTL

\* Of two kept boxes the first would have merged the other.
LEMMA IInvApart == IInv => KeptApart
<1> SUFFICES ASSUME IInv, NEW j \in kept, NEW k \in kept, j # k
             PROVE  ~Covers(input[j], input[k])
    BY DEF KeptApart
<1>1. /\ input \in Lists /\ kept \subseteq DOMAIN input
      /\ DOMAIN input = 1..Len(input) /\ Len(input) \in Nat
    BY ListFacts DEF IInv, TypeOK
<1>2. input[j] \in Boxes /\ input[k] \in Boxes
    BY <1>1, ListFacts
<1>3. ~merged[j] /\ ~merged[k]
    BY DEF IInv, KeptNotMerged
<1>4. CASE j < k
    BY <1>1, <1>3, <1>4 DEF IInv, KeptMerges
<1>5. CASE k < j
  <2>1. ~Covers(input[k], input[j])
    BY <1>1, <1>3, <1>5 DEF IInv, KeptMerges
  <2> QED
    BY <1>2, <2>1, BoxesAssumption, OverSymmetric DEF Covers
<1> QED
    BY <1>1, <1>4, <1>5

\* No two boxes that nms_boxes keeps cover each other by more than its
\* threshold, for every list and threshold.
THEOREM SuppressApart == Spec => []KeptApart
<1> QED
    BY SpecIInv, IInvApart, PTL

\* At the end every box was decided.
LEMMA IInvCovered == IInv => DroppedCovered
<1> SUFFICES ASSUME IInv, pc = "merge", i > Len(input),
                    NEW j \in DOMAIN given
             PROVE  \E k \in kept :
                        \/ input[k] = given[j]
                        \/ /\ Covers(input[k], given[j])
                           /\ input[k].score >= given[j].score
    BY DEF DroppedCovered
<1>1. /\ input \in Lists /\ kept \subseteq DOMAIN input
      /\ DOMAIN input = 1..Len(input) /\ Len(input) \in Nat /\ i \in Int
    BY ListFacts DEF IInv, TypeOK
<1>2. PICK m \in DOMAIN input : input[m] = given[j]
    BY DEF IInv, Merging
<1>3. m \in kept \/ merged[m]
    BY <1>1 DEF IInv, SeenDecided
<1>4. CASE m \in kept
    BY <1>2, <1>4
<1>5. CASE merged[m]
  <2>1. PICK k \in kept : k < m /\ Covers(input[k], input[m])
    BY <1>5 DEF IInv, MergedByKept
  <2>2. input[k].score >= input[m].score
    BY <1>1, <2>1 DEF IInv, Merging, Sorted
  <2> QED
    BY <1>2, <2>1, <2>2
<1> QED
    BY <1>3, <1>4, <1>5

\* When nms_boxes is done every box of the caller's list is kept or covered
\* by a kept one with at least its score.
THEOREM SuppressCovered == Spec => []DroppedCovered
<1> QED
    BY SpecIInv, IInvCovered, PTL

-----------------------------------------------------------------------------

\* The list the caller has and the one it is given back, as sets of boxes.
Given == {given[j] : j \in DOMAIN given}
Result == {input[k] : k \in kept}

\* What the three facts above say together.
LEMMA IInvSuppressed ==
    ASSUME IInv, pc = "merge", i > Len(input)
    PROVE  Result \in Suppressed(Given, Rule)
<1>1. kept \subseteq DOMAIN input
    BY DEF IInv, TypeOK
<1>2. Result \subseteq Given
    BY <1>1 DEF IInv, FromGiven, Given, Result
<1>3. \A a, b \in Result : a # b => ~Over(Rule, a, b)
  <2> SUFFICES ASSUME NEW j \in kept, NEW k \in kept, input[j] # input[k]
               PROVE  ~Over(Rule, input[j], input[k])
    BY DEF Result
  <2>1. j # k
    OBVIOUS
  <2> QED
    BY <2>1, IInvApart DEF KeptApart, Covers
<1>4. \A b \in Given \ Result :
        \E a \in Result : Over(Rule, a, b) /\ a.score >= b.score
  <2> SUFFICES ASSUME NEW j \in DOMAIN given, given[j] \notin Result
               PROVE  \E a \in Result : /\ Over(Rule, a, given[j])
                                       /\ a.score >= given[j].score
    BY DEF Given
  <2>1. PICK k \in kept : \/ input[k] = given[j]
                          \/ /\ Covers(input[k], given[j])
                             /\ input[k].score >= given[j].score
    BY IInvCovered DEF DroppedCovered
  <2>2. input[k] \in Result
    BY DEF Result
  <2> QED
    BY <2>1, <2>2 DEF Covers
<1> QED
    BY <1>2, <1>3, <1>4 DEF Suppressed

\* The loops of nms_boxes give one of the sets Suppressed allows, which is
\* what the detector takes for a call of it: whatever is shown of the detector
\* holds with the loops in it.
THEOREM LoopsAreSuppressed ==
    Spec => [](pc = "merge" /\ i > Len(input) => Result \in Suppressed(Given, Rule))
<1>1. IInv => (pc = "merge" /\ i > Len(input) =>
                  Result \in Suppressed(Given, Rule))
    BY IInvSuppressed
<1> QED
    BY <1>1, SpecIInv, PTL

=============================================================================
