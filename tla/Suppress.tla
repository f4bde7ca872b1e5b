------------------------------ MODULE Suppress ------------------------------
(* nms_boxes (comm_lib.cpp): of boxes that cover each other only the best    *)
(* is kept.  The boxes are sorted by score, then every box that is not       *)
(* merged is kept and merges those behind it that it covers.  std::sort is   *)
(* not stable, so boxes of one score may come in any order.  The vector of   *)
(* kept boxes is the set of their places in the sorted list, which is also   *)
(* the order in which they are pushed.                                       *)
EXTENDS Overlap, Sequences

CONSTANTS
    Boxes,      \* boxes that can occur
    MaxBoxes,   \* bound on the length of the list
    Rule        \* the kind of suppression and its threshold

ASSUME BoxesAssumption ==
    \A b \in Boxes :
        /\ b.x0 \in Int
        /\ b.y0 \in Int
        /\ b.x1 \in Int
        /\ b.y1 \in Int
        /\ b.score \in Int
ASSUME MaxBoxesAssumption == MaxBoxes \in Nat
ASSUME RuleAssumption == Rule \in Rules

VARIABLES
    given,      \* the list as the caller has it
    input,      \* the list, sorted once pc is "merge"
    merged,     \* the boxes taken for one that is kept
    kept,       \* places of the boxes pushed to the output
    i,          \* the next place to look at
    pc

vars == <<given, input, merged, kept, i, pc>>

Lists == UNION {[1..n -> Boxes] : n \in 0..MaxBoxes}

Covers(a, b) == Over(Rule, a, b)

Sorted(list) ==
    \A j, k \in DOMAIN list : j < k => list[j].score >= list[k].score

\* All ways of going through a list.
Orders(list) ==
    {p \in [DOMAIN list -> DOMAIN list] :
        \A k \in DOMAIN list : \E j \in DOMAIN list : p[j] = k}

Init ==
    /\ given \in Lists
    /\ input = given
    /\ merged = [j \in DOMAIN given |-> FALSE]
    /\ kept = {}
    /\ i = 1
    /\ pc = "sort"

\* Deviation: the comparison of the sort is the other way round.
Sort_WorstFirst ==
    /\ pc = "sort"
    /\ \E p \in Orders(given) :
        /\ input' = [k \in DOMAIN given |-> given[p[k]]]
        /\ \A j, k \in DOMAIN given :
            j < k => given[p[j]].score <= given[p[k]].score
    /\ pc' = "merge"
    /\ UNCHANGED <<given, merged, kept, i>>

Sort ==
    /\ pc = "sort"
    /\ \E p \in Orders(given) :
        input' = [k \in DOMAIN given |-> given[p[k]]]
    /\ Sorted(input')
    /\ pc' = "merge"
    /\ UNCHANGED <<given, merged, kept, i>>

Skip ==
    /\ pc = "merge"
    /\ i \in DOMAIN input
    /\ merged[i]
    /\ i' = i + 1
    /\ UNCHANGED <<given, input, merged, kept, pc>>

\* Deviation: the inner loop stops after one box.
Keep_NextOnly ==
    /\ pc = "merge"
    /\ i \in DOMAIN input
    /\ ~merged[i]
    /\ kept' = kept \cup {i}
    /\ merged' = [j \in DOMAIN input |->
                    merged[j] \/ (j = i + 1 /\ Covers(input[i], input[j]))]
    /\ i' = i + 1
    /\ UNCHANGED <<given, input, pc>>

\* Deviation: the outer loop goes on behind the box it has merged.
Keep_JumpsAhead ==
    /\ pc = "merge"
    /\ i \in DOMAIN input
    /\ ~merged[i]
    /\ kept' = kept \cup {i}
    /\ merged' = [j \in DOMAIN input |->
                    merged[j] \/ (j > i /\ Covers(input[i], input[j]))]
    /\ i' = IF \E j \in DOMAIN input : merged'[j] THEN i + 2 ELSE i + 1
    /\ UNCHANGED <<given, input, pc>>

Keep ==
    /\ pc = "merge"
    /\ i \in DOMAIN input
    /\ ~merged[i]
    /\ kept' = kept \cup {i}
    /\ merged' = [j \in DOMAIN input |->
                    merged[j] \/ (j > i /\ Covers(input[i], input[j]))]
    /\ i' = i + 1
    /\ UNCHANGED <<given, input, pc>>

Finished ==
    /\ pc = "merge"
    /\ i > Len(input)
    /\ UNCHANGED vars

Next == Sort \/ Skip \/ Keep \/ Finished

Spec == Init /\ [][Next]_vars

-----------------------------------------------------------------------------

\* Types; the outer loop never passes the end of the list.
TypeOK ==
    /\ given \in Lists
    /\ input \in Lists
    /\ DOMAIN input = DOMAIN given
    /\ merged \in [DOMAIN input -> BOOLEAN]
    /\ kept \subseteq DOMAIN input
    /\ i \in 1..(Len(input) + 1)
    /\ pc \in {"sort", "merge"}

\* No two boxes that are kept cover each other, however the boxes between
\* them were merged and in whichever order equal scores were sorted.
KeptApart ==
    \A j, k \in kept : j # k => ~Covers(input[j], input[k])

\* At the end every box of the caller's list is kept, or one is kept that
\* covers it and has at least its score: no face is lost, and none is
\* represented by a worse box.
DroppedCovered ==
    (pc = "merge" /\ i > Len(input)) =>
        \A j \in DOMAIN given :
            \E k \in kept :
                \/ input[k] = given[j]
                \/ /\ Covers(input[k], given[j])
                   /\ input[k].score >= given[j].score

=============================================================================
