---------------------------- MODULE FaceRegistry ----------------------------
(***************************************************************************)
(* What the recogniser promises about people, and nothing else: a table of *)
(* people by id, with room for Capacity, that is carried across restarts   *)
(* by a file.  FaceDemo implements it; there is no camera here, no window, *)
(* no verifier and no order in which people are stored.                    *)
(*                                                                         *)
(* The promise has two gaps, which are the program's.  Somebody registered *)
(* under an id that is taken replaces whoever had it.  And the file is     *)
(* emptied before it is written, so a process that is killed while it      *)
(* saves leaves any part of it behind.                                     *)
(***************************************************************************)
EXTENDS Integers, FiniteSets

CONSTANTS
    Id,           \* the ids people may get
    Person,       \* what is stored of a person
    Written(_),   \* ... and how it comes back from the file
    Capacity

VARIABLES
    phase,        \* "down", "load", "up" or "save"
    people,       \* the table in memory
    file          \* the table on disk

rvars == <<phase, people, file>>

Nobody == << >>

\* The table with one more entry, or another one.
With(table, id, person) ==
    [k \in DOMAIN table \cup {id} |-> IF k = id THEN person ELSE table[k]]

\* The table as it comes back when all of it is in the file.
Copy(table) == [k \in DOMAIN table |-> Written(table[k])]

Init ==
    /\ phase = "down"
    /\ people = Nobody
    /\ file = Nobody

\* The process starts, and may find that the file has been removed.
Start ==
    /\ phase = "down"
    /\ phase' = "load"
    /\ file' \in {file, Nobody}
    /\ UNCHANGED people

LoadOne ==
    /\ phase = "load"
    /\ \E id \in DOMAIN file \ DOMAIN people :
         people' = With(people, id, file[id])
    /\ UNCHANGED <<phase, file>>

\* All that was in the file is known again.
Loaded ==
    /\ phase = "load"
    /\ people = file
    /\ phase' = "up"
    /\ UNCHANGED <<people, file>>

Register ==
    /\ phase = "up"
    /\ Cardinality(DOMAIN people) < Capacity
    /\ \E id \in Id, person \in Person : people' = With(people, id, person)
    /\ UNCHANGED <<phase, file>>

SaveBegins ==
    /\ phase = "up"
    /\ phase' = "save"
    /\ file' = Nobody
    /\ UNCHANGED people

SaveOne ==
    /\ phase = "save"
    /\ \E id \in DOMAIN people \ DOMAIN file :
         file' = With(file, id, Written(people[id]))
    /\ UNCHANGED <<phase, people>>

\* All that is known is in the file.
Saved ==
    /\ phase = "save"
    /\ file = Copy(people)
    /\ phase' = "up"
    /\ UNCHANGED <<people, file>>

Crash ==
    /\ phase # "down"
    /\ phase' = "down"
    /\ people' = Nobody
    /\ UNCHANGED file

Next ==
    \/ Start \/ LoadOne \/ Loaded
    \/ Register
    \/ SaveBegins \/ SaveOne \/ Saved
    \/ Crash

\* Loading and saving come to an end, unless the process is killed.
Spec == Init /\ [][Next]_rvars /\ WF_rvars(LoadOne \/ Loaded \/ SaveOne \/ Saved)
=============================================================================
