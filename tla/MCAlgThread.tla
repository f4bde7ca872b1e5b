---------------------------- MODULE MCAlgThread ----------------------------
(* Instances of AlgThread for TLC. *)
EXTENDS AlgThread

\* The clock stands still, goes on, and is set back; and the int it is kept in
\* goes round soon after the start.
AnyStep == {-1, 0, 1, 2}

\* An earlier process has saved one person.  Of two newcomers the first has
\* the id 11 and the second the id 10: either replaces the person, or finds
\* the store full.
SomeOldPeople == {10 :> 12, 11 :> 12}

\* What is left in a slot nobody waits in is never read again, so states that
\* differ only in it are one.  (The slot the loop is in is still read.)
Live(s) == faces[s].lasttime # Free \/ s = i

\* The thread does not look at which registered person a face is.
Seen(face) == IF face.id < IdBound THEN face ELSE [face EXCEPT !.id = IdBound]

\* Nor does it read what is left in a file that could not be opened, before it
\* is written, or the ids of a frame's windows, once all slots have been seen.
LiveFile == IF fileFailed THEN << >> ELSE <<saved>>

LiveIds == IF pc \in {"fetch", "assign"} THEN {} ELSE reported \ RegistryId

LiveView == <<loop, LiveIds, clock, curtime,
              [k \in DOMAIN m_face |-> Seen(m_face[k])],
              Restrict(since, DOMAIN since \ RegistryId),
              face_id, tables, LiveFile, pictures, flushRegistMat,
              [s \in Slot |-> IF Live(s) THEN faces[s] ELSE << >>]>>
=============================================================================
