--------------------------- MODULE MCClassroomSession ---------------------------
(* Instances of ClassroomSession for TLC. *)
EXTENDS ClassroomSession, TLC

\* Tickets, submission ids, workers, upload slots and teacher requests are
\* interchangeable, and so are the ids of sessions; contents are when all or
\* none of them are CodeFirst.
Symmetry == Permutations(Session) \cup Permutations(Ticket) \cup Permutations(Submission)
            \cup Permutations(Upload) \cup Permutations(Beat) \cup Permutations(TeacherEnd) \cup Permutations(Worker)
            \cup Permutations(Content)
=============================================================================
