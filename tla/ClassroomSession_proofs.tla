------------------------- MODULE ClassroomSession_proofs -------------------------
(***************************************************************************)
(* Theorems about ClassroomSession for every value of its constants: any   *)
(* number of sessions, tickets, requests and workers, any clock.           *)
(***************************************************************************)
EXTENDS ClassroomSession, FiniteSetTheorems, TLAPS

\* The invariant behind every safety theorem below.
IInv == TypeOK /\ RowsAgree /\ HeldFactsHold

-----------------------------------------------------------------------------
(* Types *)

\* The rows start with their types.
LEMMA InitTypeOK == Init => TypeOK
  BY TimeAssumption, NoneAssumption DEF Init, TypeOK, AssignmentStatus, NoRow, NoJob, IdleWorker, Seqs, TicketRow,
         SessionRow, JobRow, EndRequest, WorkerState

\* A row keeps its type when one of its columns is written.
LEMMA SessionRowType ==
  ASSUME NEW r \in SessionRow
  PROVE  /\ \A v \in Final : [r EXCEPT !.status = v] \in SessionRow
         /\ \A v \in 0..SchedEnd : [r EXCEPT !.end = v] \in SessionRow
         /\ \A v \in 0..MaxSeq : [r EXCEPT !.last = v] \in SessionRow
         /\ [r EXCEPT !.completeness = "partial"] \in SessionRow
  BY TimeAssumption, NoneAssumption DEF SessionRow

\* A consumed ticket is typed.
LEMMA TicketRowType ==
  ASSUME NEW r \in TicketRow
  PROVE  [r EXCEPT !.state = "consumed"] \in TicketRow
  BY TimeAssumption, NoneAssumption DEF TicketRow

\* A worker state built from typed parts is typed.
LEMMA WorkerStateType ==
  ASSUME NEW r \in WorkerState, NEW s
  PROVE  /\ [r EXCEPT !.todo = @ \ {s}] \in WorkerState
         /\ [r EXCEPT !.pc = "submitting"] \in WorkerState
         /\ [r EXCEPT !.pc = "finishing"] \in WorkerState
         /\ [IdleWorker EXCEPT !.todo = r.todo \ {s}] \in WorkerState
         /\ IdleWorker \in WorkerState
<1> USE TimeAssumption, NoneAssumption
<1>1. r.todo \ {s} \in SUBSET Session
  BY DEF WorkerState
<1> QED
  BY <1>1 DEF WorkerState, IdleWorker

\* A leased job keeps its type.
LEMMA LeasedJobType ==
  ASSUME NEW r \in JobRow, NEW w \in Worker, NEW until \in Nat
  PROVE  [r EXCEPT !.status = "leased", !.owner = w, !.expires = until,
                   !.attempts = @ + 1] \in JobRow
<1> USE TimeAssumption, NoneAssumption
<1>1. r.attempts + 1 \in Nat
  BY DEF JobRow
<1> QED
  BY <1>1 DEF JobRow

\* A completed job keeps its type.
LEMMA CompletedJobType ==
  ASSUME TypeOK, NEW s \in Session
  PROVE  CompletedJob(s) \in JobRow
<1> USE TimeAssumption, NoneAssumption
<1>1. job[s] \in JobRow
  BY DEF TypeOK
<1> QED
  BY <1>1 DEF JobRow, CompletedJob

\* AppendBrief writes a well-typed revision of a session that exists.
LEMMA AppendBriefType ==
  ASSUME TypeOK, NEW s \in Session, NEW id \in Submission \cup {None},
         NEW missing \in BOOLEAN, AppendBrief(s, id, missing)
  PROVE  /\ briefs' \in [Session -> Seq(BriefRow)]
         /\ session' \in [Session -> SessionRow]
         /\ assignment' \in AssignmentStatus
<1> USE TimeAssumption, NoneAssumption
<1>1. BriefStatus(s) \in Final
  BY DEF BriefStatus, Final
<1>2. Cutoff(s) \in Nat
  BY DEF Cutoff, TypeOK, SessionRow
<1>3. SubmittedAt(s) \in 0..MaxTime
  <2>1. CASE briefs[s] = <<>>
    BY <2>1 DEF SubmittedAt, TypeOK
  <2>2. CASE briefs[s] # <<>>
    <3>1. briefs[s] \in Seq(BriefRow)
      BY DEF TypeOK
    <3>2. briefs[s][Len(briefs[s])] \in BriefRow
      BY <2>2, <3>1
    <3> QED
      BY <2>2, <3>2 DEF SubmittedAt, BriefRow
  <2> QED
    BY <2>1, <2>2
<1>4. briefs' \in [Session -> Seq(BriefRow)]
  <2> DEFINE row == [sub |-> id, at |-> SubmittedAt(s), cutoff |-> Cutoff(s),
                     status |-> BriefStatus(s), missing |-> missing]
  <2>1. row \in BriefRow
    BY <1>1, <1>2, <1>3 DEF BriefRow
  <2>2. briefs' = [briefs EXCEPT ![s] = Append(@, row)]
    BY DEF AppendBrief
  <2> HIDE DEF row
  <2> QED
    BY <2>1, <2>2 DEF TypeOK
<1>5. session' = [session EXCEPT ![s].status = BriefStatus(s)]
  BY DEF AppendBrief
<1>6. session' \in [Session -> SessionRow]
  <2>1. session[s] \in SessionRow
    BY DEF TypeOK
  <2>2. [session[s] EXCEPT !.status = BriefStatus(s)] \in SessionRow
    BY <1>1, <2>1, SessionRowType
  <2> QED
    BY <1>5, <2>2 DEF TypeOK
<1> QED
  BY <1>4, <1>6 DEF AppendBrief, AssignmentStatus

\* A column assigned the value that was read keeps what is stored.
LEMMA FlushSame == \A v, x : Flush(v, v, x) = x
  BY TimeAssumption, NoneAssumption DEF Flush

\* The commit of a registration keeps the types.
LEMMA CommitRegistrationType ==
  ASSUME TypeOK, NEW t \in Ticket, registering[t] # None, CommitRegistration(t)
  PROVE  /\ assignment' \in AssignmentStatus
         /\ ticket' \in [Ticket -> TicketRow]
         /\ registering' \in [Ticket -> {"ready", "active", None}]
<1> USE TimeAssumption, NoneAssumption
<1>1. assignment' \in AssignmentStatus
  BY DEF CommitRegistration, Flush, AssignmentStatus, TypeOK
<1>2. ticket' \in [Ticket -> TicketRow]
  <2>1. ticket[t] \in TicketRow
    BY DEF TypeOK
  <2>2. [ticket[t] EXCEPT !.state = "consumed"] \in TicketRow
    BY <2>1, TicketRowType
  <2> QED
    BY <2>2 DEF CommitRegistration, TypeOK
<1>3. registering' \in [Ticket -> {"ready", "active", None}]
  BY DEF CommitRegistration, TypeOK
<1> QED
  BY <1>1, <1>2, <1>3

\* Every transaction keeps the types.
LEMMA NextTypeOK == IInv /\ [Next]_vars => TypeOK'
<1> USE TimeAssumption, NoneAssumption
<1> SUFFICES ASSUME TypeOK, HeldFactsHold, [Next]_vars
             PROVE  TypeOK'
  BY DEF IInv
<1>1. CASE UNCHANGED vars
  BY <1>1 DEF vars, TypeOK
<1>2. CASE Tick
  BY <1>2 DEF Tick, plugin, TypeOK
<1>3. ASSUME NEW t \in Ticket, IssueTicket(t) PROVE TypeOK'
  BY <1>3 DEF IssueTicket, TypeOK, plugin, TicketRow
<1>4. ASSUME NEW t \in Ticket, RegisterBegin(t) PROVE TypeOK'
  BY <1>4 DEF RegisterBegin, TypeOK, plugin
<1>5. ASSUME NEW t \in Ticket, ResumeSession(t) PROVE TypeOK'
  BY <1>5, CommitRegistrationType DEF ResumeSession, TypeOK
<1>6. ASSUME NEW t \in Ticket, RegisterAbort(t) PROVE TypeOK'
  BY <1>6 DEF RegisterAbort, TypeOK, plugin
<1>7. ASSUME NEW t \in Ticket, NEW s \in Session, OpenSession(t, s) PROVE TypeOK'
  <2>1. session' \in [Session -> SessionRow]
    BY <1>7 DEF OpenSession, TypeOK, SessionRow
  <2>2. job' \in [Session -> JobRow]
    BY <1>7 DEF OpenSession, TypeOK, JobRow
  <2> QED
    BY <1>7, <2>1, <2>2, CommitRegistrationType DEF OpenSession, TypeOK
<1>8. ASSUME NEW b \in Beat, NEW s \in Session, HeartbeatRead(b, s) PROVE TypeOK'
  BY <1>8 DEF HeartbeatRead, TypeOK, plugin
<1>9. ASSUME NEW b \in Beat, HeartbeatWrite(b) PROVE TypeOK'
  <2>1. session' = session
    BY <1>9, FlushSame DEF HeartbeatWrite, TypeOK, SessionRow
  <2> QED
    BY <1>9, <2>1 DEF HeartbeatWrite, TypeOK
<1>10. ASSUME NEW s \in Session, NEW id \in Submission, Submit(s, id) PROVE TypeOK'
  <2>1. AppendBrief(s, id, FALSE)
    BY <1>10 DEF Submit
  <2> QED
    BY <1>10, <2>1, AppendBriefType DEF Submit, TypeOK, plugin
<1>11. ASSUME NEW s \in Session, NEW n \in Seqs, NEW c \in Content, ReplayEvidence(s, n, c) PROVE TypeOK'
  BY <1>11 DEF ReplayEvidence, TypeOK, plugin
<1>12. ASSUME NEW u \in Upload, NEW s \in Session, NEW n \in Seqs, NEW c \in Content, UploadRead(u, s, n, c) PROVE TypeOK'
  BY <1>12 DEF UploadRead, TypeOK, plugin, ChunkRow, SessionRow
<1>13. ASSUME NEW u \in Upload, UploadCommit(u) PROVE TypeOK'
  <2> DEFINE r == uploading[u]
             last == Flush(r.last, IF r.seq > r.last THEN r.seq ELSE r.last, session[r.sess].last)
  <2>1. r \in ChunkRow
    BY <1>13 DEF UploadCommit, TypeOK
  <2>2. last \in 0..MaxSeq
    BY <2>1 DEF ChunkRow, Seqs, Flush, TypeOK, SessionRow
  <2>3. [session[r.sess] EXCEPT !.last = last] \in SessionRow
    <3>1. session[r.sess] \in SessionRow
      BY <2>1 DEF TypeOK, ChunkRow
    <3> QED
      BY <2>2, <3>1, SessionRowType
  <2>4. session' = [session EXCEPT ![r.sess].last = last]
    BY <1>13 DEF UploadCommit
  <2>5. session' \in [Session -> SessionRow]
    BY <2>1, <2>3, <2>4 DEF TypeOK, ChunkRow
  <2>6. chunk' \in [Session -> [Seqs -> Content \cup {None}]]
    BY <1>13, <2>1 DEF UploadCommit, TypeOK, ChunkRow
  <2>7. receipts' \subseteq Session \X Seqs \X Content
    BY <1>13, <2>1 DEF UploadCommit, TypeOK, ChunkRow
  <2> QED
    BY <1>13, <2>5, <2>6, <2>7 DEF UploadCommit, TypeOK
<1>14. ASSUME NEW u \in Upload, UploadAbort(u) PROVE TypeOK'
  BY <1>14 DEF UploadAbort, TypeOK, plugin
<1>15. ASSUME NEW e \in TeacherEnd, NEW s \in Session, NEW end \in 0..SchedEnd, TeacherEndRead(e, s, end) PROVE TypeOK'
  BY <1>15 DEF TeacherEndRead, TypeOK, plugin, EndRequest, SessionRow
<1>16. ASSUME NEW e \in TeacherEnd, TeacherEndCommit(e) PROVE TypeOK'
  <2> DEFINE r == ending[e]
             end == Flush(r.read, r.end, session[r.sess].end)
  <2>1. r \in EndRequest /\ r.sess \in Session
    BY <1>16 DEF TeacherEndCommit, TypeOK, EndRequest, HeldFactsHold, RequestsHeld
  <2>2. end \in 0..SchedEnd /\ r.end + Grace \in Nat
    BY <2>1 DEF EndRequest, Flush, TypeOK, SessionRow
  <2>3. [session[r.sess] EXCEPT !.end = end] \in SessionRow
    <3>1. session[r.sess] \in SessionRow
      BY <2>1 DEF TypeOK
    <3> QED
      BY <2>2, <3>1, SessionRowType
  <2>4. session' = [session EXCEPT ![r.sess].end = end]
    BY <1>16 DEF TeacherEndCommit
  <2>5. session' \in [Session -> SessionRow]
    BY <2>1, <2>3, <2>4 DEF TypeOK
  <2>6. job' \in [Session -> JobRow]
    <3>1. job[r.sess] \in JobRow
      BY <2>1 DEF TypeOK
    <3>2. [job[r.sess] EXCEPT !.status = "pending", !.runAt = r.end + Grace,
                              !.owner = None, !.expires = 0] \in JobRow
      BY <2>2, <3>1 DEF JobRow
    <3> QED
      BY <1>16, <3>2 DEF TeacherEndCommit, TypeOK
  <2>7. ending' \in [TeacherEnd -> EndRequest]
    BY <1>16, <2>1 DEF TeacherEndCommit, TypeOK, EndRequest
  <2> QED
    BY <1>16, <2>5, <2>6, <2>7 DEF TeacherEndCommit, TypeOK, plugin
<1>17. ASSUME NEW w \in Worker, Claim(w) PROVE TypeOK'
  <2>1. job' \in [Session -> JobRow]
    <3>1. ASSUME NEW s \in Session
          PROVE  [job[s] EXCEPT !.status = "leased", !.owner = w, !.expires = now + Lease,
                                !.attempts = @ + 1] \in JobRow
      <4>1. job[s] \in JobRow /\ now + Lease \in Nat
        BY DEF TypeOK
      <4> QED
        BY <4>1, LeasedJobType
    <3> QED
      BY <1>17, <3>1 DEF Claim, TypeOK
  <2>2. worker' \in [Worker -> WorkerState]
    <3>1. worker[w] \in WorkerState /\ Due \in SUBSET Session
      BY DEF TypeOK, Due
    <3>2. [worker[w] EXCEPT !.todo = Due] \in WorkerState
      BY <3>1 DEF WorkerState
    <3> QED
      BY <1>17, <3>2 DEF Claim, TypeOK
  <2> QED
    BY <1>17, <2>1, <2>2 DEF Claim, TypeOK, plugin
<1>18. ASSUME NEW w \in Worker, NEW s \in Session, CloseDone(w, s) PROVE TypeOK'
  BY <1>18, WorkerStateType DEF CloseDone, TypeOK, plugin
<1>19. ASSUME NEW w \in Worker, NEW s \in Session, CloseLost(w, s) PROVE TypeOK'
  BY <1>19, WorkerStateType DEF CloseLost, TypeOK, plugin
<1>20. ASSUME NEW w \in Worker, NEW s \in Session, CloseExisting(w, s) PROVE TypeOK'
  <2>1. job' \in [Session -> JobRow]
    BY <1>20, CompletedJobType DEF CloseExisting, TypeOK
  <2>2. worker' \in [Worker -> WorkerState]
    BY <1>20, WorkerStateType DEF CloseExisting, TypeOK
  <2> QED
    BY <1>20, <2>1, <2>2 DEF CloseExisting, TypeOK, plugin
<1>21. ASSUME NEW w \in Worker, NEW s \in Session, CloseRead(w, s) PROVE TypeOK'
  <2>1. worker[w] \in WorkerState
    BY DEF TypeOK
  <2>2. \A c \in Content \cup {None} :
          [worker[w] EXCEPT !.pc = IF c = None THEN "marking" ELSE "submitting",
                            !.cur = s, !.first = c] \in WorkerState
    BY <2>1 DEF WorkerState
  <2>3. worker' \in [Worker -> WorkerState]
    <3>1. PICK c \in Content \cup {None} :
            worker' = [worker EXCEPT ![w].pc = IF c = None THEN "marking" ELSE "submitting",
                                     ![w].cur = s, ![w].first = c]
      BY <1>21 DEF CloseRead
    <3> QED
      BY <2>2, <3>1 DEF TypeOK
  <2> QED
    BY <1>21, <2>3 DEF CloseRead, TypeOK, plugin
<1>22. ASSUME NEW w \in Worker, CloseMark(w) PROVE TypeOK'
  <2> DEFINE s == worker[w].cur
  <2>1. s \in Session
    BY <1>22 DEF CloseMark, TypeOK, WorkerState, HeldFactsHold, CloseInHand
  <2>2. session[s] \in SessionRow
    BY <2>1 DEF TypeOK
  <2>3. [session[s] EXCEPT !.completeness = "partial"] \in SessionRow
    BY <2>2, SessionRowType
  <2>4. session' \in [Session -> SessionRow]
    BY <1>22, <2>1, <2>3 DEF CloseMark, TypeOK
  <2>5. worker' \in [Worker -> WorkerState]
    BY <1>22, WorkerStateType DEF CloseMark, TypeOK
  <2> QED
    BY <1>22, <2>4, <2>5 DEF CloseMark, TypeOK, plugin
<1>23. ASSUME NEW w \in Worker, CloseSubmit(w) PROVE TypeOK'
  <2>1. worker[w].cur \in Session /\ (worker[w].first = None) \in BOOLEAN
    BY <1>23 DEF CloseSubmit, TypeOK, WorkerState, HeldFactsHold, CloseInHand
  <2>2. AppendBrief(worker[w].cur, None, (worker[w].first = None))
    BY <1>23 DEF CloseSubmit
  <2>3. /\ briefs' \in [Session -> Seq(BriefRow)]
        /\ session' \in [Session -> SessionRow]
        /\ assignment' \in AssignmentStatus
    BY <2>1, <2>2, AppendBriefType
  <2>4. worker' \in [Worker -> WorkerState]
    BY <1>23, WorkerStateType DEF CloseSubmit, TypeOK
  <2> QED
    BY <1>23, <2>3, <2>4 DEF CloseSubmit, TypeOK, plugin
<1>24. ASSUME NEW w \in Worker, CloseFinish(w) PROVE TypeOK'
  <2> DEFINE s == worker[w].cur
  <2>1. s \in Session /\ worker[w].todo \in SUBSET Session
    BY <1>24 DEF CloseFinish, TypeOK, WorkerState, HeldFactsHold, CloseInHand
  <2>2. job' \in [Session -> JobRow]
    BY <1>24, <2>1, CompletedJobType DEF CloseFinish, TypeOK
  <2>3. worker' \in [Worker -> WorkerState]
    BY <1>24, WorkerStateType DEF CloseFinish, TypeOK
  <2> QED
    BY <1>24, <2>2, <2>3 DEF CloseFinish, TypeOK, plugin
<1>25. ASSUME NEW w \in Worker, WorkerCrash(w) PROVE TypeOK'
  <2>1. worker' \in [Worker -> WorkerState]
    BY <1>25, WorkerStateType DEF WorkerCrash, TypeOK
  <2>2. crashes' \in 0..MaxCrash
    BY <1>25 DEF WorkerCrash, TypeOK
  <2> QED
    BY <1>25, <2>1, <2>2 DEF WorkerCrash, TypeOK, plugin
<1>26. ASSUME NEW w \in Worker, CloseRefused(w) PROVE TypeOK'
  <2>1. worker' \in [Worker -> WorkerState]
    BY <1>26, WorkerStateType DEF CloseRefused, TypeOK
  <2> QED
    BY <1>26, <2>1 DEF CloseRefused, TypeOK, plugin
<1> QED
  BY <1>1, <1>2, <1>3, <1>4, <1>5, <1>6, <1>7, <1>8, <1>9, <1>10, <1>11, <1>12, <1>13, <1>14, <1>15, <1>16, <1>17, <1>18, <1>19, <1>20, <1>21, <1>22, <1>23, <1>24, <1>25, <1>26
  DEF Next, TicketStep, PluginStep, UploadStep, TeacherStep, WorkerStep

-----------------------------------------------------------------------------
(* What the service never takes back *)

\* Time, rows and briefs only grow: no session disappears, no brief is
\* deleted, no partial mark is undone, no end the class has had is forgotten.
Grow ==
  /\ now <= now'
  /\ \A s \in Session : session[s].status # "absent" =>
       /\ session'[s].status # "absent"
       /\ session[s].completeness = "partial" => session'[s].completeness = "partial"
  /\ \A s \in Session : briefs[s] # <<>> => briefs'[s] # <<>>
  /\ \A e \in TeacherEnd : ending[e].pc = "done" => ending'[e] = ending[e]

\* AppendBrief leaves every session with as many facts as it had.
LEMMA AppendBriefGrows ==
  ASSUME TypeOK, NEW s \in Session, NEW id \in Submission \cup {None},
         NEW missing \in BOOLEAN, AppendBrief(s, id, missing)
  PROVE  /\ \A x \in Session : session[x].status # "absent" => session'[x].status # "absent"
         /\ \A x \in Session : session'[x].completeness = session[x].completeness
         /\ \A x \in Session : briefs[x] # <<>> => briefs'[x] # <<>>
         /\ briefs'[s] # <<>>
<1>1. BriefStatus(s) # "absent"
  BY DEF BriefStatus
<1>2. session' = [session EXCEPT ![s].status = BriefStatus(s)]
  BY DEF AppendBrief
<1>3. \A x \in Session : session[x] \in SessionRow
  BY DEF TypeOK
<1>4. \A x \in Session : session'[x].completeness = session[x].completeness
  BY <1>2, <1>3 DEF TypeOK, SessionRow
<1>5. \A x \in Session : session[x].status # "absent" => session'[x].status # "absent"
  BY <1>1, <1>2, <1>3 DEF TypeOK, SessionRow
<1>6. briefs'[s] # <<>>
  BY DEF AppendBrief, TypeOK
<1>7. \A x \in Session : x # s => briefs'[x] = briefs[x]
  BY DEF AppendBrief, TypeOK
<1> QED
  BY <1>4, <1>5, <1>6, <1>7

\* Whatever was once an end of a session stays one.
LEMMA EndsGrow ==
  ASSUME Grow, NEW s \in Session
  PROVE  Ends(s) \subseteq Ends(s)'
  BY DEF Grow, Ends

\* Steps that touch no row or process the invariants speak of.
Quiet == now <= now' /\ UNCHANGED <<session, briefs, job, ending, worker>>

\* The remaining steps, one disjunct for each action.
LEMMA StepCases ==
  ASSUME TypeOK, [Next]_vars
  PROVE  \/ Quiet
         \/ \E t \in Ticket, s \in Session : OpenSession(t, s)
         \/ \E s \in Session, id \in Submission : Submit(s, id)
         \/ \E u \in Upload : UploadCommit(u)
         \/ \E e \in TeacherEnd, s \in Session, end \in 0..SchedEnd : TeacherEndRead(e, s, end)
         \/ \E e \in TeacherEnd : TeacherEndCommit(e)
         \/ \E w \in Worker : \/ Claim(w) \/ CloseMark(w) \/ CloseSubmit(w)
                              \/ CloseFinish(w) \/ CloseRefused(w) \/ WorkerCrash(w)
         \/ \E w \in Worker, s \in Session : \/ CloseDone(w, s) \/ CloseLost(w, s)
                                              \/ CloseExisting(w, s) \/ CloseRead(w, s)
<1> USE TimeAssumption, NoneAssumption
<1>0. now \in Nat
  BY DEF TypeOK
<1>1. CASE UNCHANGED vars
  BY <1>0, <1>1 DEF vars, Quiet
<1>2. CASE Tick
  BY <1>0, <1>2 DEF Tick, Quiet
<1>3. ASSUME NEW t \in Ticket,
             IssueTicket(t) \/ RegisterBegin(t) \/ ResumeSession(t) \/ RegisterAbort(t)
      PROVE  Quiet
  BY <1>0, <1>3 DEF IssueTicket, RegisterBegin, ResumeSession, RegisterAbort, Quiet
<1>4. ASSUME NEW s \in Session, NEW b \in Beat, HeartbeatRead(b, s) PROVE Quiet
  BY <1>0, <1>4 DEF HeartbeatRead, Quiet
<1>5. ASSUME NEW b \in Beat, HeartbeatWrite(b) PROVE Quiet
  <2>1. session' = session
    BY <1>5, FlushSame DEF HeartbeatWrite, TypeOK, SessionRow
  <2> QED
    BY <1>0, <1>5, <2>1 DEF HeartbeatWrite, Quiet
<1>6. ASSUME NEW s \in Session, NEW n \in Seqs, NEW c \in Content, ReplayEvidence(s, n, c)
      PROVE  Quiet
  BY <1>0, <1>6 DEF ReplayEvidence, Quiet
<1>7. ASSUME NEW u \in Upload, NEW s \in Session, NEW n \in Seqs, NEW c \in Content,
             UploadRead(u, s, n, c)
      PROVE  Quiet
  BY <1>0, <1>7 DEF UploadRead, Quiet
<1>8. ASSUME NEW u \in Upload, UploadAbort(u) PROVE Quiet
  BY <1>0, <1>8 DEF UploadAbort, Quiet
<1> QED
  BY <1>1, <1>2, <1>3, <1>4, <1>5, <1>6, <1>7, <1>8
  DEF Next, TicketStep, PluginStep, UploadStep, TeacherStep, WorkerStep

\* An upload or a teacher's end leaves the status and the mark of a session.
LEMMA ColumnsKept ==
  ASSUME TypeOK, \/ \E u \in Upload : UploadCommit(u)
                 \/ \E e \in TeacherEnd : TeacherEndCommit(e)
  PROVE  \A x \in Session : /\ session'[x].status = session[x].status
                            /\ session'[x].completeness = session[x].completeness
<1> USE TimeAssumption, NoneAssumption
<1>1. \A x \in Session : session[x] \in SessionRow
  BY DEF TypeOK
<1>2. CASE \E u \in Upload : UploadCommit(u)
  <2>1. PICK u \in Upload : UploadCommit(u)
    BY <1>2
  <2> DEFINE r == uploading[u]
             last == Flush(r.last, IF r.seq > r.last THEN r.seq ELSE r.last, session[r.sess].last)
  <2>2. session' = [session EXCEPT ![r.sess].last = last]
    BY <2>1 DEF UploadCommit
  <2> HIDE DEF r, last
  <2> QED
    BY <1>1, <2>2 DEF TypeOK, SessionRow
<1>3. CASE \E e \in TeacherEnd : TeacherEndCommit(e)
  <2>1. PICK e \in TeacherEnd : TeacherEndCommit(e)
    BY <1>3
  <2> DEFINE s == ending[e].sess
             end == Flush(ending[e].read, ending[e].end, session[s].end)
  <2>2. session' = [session EXCEPT ![s].end = end]
    BY <2>1 DEF TeacherEndCommit
  <2> HIDE DEF s, end
  <2> QED
    BY <1>1, <2>2 DEF TypeOK, SessionRow
<1> QED
  BY <1>2, <1>3

\* A teacher's end leaves a job as it is or makes it wait for the new cutoff.
LEMMA RescheduledJob ==
  ASSUME TypeOK, NEW e \in TeacherEnd, TeacherEndCommit(e), ending[e].sess \in Session
  PROVE  \/ job' = job
         \/ /\ \A x \in Session : x # ending[e].sess => job'[x] = job[x]
            /\ job'[ending[e].sess].status = "pending"
            /\ job'[ending[e].sess].owner = None
            /\ job'[ending[e].sess].runAt = ending[e].end + Grace
            /\ job'[ending[e].sess].attempts = job[ending[e].sess].attempts
<1> USE TimeAssumption, NoneAssumption
<1> DEFINE s == ending[e].sess
           at == ending[e].end + Grace
<1>1. \/ job' = job
      \/ job' = [job EXCEPT ![s].status = "pending", ![s].runAt = at,
                            ![s].owner = None, ![s].expires = 0]
  BY DEF TeacherEndCommit
<1>2. s \in Session /\ job \in [Session -> JobRow] /\ job[s] \in JobRow
  BY DEF TypeOK
<1> HIDE DEF s, at
<1>3. CASE job' = [job EXCEPT ![s].status = "pending", ![s].runAt = at,
                              ![s].owner = None, ![s].expires = 0]
  <2>1. job' = [job EXCEPT ![s] = [@ EXCEPT !.status = "pending", !.runAt = at,
                                           !.owner = None, !.expires = 0]]
    BY <1>2, <1>3
  <2>2. /\ \A x \in Session : x # s => job'[x] = job[x]
        /\ job'[s] = [job[s] EXCEPT !.status = "pending", !.runAt = at,
                                   !.owner = None, !.expires = 0]
    BY <1>2, <2>1
  <2>3. /\ job'[s].status = "pending" /\ job'[s].owner = None
        /\ job'[s].runAt = at /\ job'[s].attempts = job[s].attempts
    BY <1>2, <2>2 DEF JobRow
  <2> QED
    BY <2>2, <2>3 DEF s, at
<1> QED
  BY <1>1, <1>3

\* Rows only move forward, as Grow says.
LEMMA NextGrows ==
  ASSUME IInv, [Next]_vars
  PROVE  Grow
<1> USE TimeAssumption, NoneAssumption
<1> USE DEF IInv
<1>0. now \in Nat /\ TypeOK /\ \A s \in Session : session[s] \in SessionRow
  BY DEF TypeOK
<1>1. CASE Quiet
  BY <1>1 DEF Quiet, Grow
<1>2. ASSUME NEW t \in Ticket, NEW s \in Session, OpenSession(t, s) PROVE Grow
  <2>1. \A x \in Session : session[x].status # "absent" => session'[x] = session[x]
    BY <1>2 DEF OpenSession, TypeOK
  <2> QED
    BY <1>0, <1>2, <2>1 DEF OpenSession, Grow
<1>3. ASSUME NEW s \in Session, NEW id \in Submission, Submit(s, id) PROVE Grow
  <2>1. AppendBrief(s, id, FALSE)
    BY <1>3 DEF Submit
  <2>2. /\ \A x \in Session : session[x].status # "absent" => session'[x].status # "absent"
        /\ \A x \in Session : session'[x].completeness = session[x].completeness
        /\ \A x \in Session : briefs[x] # <<>> => briefs'[x] # <<>>
    BY <1>0, <2>1, AppendBriefGrows
  <2>3. UNCHANGED <<now, ending>>
    BY <1>3 DEF Submit
  <2> QED
    BY <1>0, <2>2, <2>3 DEF Grow
<1>4. ASSUME NEW u \in Upload, UploadCommit(u) PROVE Grow
  <2>1. UNCHANGED <<now, ending, briefs>>
    BY <1>4 DEF UploadCommit
  <2>2. \A x \in Session : /\ session'[x].status = session[x].status
                           /\ session'[x].completeness = session[x].completeness
    BY <1>0, <1>4, ColumnsKept
  <2> QED
    BY <1>0, <2>1, <2>2 DEF Grow
<1>5. ASSUME NEW e \in TeacherEnd, NEW s \in Session, NEW end \in 0..SchedEnd,
             TeacherEndRead(e, s, end)
      PROVE  Grow
  BY <1>0, <1>5 DEF TeacherEndRead, Grow, TypeOK
<1>6. ASSUME NEW e \in TeacherEnd, TeacherEndCommit(e) PROVE Grow
  <2>1. \A x \in TeacherEnd : ending[x].pc = "done" => ending'[x] = ending[x]
    BY <1>6 DEF TeacherEndCommit, TypeOK
  <2>2. UNCHANGED <<now, briefs>>
    BY <1>6 DEF TeacherEndCommit
  <2> QED
    BY <1>0, <1>6, <2>1, <2>2, ColumnsKept DEF Grow
<1>7. ASSUME NEW w \in Worker, Claim(w) \/ CloseFinish(w) \/ CloseRefused(w) \/ WorkerCrash(w) PROVE Grow
  <2>1. UNCHANGED <<now, session, briefs, ending>>
    BY <1>7 DEF Claim, CloseFinish, CloseRefused, WorkerCrash
  <2> QED
    BY <1>0, <2>1 DEF Grow
<1>8. ASSUME NEW w \in Worker, NEW s \in Session,
             CloseDone(w, s) \/ CloseLost(w, s) \/ CloseExisting(w, s) \/ CloseRead(w, s)
      PROVE  Grow
  <2>1. UNCHANGED <<now, session, briefs, ending>>
    BY <1>8 DEF CloseDone, CloseLost, CloseExisting, CloseRead
  <2> QED
    BY <1>0, <2>1 DEF Grow
<1>9. ASSUME NEW w \in Worker, CloseMark(w) PROVE Grow
  BY SMTT(30), <1>0, <1>9 DEF CloseMark, Grow, TypeOK, SessionRow
<1>10. ASSUME NEW w \in Worker, CloseSubmit(w) PROVE Grow
  <2>1. worker[w].cur \in Session /\ (worker[w].first = None) \in BOOLEAN
    BY <1>10 DEF CloseSubmit, TypeOK, WorkerState, HeldFactsHold, CloseInHand
  <2>2. AppendBrief(worker[w].cur, None, (worker[w].first = None))
    BY <1>10 DEF CloseSubmit
  <2> QED
    <3>1. PICK m \in BOOLEAN : AppendBrief(worker[w].cur, None, m)
      BY <2>1, <2>2 DEF AppendBrief
    <3> QED
      BY <1>0, <1>10, <2>1, <3>1, AppendBriefGrows DEF CloseSubmit, Grow
<1> QED
  BY <1>1, <1>2, <1>3, <1>4, <1>5, <1>6, <1>7, <1>8, <1>9, <1>10, StepCases

-----------------------------------------------------------------------------
(* The facts held between two transactions survive what the others do *)

\* Requests between two transactions keep what they read when the rows grow.
LEMMA RequestsKept ==
  ASSUME Grow, RequestsHeld, ending' = ending
  PROVE  RequestsHeld'
  BY TimeAssumption, NoneAssumption DEF Grow, RequestsHeld

\* Job facts survive when the rows grow.
LEMMA JobsKept ==
  ASSUME Grow, JobsRunAtAnEnd,
         \A s \in Session : job'[s].status # "absent" =>
           job[s].status # "absent" /\ job'[s].runAt = job[s].runAt
  PROVE  JobsRunAtAnEnd'
  BY TimeAssumption, NoneAssumption, EndsGrow DEF JobsRunAtAnEnd

\* Claims survive when the rows grow.
LEMMA ClaimsKept ==
  ASSUME TypeOK, TypeOK', Grow, ClaimsWereDue,
         \A w \in Worker : worker'[w].todo \subseteq worker[w].todo
  PROVE  ClaimsWereDue'
<1> USE TimeAssumption, NoneAssumption
<1> SUFFICES ASSUME NEW w \in Worker, NEW s \in worker'[w].todo
             PROVE  /\ session'[s].status # "absent"
                    /\ \E end \in Ends(s)' : end + Grace <= now'
  BY DEF ClaimsWereDue
<1>1. s \in worker[w].todo /\ s \in Session
  BY DEF TypeOK, WorkerState
<1>2. PICK end \in Ends(s) : end + Grace <= now
  BY <1>1 DEF ClaimsWereDue
<1>3. end \in Nat /\ now \in Nat /\ now' \in Nat /\ now <= now'
  BY DEF Ends, TypeOK, EndRequest, Grow
<1>4. end \in Ends(s)' /\ end + Grace <= now'
  BY <1>1, <1>2, <1>3, EndsGrow
<1> QED
  BY <1>1, <1>4 DEF ClaimsWereDue, Grow

\* What requests and workers have in hand survives when the rows grow.
LEMMA InHandKept ==
  ASSUME TypeOK, Grow, ClaimsWereDue, CloseInHand,
         \A w \in Worker : worker'[w] = worker[w] \/ worker'[w].pc = "loop"
  PROVE  CloseInHand'
<1> USE TimeAssumption, NoneAssumption
<1> SUFFICES ASSUME NEW w \in Worker, worker'[w].pc # "loop"
             PROVE  /\ worker'[w].cur \in worker'[w].todo
                    /\ worker'[w].pc = "finishing" => briefs'[worker'[w].cur] # <<>>
                    /\ (worker'[w].first = None) /\ worker'[w].pc # "marking"
                         => session'[worker'[w].cur].completeness = "partial"
  BY DEF CloseInHand
<1>1. worker'[w] = worker[w]
  OBVIOUS
<1>2. worker[w].cur \in worker[w].todo /\ worker[w].cur \in Session
  BY <1>1 DEF CloseInHand, TypeOK, WorkerState
<1> QED
  BY <1>1, <1>2 DEF CloseInHand, ClaimsWereDue, Grow

-----------------------------------------------------------------------------
(* The rows agree *)

\* A session row and its briefs agree after AppendBrief.
LEMMA AppendBriefAgrees ==
  ASSUME TypeOK, RowsAgree, NEW s \in Session, NEW id \in Submission \cup {None},
         NEW missing \in BOOLEAN, AppendBrief(s, id, missing)
  PROVE  \A x \in Session :
           /\ session'[x].status \in Final <=> briefs'[x] # <<>>
           /\ briefs'[x] # <<>> => session'[x].status = briefs'[x][Len(briefs'[x])].status
           /\ x # s => session'[x] = session[x]
           /\ session'[s].status \in Final
<1> USE TimeAssumption, NoneAssumption
<1> SUFFICES ASSUME NEW x \in Session
             PROVE  /\ session'[x].status \in Final <=> briefs'[x] # <<>>
                    /\ briefs'[x] # <<>> => session'[x].status = briefs'[x][Len(briefs'[x])].status
                    /\ x # s => session'[x] = session[x]
                    /\ session'[s].status \in Final
  OBVIOUS
<1> DEFINE row == [sub |-> id, at |-> SubmittedAt(s), cutoff |-> Cutoff(s),
                   status |-> BriefStatus(s), missing |-> missing]
<1>1. session[s] \in SessionRow /\ session[x] \in SessionRow /\ BriefStatus(s) \in Final
  BY DEF TypeOK, BriefStatus, Final
<1>2. session'[s].status = BriefStatus(s) /\ (x # s => session'[x] = session[x])
  BY <1>1 DEF AppendBrief, TypeOK, SessionRow
<1>3. briefs'[s] = Append(briefs[s], row) /\ (x # s => briefs'[x] = briefs[x])
  BY DEF AppendBrief, TypeOK
<1>4. briefs'[s] # <<>> /\ briefs'[s][Len(briefs'[s])].status = BriefStatus(s)
  <2>1. briefs[s] \in Seq(BriefRow) /\ row.status = BriefStatus(s)
    BY DEF TypeOK
  <2> HIDE DEF row
  <2>2. briefs'[s] # <<>> /\ briefs'[s][Len(briefs'[s])] = row
    BY <1>3, <2>1
  <2> QED
    BY <2>1, <2>2
<1> QED
  BY <1>1, <1>2, <1>3, <1>4 DEF RowsAgree

\* Rows of different tables go on agreeing.
LEMMA NextRowsAgree == IInv /\ [Next]_vars => RowsAgree'
<1> USE TimeAssumption, NoneAssumption
<1> SUFFICES ASSUME TypeOK, RowsAgree, HeldFactsHold, [Next]_vars
             PROVE  RowsAgree'
  BY DEF IInv
<1>0. \A s \in Session : session[s] \in SessionRow /\ job[s] \in JobRow
  BY DEF TypeOK
<1>1. CASE Quiet
  BY <1>1 DEF Quiet, RowsAgree
<1>2. ASSUME NEW t \in Ticket, NEW s \in Session, OpenSession(t, s) PROVE RowsAgree'
  <2>1. briefs[s] = <<>>
    BY <1>2 DEF OpenSession, RowsAgree, Final
  <2>2. session'[s].status = "collecting" /\ job'[s].status = "pending" /\ job'[s].owner = None
    BY <1>2 DEF OpenSession, TypeOK
  <2>3. \A x \in Session : x # s => session'[x] = session[x] /\ job'[x] = job[x]
    BY <1>2 DEF OpenSession, TypeOK
  <2>4. briefs' = briefs
    BY <1>2 DEF OpenSession
  <2> QED
    BY <2>1, <2>2, <2>3, <2>4 DEF RowsAgree, Final
<1>3. ASSUME NEW s \in Session, NEW id \in Submission, Submit(s, id) PROVE RowsAgree'
  <2>1. AppendBrief(s, id, FALSE) /\ job' = job /\ session[s].status # "absent"
    BY <1>3 DEF Submit
  <2> QED
    BY ZenonT(40), <2>1, AppendBriefAgrees DEF RowsAgree, Final
<1>4. ASSUME NEW u \in Upload, UploadCommit(u) PROVE RowsAgree'
  <2>1. UNCHANGED <<briefs, job>>
    BY <1>4 DEF UploadCommit
  <2> QED
    BY <1>4, <2>1, ColumnsKept DEF RowsAgree
<1>5. ASSUME NEW e \in TeacherEnd, NEW s \in Session, NEW end \in 0..SchedEnd,
             TeacherEndRead(e, s, end)
      PROVE  RowsAgree'
  BY <1>5 DEF TeacherEndRead, RowsAgree
<1>6. ASSUME NEW e \in TeacherEnd, TeacherEndCommit(e) PROVE RowsAgree'
  <2> DEFINE s == ending[e].sess
  <2>1. s \in Session /\ session[s].status # "absent" /\ briefs' = briefs
    BY <1>6 DEF TeacherEndCommit, HeldFactsHold, RequestsHeld
  <2>2. \A x \in Session : session'[x].status = session[x].status
    BY <1>6, ColumnsKept
  <2>3. \/ job' = job
        \/ /\ job'[s].status = "pending" /\ job'[s].owner = None
           /\ \A x \in Session : x # s => job'[x] = job[x]
    BY <1>6, <2>1, RescheduledJob
  <2> HIDE DEF s
  <2> QED
    BY <2>1, <2>2, <2>3 DEF RowsAgree
<1>7. ASSUME NEW w \in Worker, Claim(w) PROVE RowsAgree'
  <2>1. UNCHANGED <<session, briefs>>
    BY <1>7 DEF Claim
  <2>2. \A x \in Session : \/ job'[x] = job[x]
                           \/ /\ job'[x].status = "leased" /\ job'[x].owner = w
                              /\ job[x].status # "absent"
    BY <1>0, <1>7 DEF Claim, Due, JobRow
  <2> QED
    BY <2>1, <2>2 DEF RowsAgree
<1>8. ASSUME NEW s \in Session, job[s].status # "absent",
             job' = [job EXCEPT ![s] = CompletedJob(s)], UNCHANGED <<session, briefs>>
      PROVE  RowsAgree'
  <2>1. job'[s].status = "completed" /\ job'[s].owner = None
    BY <1>0, <1>8 DEF CompletedJob, JobRow, TypeOK
  <2>2. \A x \in Session : x # s => job'[x] = job[x]
    BY <1>8 DEF TypeOK
  <2> QED
    BY <1>8, <2>1, <2>2 DEF RowsAgree
<1>9. ASSUME NEW w \in Worker, NEW s \in Session, CloseExisting(w, s) PROVE RowsAgree'
  BY <1>8, <1>9 DEF CloseExisting, RowsAgree, Final
<1>10. ASSUME NEW w \in Worker, CloseFinish(w) PROVE RowsAgree'
  <2> DEFINE s == worker[w].cur
  <2>1. s \in Session /\ session[s].status # "absent"
    BY <1>10 DEF CloseFinish, TypeOK, WorkerState, HeldFactsHold, CloseInHand, ClaimsWereDue
  <2>2. job[s].status # "absent"
    BY <2>1 DEF RowsAgree
  <2>3. job' = [job EXCEPT ![s] = CompletedJob(s)] /\ UNCHANGED <<session, briefs>>
    BY <1>10 DEF CloseFinish
  <2> QED
    BY <1>8, <2>1, <2>2, <2>3
<1>11. ASSUME NEW w \in Worker, CloseMark(w) PROVE RowsAgree'
  <2> DEFINE s == worker[w].cur
  <2>0. session' = [session EXCEPT ![s].completeness = "partial"]
    BY <1>11 DEF CloseMark
  <2> HIDE DEF s
  <2>1. \A x \in Session : session'[x].status = session[x].status
    BY <1>0, <2>0 DEF TypeOK, SessionRow
  <2> QED
    BY <1>11, <2>1 DEF CloseMark, RowsAgree
<1>12. ASSUME NEW w \in Worker, CloseSubmit(w) PROVE RowsAgree'
  <2> DEFINE s == worker[w].cur
  <2>1. s \in Session /\ (worker[w].first = None) \in BOOLEAN /\ session[s].status # "absent"
    BY <1>12 DEF CloseSubmit, TypeOK, WorkerState, HeldFactsHold, CloseInHand, ClaimsWereDue
  <2>2. AppendBrief(s, None, (worker[w].first = None)) /\ job' = job
    BY <1>12 DEF CloseSubmit
  <2> QED
    <3>1. PICK m \in BOOLEAN : AppendBrief(s, None, m)
      BY <2>1, <2>2
    <3> HIDE DEF s
    <3> QED
      BY <2>1, <2>2, <3>1, AppendBriefAgrees DEF RowsAgree, Final
<1>13. ASSUME NEW w \in Worker, CloseRefused(w) \/ WorkerCrash(w) PROVE RowsAgree'
  BY <1>13 DEF CloseRefused, WorkerCrash, RowsAgree
<1>14. ASSUME NEW w \in Worker, NEW s \in Session,
              CloseDone(w, s) \/ CloseLost(w, s) \/ CloseRead(w, s)
       PROVE  RowsAgree'
  BY <1>14 DEF CloseDone, CloseLost, CloseRead, RowsAgree
<1> QED
  BY <1>1, <1>2, <1>3, <1>4, <1>5, <1>6, <1>7, <1>9, <1>10, <1>11, <1>12, <1>13, <1>14, StepCases

-----------------------------------------------------------------------------
(* The held facts are inductive *)

\* Facts held between two transactions stay true.
LEMMA NextHeldFacts == IInv /\ [Next]_vars => HeldFactsHold'
<1> USE TimeAssumption, NoneAssumption
<1> SUFFICES ASSUME IInv, [Next]_vars
             PROVE  HeldFactsHold'
  OBVIOUS
<1>0. /\ TypeOK /\ RowsAgree /\ TypeOK' /\ Grow
      /\ RequestsHeld /\ JobsRunAtAnEnd /\ ClaimsWereDue /\ CloseInHand
  BY NextTypeOK, NextGrows DEF IInv, HeldFactsHold
\* Steps after which a worker holds what it held, or less.
<1>a. ASSUME ending' = ending, RequestsHeld', JobsRunAtAnEnd',
             \A w \in Worker : worker'[w].todo \subseteq worker[w].todo,
             \A w \in Worker : worker'[w] = worker[w] \/ worker'[w].pc = "loop"
      PROVE  HeldFactsHold'
  BY <1>0, <1>a, ClaimsKept, InHandKept DEF HeldFactsHold
<1>1. ASSUME ending' = ending, job' = job, worker' = worker PROVE HeldFactsHold'
  <2>1. RequestsHeld' /\ JobsRunAtAnEnd'
    BY <1>0, <1>1, RequestsKept, JobsKept
  <2> QED
    BY <1>a, <1>1, <2>1
<1>2. ASSUME NEW t \in Ticket, NEW s \in Session, OpenSession(t, s) PROVE HeldFactsHold'
  <2>1. UNCHANGED <<ending, worker>>
    BY <1>2 DEF OpenSession
  <2>2. job'[s].runAt = SchedEnd + Grace /\ \A x \in Session : x # s => job'[x] = job[x]
    BY <1>0, <1>2 DEF OpenSession, TypeOK
  <2>3. ASSUME NEW x \in Session, job'[x].status # "absent"
        PROVE  \E end \in Ends(x)' : job'[x].runAt = end + Grace
    <3>1. CASE x = s
      BY <2>2, <3>1 DEF Ends
    <3>2. CASE x # s
      BY <1>0, <2>2, <2>3, <3>2, EndsGrow DEF JobsRunAtAnEnd
    <3> QED
      BY <3>1, <3>2
  <2> QED
    BY <1>0, <1>a, <2>1, <2>3, RequestsKept DEF JobsRunAtAnEnd
<1>3. ASSUME NEW e \in TeacherEnd, NEW s \in Session, NEW end \in 0..SchedEnd,
             TeacherEndRead(e, s, end)
      PROVE  HeldFactsHold'
  <2>1. UNCHANGED <<session, job, worker>> /\ session[s].status # "absent"
    BY <1>3 DEF TeacherEndRead
  <2>2. /\ \A x \in TeacherEnd : x # e => ending'[x] = ending[x]
        /\ ending'[e].sess = s
    BY <1>0, <1>3 DEF TeacherEndRead, TypeOK
  <2>3. RequestsHeld'
    BY <1>0, <2>1, <2>2 DEF RequestsHeld
  <2>4. JobsRunAtAnEnd'
    BY <1>0, <2>1, JobsKept
  <2> QED
    BY <1>0, <2>1, <2>3, <2>4, ClaimsKept, InHandKept DEF HeldFactsHold
<1>4. ASSUME NEW e \in TeacherEnd, TeacherEndCommit(e) PROVE HeldFactsHold'
  <2>1. worker' = worker
    BY <1>4 DEF TeacherEndCommit
  <2>2. PICK s \in Session : s = ending[e].sess /\ session[s].status # "absent"
    BY <1>0, <1>4 DEF TeacherEndCommit, RequestsHeld
  <2>3. /\ \A x \in TeacherEnd : x # e => ending'[x] = ending[x]
        /\ ending'[e] = [ending[e] EXCEPT !.pc = "done"]
    BY <1>0, <1>4 DEF TeacherEndCommit, TypeOK
  <2>4. ending'[e].sess = s /\ ending'[e].end = ending[e].end /\ ending'[e].pc = "done"
    BY <1>0, <2>2, <2>3 DEF TypeOK, EndRequest
  <2>5. RequestsHeld'
    <3>1. ASSUME NEW x \in TeacherEnd, ending'[x].pc # "idle"
          PROVE  ending'[x].sess \in Session /\ session'[ending'[x].sess].status # "absent"
      <4>1. CASE x = e
        BY <1>0, <2>2, <2>4, <4>1 DEF Grow
      <4>2. CASE x # e
        BY <1>0, <2>3, <3>1, <4>2 DEF RequestsHeld, Grow
      <4> QED
        BY <4>1, <4>2
    <3> QED
      BY <3>1 DEF RequestsHeld
  <2>6. ASSUME NEW x \in Session, job'[x].status # "absent"
        PROVE  \E end \in Ends(x)' : job'[x].runAt = end + Grace
    <3>1. \/ job'[x] = job[x]
          \/ x = s /\ job'[x].runAt = ending[e].end + Grace
      BY <1>0, <1>4, <2>2, RescheduledJob
    <3>2. CASE job'[x] = job[x]
      BY <1>0, <2>6, <3>2, EndsGrow DEF JobsRunAtAnEnd
    <3>3. CASE x = s /\ job'[x].runAt = ending[e].end + Grace
      <4>1. ending[e].end \in Ends(s)'
        BY <2>4 DEF Ends
      <4> QED
        BY <3>3, <4>1
    <3> QED
      BY <3>1, <3>2, <3>3
  <2>7. JobsRunAtAnEnd'
    BY <2>6 DEF JobsRunAtAnEnd
  <2> QED
    BY <1>0, <2>1, <2>5, <2>7, ClaimsKept, InHandKept DEF HeldFactsHold
<1>5. ASSUME NEW w \in Worker, Claim(w) PROVE HeldFactsHold'
  <2>1. UNCHANGED <<now, session, ending>>
    BY <1>5 DEF Claim
  <2>2. /\ \A x \in Worker : x # w => worker'[x] = worker[x]
        /\ worker'[w].todo = Due /\ worker'[w].pc = "loop"
    <3>1. worker[w] \in WorkerState /\ worker[w].pc = "loop"
      BY <1>0, <1>5 DEF Claim, TypeOK
    <3>2. worker' = [worker EXCEPT ![w] = [worker[w] EXCEPT !.todo = Due]]
      BY <1>5 DEF Claim
    <3> QED
      BY <1>0, <3>1, <3>2 DEF TypeOK, WorkerState
  <2>3. \A s \in Session : job'[s].runAt = job[s].runAt
    <3>1. ASSUME NEW s \in Session PROVE job'[s].runAt = job[s].runAt
      <4>1. job[s] \in JobRow
        BY <1>0 DEF TypeOK
      <4>2. \/ job'[s] = job[s]
            \/ job'[s] = [job[s] EXCEPT !.status = "leased", !.owner = w,
                                        !.expires = now + Lease, !.attempts = @ + 1]
        BY <1>5 DEF Claim
      <4> QED
        BY <4>1, <4>2 DEF JobRow
    <3> QED
      BY <3>1
  <2>4. \A s \in Session : job'[s].status # "absent" => job[s].status # "absent"
    BY <1>5 DEF Claim, Due
  <2>5. RequestsHeld' /\ JobsRunAtAnEnd'
    BY <1>0, <2>1, <2>3, <2>4, RequestsKept, JobsKept
  <2>6. ASSUME NEW s \in Due
        PROVE  session'[s].status # "absent" /\ \E end \in Ends(s)' : end + Grace <= now'
    <3>1. s \in Session /\ job[s].status # "absent" /\ job[s].runAt <= now
      BY DEF Due
    <3>2. session[s].status # "absent"
      BY <1>0, <3>1 DEF RowsAgree
    <3>3. PICK end \in Ends(s) : job[s].runAt = end + Grace
      BY <1>0, <3>1 DEF JobsRunAtAnEnd
    <3> QED
      BY <1>0, <2>1, <3>1, <3>2, <3>3, EndsGrow
  <2>7. ASSUME NEW x \in Worker, x # w, NEW s \in worker[x].todo
        PROVE  session'[s].status # "absent" /\ \E end \in Ends(s)' : end + Grace <= now'
    BY <1>0, <2>1, <2>7, EndsGrow DEF ClaimsWereDue, TypeOK, WorkerState
  <2>8. ClaimsWereDue'
    BY <2>2, <2>6, <2>7 DEF ClaimsWereDue
  <2>9. CloseInHand'
    BY <1>0, <2>2, InHandKept
  <2> QED
    BY <2>5, <2>8, <2>9 DEF HeldFactsHold
<1>6. ASSUME NEW s \in Session, session[s].status # "absent",
             job' = [job EXCEPT ![s] = CompletedJob(s)]
      PROVE  JobsRunAtAnEnd'
  <2>1. job[s].status # "absent"
    BY <1>0, <1>6 DEF RowsAgree
  <2>2. job'[s].runAt = job[s].runAt /\ \A x \in Session : x # s => job'[x] = job[x]
    BY <1>0, <1>6 DEF CompletedJob, TypeOK, JobRow
  <2> QED
    BY <1>0, <2>1, <2>2, JobsKept
<1>7. ASSUME NEW w \in Worker, NEW s \in Session,
             CloseDone(w, s) \/ CloseLost(w, s) \/ CloseExisting(w, s)
      PROVE  HeldFactsHold'
  <2>1. ending' = ending /\ session[s].status # "absent"
    BY <1>0, <1>7 DEF CloseDone, CloseLost, CloseExisting, ClaimsWereDue
  <2>2. job' = job \/ job' = [job EXCEPT ![s] = CompletedJob(s)]
    BY <1>7 DEF CloseDone, CloseLost, CloseExisting
  <2>3. RequestsHeld' /\ JobsRunAtAnEnd'
    BY <1>0, <1>6, <2>1, <2>2, RequestsKept, JobsKept
  <2>4. /\ \A x \in Worker : x # w => worker'[x] = worker[x]
        /\ worker'[w].todo \subseteq worker[w].todo /\ worker'[w].pc = "loop"
    BY <1>0, <1>7 DEF CloseDone, CloseLost, CloseExisting, TypeOK, WorkerState, IdleWorker
  <2> QED
    BY <1>a, <2>1, <2>3, <2>4
<1>8. ASSUME NEW w \in Worker, CloseFinish(w) \/ CloseRefused(w) \/ WorkerCrash(w) PROVE HeldFactsHold'
  <2>1. ending' = ending
    BY <1>8 DEF CloseFinish, CloseRefused, WorkerCrash
  <2>2. /\ \A x \in Worker : x # w => worker'[x] = worker[x]
        /\ worker'[w].todo \subseteq worker[w].todo /\ worker'[w].pc = "loop"
    BY SMTT(30), <1>0, <1>8 DEF CloseFinish, CloseRefused, WorkerCrash, TypeOK, WorkerState, IdleWorker
  <2>3. JobsRunAtAnEnd'
    <3>1. CASE CloseFinish(w)
      <4> DEFINE s == worker[w].cur
      <4>1. s \in Session /\ session[s].status # "absent"
        BY <1>0, <3>1 DEF CloseFinish, TypeOK, WorkerState, CloseInHand, ClaimsWereDue
      <4>2. job' = [job EXCEPT ![s] = CompletedJob(s)]
        BY <3>1 DEF CloseFinish
      <4> QED
        BY <1>6, <4>1, <4>2
    <3>2. CASE CloseRefused(w) \/ WorkerCrash(w)
      BY <1>0, <3>2, JobsKept DEF CloseRefused, WorkerCrash
    <3> QED
      BY <1>8, <3>1, <3>2
  <2> QED
    BY <1>0, <1>a, <2>1, <2>2, <2>3, RequestsKept
<1>9. ASSUME NEW w \in Worker, UNCHANGED <<ending, job>>,
             \A x \in Worker : x # w => worker'[x] = worker[x],
             worker'[w].todo = worker[w].todo, worker'[w].cur \in worker[w].todo,
             worker'[w].pc = "finishing" => briefs'[worker'[w].cur] # <<>>,
             (worker'[w].first = None) /\ worker'[w].pc # "marking"
               => session'[worker'[w].cur].completeness = "partial"
      PROVE  HeldFactsHold'
  <2>1. RequestsHeld' /\ JobsRunAtAnEnd' /\ ClaimsWereDue'
    BY <1>0, <1>9, RequestsKept, JobsKept, ClaimsKept
  <2>2. ASSUME NEW x \in Worker, x # w, worker[x].pc # "loop"
        PROVE  /\ worker[x].cur \in worker[x].todo
               /\ worker[x].pc = "finishing" => briefs'[worker[x].cur] # <<>>
               /\ (worker[x].first = None) /\ worker[x].pc # "marking"
                    => session'[worker[x].cur].completeness = "partial"
    <3>1. worker[x].cur \in worker[x].todo /\ worker[x].cur \in Session
      BY <1>0, <2>2 DEF CloseInHand, TypeOK, WorkerState
    <3> QED
      BY <1>0, <2>2, <3>1 DEF CloseInHand, ClaimsWereDue, Grow
  <2>3. CloseInHand'
    BY <1>9, <2>2 DEF CloseInHand
  <2> QED
    BY <2>1, <2>3 DEF HeldFactsHold
<1>10. ASSUME NEW w \in Worker, NEW s \in Session, CloseRead(w, s) PROVE HeldFactsHold'
  <2>1. UNCHANGED <<ending, job>> /\ s \in worker[w].todo
    BY <1>10 DEF CloseRead
  <2>2. /\ \A x \in Worker : x # w => worker'[x] = worker[x]
        /\ worker'[w].todo = worker[w].todo /\ worker'[w].cur = s
        /\ worker'[w].pc = IF worker'[w].first = None THEN "marking" ELSE "submitting"
    BY <1>0, <1>10 DEF CloseRead, TypeOK, WorkerState
  <2> QED
    BY <1>9, <2>1, <2>2
<1>11. ASSUME NEW w \in Worker, CloseMark(w) PROVE HeldFactsHold'
  <2>1. UNCHANGED <<ending, job>> /\ worker[w].cur \in worker[w].todo /\ worker[w].cur \in Session
    BY <1>0, <1>11 DEF CloseMark, CloseInHand, TypeOK, WorkerState
  <2>2. /\ \A x \in Worker : x # w => worker'[x] = worker[x]
        /\ worker'[w].todo = worker[w].todo /\ worker'[w].cur = worker[w].cur
        /\ worker'[w].pc = "submitting"
    BY <1>0, <1>11 DEF CloseMark, TypeOK, WorkerState
  <2>3. session'[worker[w].cur].completeness = "partial"
    BY <1>0, <1>11, <2>1 DEF CloseMark, TypeOK, SessionRow
  <2> QED
    BY <1>9, <2>1, <2>2, <2>3
<1>12. ASSUME NEW w \in Worker, CloseSubmit(w) PROVE HeldFactsHold'
  <2> DEFINE s == worker[w].cur
  <2>1. /\ UNCHANGED <<ending, job>> /\ worker[w].pc = "submitting"
        /\ AppendBrief(s, None, (worker[w].first = None))
    BY <1>12 DEF CloseSubmit
  <2>2. s \in worker[w].todo /\ s \in Session /\ (worker[w].first = None) \in BOOLEAN
    BY <1>0, <2>1 DEF CloseInHand, TypeOK, WorkerState
  <2>3. /\ \A x \in Worker : x # w => worker'[x] = worker[x]
        /\ worker'[w].todo = worker[w].todo /\ worker'[w].cur = s
        /\ worker'[w].pc = "finishing" /\ (worker'[w].first = None) = (worker[w].first = None)
    BY <1>0, <1>12 DEF CloseSubmit, TypeOK, WorkerState
  <2>4. briefs'[s] # <<>> /\ session'[s].completeness = session[s].completeness
    BY <1>0, <2>1, <2>2, AppendBriefGrows
  <2>5. (worker[w].first = None) => session[s].completeness = "partial"
    BY <1>0, <2>1 DEF CloseInHand
  <2> QED
    BY <1>9, <2>1, <2>2, <2>3, <2>4, <2>5
<1>13. ASSUME Quiet \/ (\E s \in Session, id \in Submission : Submit(s, id))
              \/ (\E u \in Upload : UploadCommit(u))
       PROVE  HeldFactsHold'
  <2>1. UNCHANGED <<ending, job, worker>>
    BY <1>13 DEF Quiet, Submit, UploadCommit
  <2> QED
    BY <1>1, <2>1
<1> QED
  BY <1>0, <1>2, <1>3, <1>4, <1>5, <1>7, <1>8, <1>10, <1>11, <1>12, <1>13, StepCases

\* The invariant holds at the start.
LEMMA InitIInv == Init => IInv
<1> USE TimeAssumption, NoneAssumption
<1> SUFFICES ASSUME Init
             PROVE  IInv
  OBVIOUS
<1>1. TypeOK
  BY InitTypeOK
<1>2. RowsAgree
  BY DEF Init, RowsAgree, NoRow, NoJob, Final
<1>3. HeldFactsHold
  BY DEF Init, HeldFactsHold, RequestsHeld, JobsRunAtAnEnd, ClaimsWereDue, CloseInHand,
         NoJob, IdleWorker
<1> QED
  BY <1>1, <1>2, <1>3 DEF IInv

\* Every reachable state is well typed, its rows agree and what the requests
\* and workers hold is still true.
THEOREM Invariant == Spec => []IInv
<1> USE TimeAssumption, NoneAssumption
<1>1. IInv /\ [Next]_vars => IInv'
  BY NextTypeOK, NextRowsAgree, NextHeldFacts DEF IInv
<1> QED
  BY InitIInv, <1>1, PTL DEF Spec

-----------------------------------------------------------------------------
(* Consequences of IInv *)

\* Every row and every process state stays within its type: no column, lease
\* or process variable of the service ever holds a value the code has no case for.
THEOREM TypeCorrect == Spec => []TypeOK
<1>1. IInv => TypeOK
  BY DEF IInv
<1> QED
  BY Invariant, <1>1, PTL

\* Session, brief and job rows agree at every instant, whatever transactions
\* are between their read and their commit.
THEOREM RowsAlwaysAgree == Spec => []RowsAgree
<1>1. IInv => RowsAgree
  BY DEF IInv
<1> QED
  BY Invariant, <1>1, PTL

\* What a request or a worker read in an earlier transaction is still true
\* when it acts on it.
THEOREM HeldFactsAlwaysHold == Spec => []HeldFactsHold
<1>1. IInv => HeldFactsHold
  BY DEF IInv
<1> QED
  BY Invariant, <1>1, PTL

\* A session with a brief never goes back to collecting.
THEOREM SubmittedStaysSubmitted == Spec => NeverReopened
<1> DEFINE Stays == \A s \in Session : session[s].status \in Final => session'[s].status \in Final
<1>1. IInv /\ IInv' /\ [Next]_vars => [Stays]_vars
  <2> SUFFICES ASSUME IInv, IInv', [Next]_vars, NEW s \in Session, session[s].status \in Final
               PROVE  session'[s].status \in Final
    OBVIOUS
  <2>1. briefs[s] # <<>>
    BY DEF IInv, RowsAgree
  <2>2. briefs'[s] # <<>>
    BY <2>1, NextGrows DEF Grow
  <2> QED
    BY <2>2 DEF IInv, RowsAgree
<1> QED
  BY Invariant, <1>1, PTL DEF Spec, NeverReopened

\* The deadline worker submits for a session only once the grace period
\* after an end the class has had is over.
THEOREM DeadlineWaits == Spec => DeadlineNotEarly
<1> DEFINE Waits == \A w \in Worker, s \in Session :
                      worker[w].pc = "submitting" /\ worker'[w].pc = "finishing" /\ worker[w].cur = s
                        => \E end \in Ends(s) : end + Grace <= now
<1>1. IInv => [Waits]_vars
  BY DEF IInv, HeldFactsHold, CloseInHand, ClaimsWereDue
<1> QED
  BY Invariant, <1>1, PTL DEF Spec, DeadlineNotEarly

-----------------------------------------------------------------------------
(* Invariants inductive relative to IInv *)

\* A completed deadline job has produced a brief.
THEOREM CompletedJobsHaveBriefs == Spec => []CompletedJobHasBrief
<1>1. Init => CompletedJobHasBrief
  BY DEF Init, CompletedJobHasBrief, NoJob
<1>2. IInv /\ CompletedJobHasBrief /\ [Next]_vars => CompletedJobHasBrief'
  <2> SUFFICES ASSUME IInv, CompletedJobHasBrief, [Next]_vars,
                      NEW s \in Session, job'[s].status = "completed"
               PROVE  briefs'[s] # <<>>
    BY DEF CompletedJobHasBrief
  <2>0. TypeOK /\ Grow /\ job[s] \in JobRow
    BY NextGrows DEF IInv, TypeOK
  <2>1. CASE job[s].status = "completed"
    BY <2>0, <2>1 DEF CompletedJobHasBrief, Grow
  <2>2. CASE job[s].status # "completed"
    <3>1. CASE Quiet
      BY <2>2, <3>1 DEF Quiet
    <3>2. CASE \E t \in Ticket, x \in Session : OpenSession(t, x)
      BY <2>0, <2>2, <3>2 DEF OpenSession, TypeOK
    <3>3. CASE \E e \in TeacherEnd : TeacherEndCommit(e)
      <4>1. PICK e \in TeacherEnd : TeacherEndCommit(e)
        BY <3>3
      <4>2. ending[e].sess \in Session
        BY <4>1 DEF TeacherEndCommit, IInv, HeldFactsHold, RequestsHeld
      <4>3. job'[s] = job[s] \/ job'[s].status = "pending"
        BY <2>0, <4>1, <4>2, RescheduledJob
      <4> QED
        BY <2>2, <4>3
    <3>4. ASSUME NEW w \in Worker, Claim(w) PROVE FALSE
      <4>1. \/ job'[s] = job[s]
            \/ job'[s] = [job[s] EXCEPT !.status = "leased", !.owner = w,
                                        !.expires = now + Lease, !.attempts = @ + 1]
        BY <3>4 DEF Claim
      <4> QED
        BY <2>0, <2>2, <4>1 DEF JobRow
    <3>5. ASSUME NEW w \in Worker, CloseFinish(w) PROVE briefs'[s] # <<>>
      <4>1. worker[w].cur = s
        BY <2>0, <2>2, <3>5 DEF CloseFinish, TypeOK
      <4>2. briefs[s] # <<>>
        BY <3>5, <4>1 DEF CloseFinish, IInv, HeldFactsHold, CloseInHand
      <4> QED
        BY <2>0, <4>2 DEF Grow
    <3>6. ASSUME NEW w \in Worker, NEW x \in Session, CloseExisting(w, x) PROVE briefs'[s] # <<>>
      <4>1. x = s /\ briefs[x] # <<>>
        BY <2>0, <2>2, <3>6 DEF CloseExisting, TypeOK
      <4> QED
        BY <2>0, <4>1 DEF Grow
    <3>7. CASE job' = job
      BY <2>2, <3>7
    <3>8. CASE \/ \E x \in Session, id \in Submission : Submit(x, id)
               \/ \E u \in Upload : UploadCommit(u)
               \/ \E e \in TeacherEnd, x \in Session, end \in 0..SchedEnd : TeacherEndRead(e, x, end)
               \/ \E w \in Worker : CloseMark(w) \/ CloseSubmit(w) \/ CloseRefused(w) \/ WorkerCrash(w)
               \/ \E w \in Worker, x \in Session : CloseDone(w, x) \/ CloseLost(w, x) \/ CloseRead(w, x)
      BY <3>7, <3>8 DEF Submit, UploadCommit, TeacherEndRead, CloseMark, CloseSubmit, CloseRefused, WorkerCrash,
                        CloseDone, CloseLost, CloseRead
    <3> QED
      BY <2>0, <3>1, <3>2, <3>3, <3>4, <3>5, <3>6, <3>8, StepCases
  <2> QED
    BY <2>1, <2>2
<1> QED
  BY Invariant, <1>1, <1>2, PTL DEF Spec

\* At most one session of the assignment is collecting, however many
\* tickets are registered at once.
THEOREM OneSessionCollects == Spec => []OneCollecting
<1>1. Init => OneCollecting
  BY DEF Init, OneCollecting, NoRow
<1>2. IInv /\ OneCollecting /\ [Next]_vars => OneCollecting'
  <2> SUFFICES ASSUME IInv, OneCollecting, [Next]_vars
               PROVE  OneCollecting'
    OBVIOUS
  <2>0. TypeOK /\ \A s \in Session : session[s] \in SessionRow
    BY DEF IInv, TypeOK
  <2>1. CASE \A s \in Session : session'[s].status = "collecting" => session[s].status = "collecting"
    BY <2>1 DEF OneCollecting
  <2>2. ASSUME NEW t \in Ticket, NEW s \in Session, OpenSession(t, s) PROVE OneCollecting'
    <3>1. \A x \in Session : session[x].status # "collecting"
      BY <2>2 DEF OpenSession, Active
    <3>2. \A x \in Session : x # s => session'[x] = session[x]
      BY <2>0, <2>2 DEF OpenSession, TypeOK
    <3> QED
      BY <3>1, <3>2 DEF OneCollecting
  <2>3. ASSUME NEW s \in Session, NEW id \in Submission \cup {None}, NEW missing \in BOOLEAN,
               AppendBrief(s, id, missing)
        PROVE  OneCollecting'
    <3>1. \A x \in Session : x # s => session'[x] = session[x]
      BY <2>0, <2>3, AppendBriefAgrees DEF IInv
    <3>2. session'[s].status # "collecting"
      BY <2>0, <2>3, AppendBriefAgrees DEF IInv, Final
    <3> QED
      BY <2>1, <3>1, <3>2
  <2>4. ASSUME NEW w \in Worker, CloseMark(w) PROVE OneCollecting'
    BY <2>0, <2>1, <2>4 DEF CloseMark, TypeOK, SessionRow
  <2>5. ASSUME NEW w \in Worker, CloseSubmit(w) PROVE OneCollecting'
    <3>1. worker[w].cur \in Session /\ (worker[w].first = None) \in BOOLEAN
      BY <2>5 DEF CloseSubmit, IInv, TypeOK, WorkerState, HeldFactsHold, CloseInHand
    <3>2. AppendBrief(worker[w].cur, None, (worker[w].first = None))
      BY <2>5 DEF CloseSubmit
    <3> QED
      BY <2>3, <3>1, <3>2
  <2>6. CASE \/ \E u \in Upload : UploadCommit(u)
             \/ \E e \in TeacherEnd : TeacherEndCommit(e)
    BY <2>0, <2>1, <2>6, ColumnsKept
  <2>7. CASE \E s \in Session, id \in Submission : Submit(s, id)
    BY <2>3, <2>7 DEF Submit
  <2>8. CASE session' = session
    BY <2>1, <2>8
  <2>9. CASE \/ Quiet
             \/ \E e \in TeacherEnd, s \in Session, end \in 0..SchedEnd : TeacherEndRead(e, s, end)
             \/ \E w \in Worker : Claim(w) \/ CloseFinish(w) \/ CloseRefused(w) \/ WorkerCrash(w)
             \/ \E w \in Worker, s \in Session : \/ CloseDone(w, s) \/ CloseLost(w, s)
                                                  \/ CloseExisting(w, s) \/ CloseRead(w, s)
    <3>1. CASE Quiet
      BY <2>8, <3>1 DEF Quiet
    <3>2. CASE \E e \in TeacherEnd, s \in Session, end \in 0..SchedEnd : TeacherEndRead(e, s, end)
      BY <2>8, <3>2 DEF TeacherEndRead
    <3>3. CASE \E w \in Worker : Claim(w) \/ CloseFinish(w) \/ CloseRefused(w) \/ WorkerCrash(w)
      BY <2>8, <3>3 DEF Claim, CloseFinish, CloseRefused, WorkerCrash
    <3>4. CASE \E w \in Worker, s \in Session : CloseDone(w, s) \/ CloseLost(w, s)
      BY <2>8, <3>4 DEF CloseDone, CloseLost
    <3>5. CASE \E w \in Worker, s \in Session : CloseExisting(w, s) \/ CloseRead(w, s)
      BY <2>8, <3>5 DEF CloseExisting, CloseRead
    <3> QED
      BY <2>9, <3>1, <3>2, <3>3, <3>4, <3>5
  <2> QED
    BY <2>0, <2>2, <2>4, <2>5, <2>6, <2>7, <2>9, StepCases
<1> QED
  BY Invariant, <1>1, <1>2, PTL DEF Spec

-----------------------------------------------------------------------------
(* The briefs: every revision comes from AppendBrief *)

\* A revision is added, with what the caller knows of its arguments.
Appends(s, id, missing) ==
  /\ AppendBrief(s, id, missing)
  /\ session[s].status # "absent"
  /\ missing => session[s].completeness = "partial"
  /\ id # None => \A i \in 1..Len(briefs[s]) : briefs[s][i].sub # id

\* A step that changes the briefs of a session appends one revision.
LEMMA BriefSteps ==
  ASSUME IInv, [Next]_vars
  PROVE  \/ briefs' = briefs
         \/ \E s \in Session, id \in Submission \cup {None}, missing \in BOOLEAN :
              Appends(s, id, missing)
<1>0. TypeOK
  BY DEF IInv
<1>1. CASE Quiet
  BY <1>1 DEF Quiet
<1>2. ASSUME NEW s \in Session, NEW id \in Submission, Submit(s, id)
      PROVE  Appends(s, id, FALSE)
  BY <1>2 DEF Submit, Appends
<1>3. ASSUME NEW w \in Worker, CloseSubmit(w)
      PROVE  /\ worker[w].cur \in Session /\ (worker[w].first = None) \in BOOLEAN
             /\ Appends(worker[w].cur, None, (worker[w].first = None))
  BY <1>0, <1>3 DEF Appends, CloseSubmit, IInv, TypeOK, WorkerState, HeldFactsHold, CloseInHand, ClaimsWereDue
<1>4. CASE \E s \in Session, id \in Submission : Submit(s, id)
  BY <1>2, <1>4
<1>5. CASE \E w \in Worker : CloseSubmit(w)
  BY <1>3, <1>5
<1>6. CASE briefs' = briefs
  BY <1>6
<1>7. CASE \/ \E t \in Ticket, s \in Session : OpenSession(t, s)
           \/ \E u \in Upload : UploadCommit(u)
           \/ \E e \in TeacherEnd, s \in Session, end \in 0..SchedEnd : TeacherEndRead(e, s, end)
           \/ \E e \in TeacherEnd : TeacherEndCommit(e)
           \/ \E w \in Worker : Claim(w) \/ CloseMark(w) \/ CloseFinish(w) \/ CloseRefused(w) \/ WorkerCrash(w)
           \/ \E w \in Worker, s \in Session : \/ CloseDone(w, s) \/ CloseLost(w, s)
                                                \/ CloseExisting(w, s) \/ CloseRead(w, s)
  <2>1. CASE \E t \in Ticket, s \in Session : OpenSession(t, s)
    BY <1>6, <2>1 DEF OpenSession
  <2>2. CASE \E u \in Upload : UploadCommit(u)
    BY <1>6, <2>2 DEF UploadCommit
  <2>3. CASE \E e \in TeacherEnd, s \in Session, end \in 0..SchedEnd : TeacherEndRead(e, s, end)
    BY <1>6, <2>3 DEF TeacherEndRead
  <2>4. CASE \E e \in TeacherEnd : TeacherEndCommit(e)
    BY <1>6, <2>4 DEF TeacherEndCommit
  <2>5. CASE \E w \in Worker : Claim(w) \/ CloseMark(w)
    BY <1>6, <2>5 DEF Claim, CloseMark
  <2>6. CASE \E w \in Worker : CloseFinish(w) \/ CloseRefused(w) \/ WorkerCrash(w)
    BY <1>6, <2>6 DEF CloseFinish, CloseRefused, WorkerCrash
  <2>7. CASE \E w \in Worker, s \in Session : CloseDone(w, s) \/ CloseLost(w, s)
    BY <1>6, <2>7 DEF CloseDone, CloseLost
  <2>8. CASE \E w \in Worker, s \in Session : CloseExisting(w, s) \/ CloseRead(w, s)
    BY <1>6, <2>8 DEF CloseExisting, CloseRead
  <2> QED
    BY <1>7, <2>1, <2>2, <2>3, <2>4, <2>5, <2>6, <2>7, <2>8
<1> QED
  BY <1>0, <1>1, <1>4, <1>5, <1>7, StepCases

\* AppendBrief keeps the revisions there are and adds one at the end.
LEMMA RevisionAdded ==
  ASSUME TypeOK, NEW s \in Session, NEW id \in Submission \cup {None},
         NEW missing \in BOOLEAN, AppendBrief(s, id, missing)
  PROVE  /\ \A x \in Session : x # s => briefs'[x] = briefs[x]
         /\ Len(briefs'[s]) = Len(briefs[s]) + 1
         /\ Len(briefs[s]) \in Nat
         /\ \A i \in 1..Len(briefs[s]) : briefs'[s][i] = briefs[s][i]
         /\ briefs'[s][Len(briefs[s]) + 1] =
              [sub |-> id, at |-> SubmittedAt(s), cutoff |-> Cutoff(s),
               status |-> BriefStatus(s), missing |-> missing]
<1> DEFINE row == [sub |-> id, at |-> SubmittedAt(s), cutoff |-> Cutoff(s),
                   status |-> BriefStatus(s), missing |-> missing]
<1>1. briefs[s] \in Seq(BriefRow)
  BY DEF TypeOK
<1>2. briefs'[s] = Append(briefs[s], row) /\ \A x \in Session : x # s => briefs'[x] = briefs[x]
  BY DEF AppendBrief, TypeOK
<1> HIDE DEF row
<1>3. Len(briefs'[s]) = Len(briefs[s]) + 1 /\ Len(briefs[s]) \in Nat
  BY <1>1, <1>2
<1>4. \A i \in 1..Len(briefs[s]) : briefs'[s][i] = briefs[s][i]
  BY <1>1, <1>2
<1>5. briefs'[s][Len(briefs[s]) + 1] = row
  BY <1>1, <1>2
<1> QED
  BY <1>2, <1>3, <1>4, <1>5 DEF row

\* A deadline brief that reports missing evidence is partial, though other
\* workers and requests run between the check and the submission.
THEOREM MissingEvidenceIsPartial == Spec => []MissingIsPartial
<1>1. Init => MissingIsPartial
  BY DEF Init, MissingIsPartial
<1>2. IInv /\ MissingIsPartial /\ [Next]_vars => MissingIsPartial'
  <2> SUFFICES ASSUME IInv, MissingIsPartial, [Next]_vars
               PROVE  MissingIsPartial'
    OBVIOUS
  <2>1. CASE briefs' = briefs
    BY <2>1 DEF MissingIsPartial
  <2>2. ASSUME NEW s \in Session, NEW id \in Submission \cup {None}, NEW missing \in BOOLEAN,
               Appends(s, id, missing)
        PROVE  MissingIsPartial'
    <3>1. missing => BriefStatus(s) = "partial"
      BY <2>2 DEF BriefStatus, Appends
    <3>2. TypeOK
      BY DEF IInv
    <3>a. /\ \A x \in Session : x # s => briefs'[x] = briefs[x]
          /\ Len(briefs'[s]) = Len(briefs[s]) + 1
          /\ Len(briefs[s]) \in Nat
          /\ \A i \in 1..Len(briefs[s]) : briefs'[s][i] = briefs[s][i]
          /\ briefs'[s][Len(briefs[s]) + 1] =
               [sub |-> id, at |-> SubmittedAt(s), cutoff |-> Cutoff(s),
                status |-> BriefStatus(s), missing |-> missing]
      BY <2>2, <3>2, RevisionAdded DEF Appends
    <3> DEFINE n == Len(briefs[s]) + 1
    <3>3. briefs'[s][n].missing = missing /\ briefs'[s][n].status = BriefStatus(s)
      BY <3>a
    <3>4. ASSUME NEW x \in Session, NEW i \in 1..Len(briefs'[x]), briefs'[x][i].missing
          PROVE  briefs'[x][i].status = "partial"
      <4>1. CASE x # s
        BY <3>4, <3>a, <4>1 DEF MissingIsPartial
      <4>2. CASE x = s /\ i # n
        <5>1. i \in 1..Len(briefs[s]) /\ briefs'[s][i] = briefs[s][i]
          BY <3>a, <4>2
        <5> QED
          BY <3>4, <4>2, <5>1 DEF MissingIsPartial
      <4>3. CASE x = s /\ i = n
        BY <3>1, <3>3, <3>4, <4>3
      <4> QED
        BY <4>1, <4>2, <4>3
    <3> QED
      BY <3>4 DEF MissingIsPartial
  <2> QED
    BY <2>1, <2>2, BriefSteps
<1> QED
  BY Invariant, <1>1, <1>2, PTL DEF Spec

\* A submission id names one revision of its session, however often the
\* plugin retries.
THEOREM RetriesAddNothing == Spec => []SubmissionOnce
<1>1. Init => SubmissionOnce
  BY DEF Init, SubmissionOnce
<1>2. IInv /\ SubmissionOnce /\ [Next]_vars => SubmissionOnce'
  <2> SUFFICES ASSUME IInv, SubmissionOnce, [Next]_vars
               PROVE  SubmissionOnce'
    OBVIOUS
  <2>1. CASE briefs' = briefs
    BY <2>1 DEF SubmissionOnce
  <2>2. ASSUME NEW s \in Session, NEW id \in Submission \cup {None}, NEW missing \in BOOLEAN,
               Appends(s, id, missing)
        PROVE  SubmissionOnce'
    <3>1. TypeOK
      BY DEF IInv
    <3>a. /\ \A x \in Session : x # s => briefs'[x] = briefs[x]
          /\ Len(briefs'[s]) = Len(briefs[s]) + 1
          /\ Len(briefs[s]) \in Nat
          /\ \A i \in 1..Len(briefs[s]) : briefs'[s][i] = briefs[s][i]
          /\ briefs'[s][Len(briefs[s]) + 1] =
               [sub |-> id, at |-> SubmittedAt(s), cutoff |-> Cutoff(s),
                status |-> BriefStatus(s), missing |-> missing]
      BY <2>2, <3>1, RevisionAdded DEF Appends
    <3> DEFINE n == Len(briefs[s]) + 1
    <3>2. briefs'[s][n].sub = id /\ Len(briefs'[s]) = n /\ Len(briefs[s]) \in Nat
      BY <3>a
    <3>3. \A i \in 1..Len(briefs'[s]) : i # n =>
            i \in 1..Len(briefs[s]) /\ briefs'[s][i] = briefs[s][i]
      BY <3>a
    <3> HIDE DEF n
    <3>4. ASSUME NEW x \in Session, NEW i \in 1..Len(briefs'[x]), NEW k \in 1..Len(briefs'[x]),
                 briefs'[x][i].sub = briefs'[x][k].sub, briefs'[x][i].sub # None
          PROVE  i = k
      <4>1. CASE x # s
        BY <3>4, <3>a, <4>1 DEF SubmissionOnce
      <4>2. CASE x = s /\ i # n /\ k # n
        BY <3>3, <3>4, <4>2 DEF SubmissionOnce
      <4>3. CASE x = s /\ (i = n \/ k = n)
        BY <2>2, <3>2, <3>3, <3>4, <4>3 DEF Appends
      <4> QED
        BY <4>1, <4>2, <4>3
    <3> QED
      BY <3>4 DEF SubmissionOnce
  <2> QED
    BY <2>1, <2>2, BriefSteps
<1> QED
  BY Invariant, <1>1, <1>2, PTL DEF Spec

-----------------------------------------------------------------------------
(* Claims pay for deadline revisions *)

\* Workers that hold a claim of s and have not submitted for it.
Owing(s) == {w \in Worker : /\ s \in worker[w].todo
                            /\ ~(worker[w].pc = "finishing" /\ worker[w].cur = s)}

\* The strengthening of RevisionPerClaim: the claims not yet used are paid too.
ClaimsPaid ==
  \A s \in Session : Cardinality(DeadlineRevisions(s)) + Cardinality(Owing(s)) <= job[s].attempts

\* The sets that are counted are finite.
LEMMA CountsFinite ==
  ASSUME TypeOK, NEW s \in Session
  PROVE  /\ IsFiniteSet(DeadlineRevisions(s)) /\ IsFiniteSet(Owing(s))
         /\ Cardinality(DeadlineRevisions(s)) \in Nat /\ Cardinality(Owing(s)) \in Nat
<1>1. Len(briefs[s]) \in Nat
  BY DEF TypeOK
<1>2. IsFiniteSet(1..Len(briefs[s]))
  BY <1>1, FS_Interval
<1>3. IsFiniteSet(DeadlineRevisions(s))
  BY <1>2, FS_Subset DEF DeadlineRevisions
<1>4. IsFiniteSet(Owing(s))
  BY WorkerAssumption, FS_Subset DEF Owing
<1> QED
  BY <1>3, <1>4, FS_CardinalityType

\* A step that adds no deadline revision to s and no claim keeps it paid.
LEMMA StillPaid ==
  ASSUME TypeOK, TypeOK', NEW s \in Session,
         Cardinality(DeadlineRevisions(s)) + Cardinality(Owing(s)) <= job[s].attempts,
         DeadlineRevisions(s)' = DeadlineRevisions(s),
         Owing(s)' \subseteq Owing(s), job'[s].attempts = job[s].attempts
  PROVE  Cardinality(DeadlineRevisions(s)') + Cardinality(Owing(s)') <= job'[s].attempts
<1>1. /\ IsFiniteSet(Owing(s)) /\ Cardinality(Owing(s)) \in Nat
      /\ Cardinality(DeadlineRevisions(s)) \in Nat
  BY CountsFinite
<1>2. Cardinality(Owing(s)') <= Cardinality(Owing(s)) /\ IsFiniteSet(Owing(s)')
  BY <1>1, FS_Subset
<1>3. Cardinality(Owing(s)') \in Nat
  BY <1>2, FS_CardinalityType
<1>4. job[s].attempts \in Nat
  BY DEF TypeOK, JobRow
<1> QED
  BY <1>1, <1>2, <1>3, <1>4

\* The deadline revisions of a session after AppendBrief.
LEMMA RevisionsAfterAppend ==
  ASSUME TypeOK, NEW s \in Session, NEW id \in Submission \cup {None},
         NEW missing \in BOOLEAN, AppendBrief(s, id, missing), NEW x \in Session
  PROVE  DeadlineRevisions(x)' =
           DeadlineRevisions(x) \cup (IF x = s /\ id = None THEN {Len(briefs[s]) + 1} ELSE {})
<1>1. /\ \A y \in Session : y # s => briefs'[y] = briefs[y]
      /\ Len(briefs'[s]) = Len(briefs[s]) + 1
      /\ Len(briefs[s]) \in Nat
      /\ \A i \in 1..Len(briefs[s]) : briefs'[s][i] = briefs[s][i]
      /\ briefs'[s][Len(briefs[s]) + 1].sub = id
  <2>1. /\ \A y \in Session : y # s => briefs'[y] = briefs[y]
        /\ Len(briefs'[s]) = Len(briefs[s]) + 1
        /\ Len(briefs[s]) \in Nat
        /\ \A i \in 1..Len(briefs[s]) : briefs'[s][i] = briefs[s][i]
    BY RevisionAdded
  <2>2. briefs'[s][Len(briefs[s]) + 1] =
          [sub |-> id, at |-> SubmittedAt(s), cutoff |-> Cutoff(s),
           status |-> BriefStatus(s), missing |-> missing]
    BY RevisionAdded
  <2> QED
    BY <2>1, <2>2
<1>2. CASE x # s
  BY <1>1, <1>2 DEF DeadlineRevisions
<1>3. CASE x = s
  <2> DEFINE n == Len(briefs[s]) + 1
  <2>1. \A i : i \in 1..Len(briefs'[s]) <=> i \in 1..Len(briefs[s]) \/ i = n
    BY <1>1
  <2>2. ASSUME NEW i
        PROVE  i \in DeadlineRevisions(s)' <=> i \in DeadlineRevisions(s) \/ (i = n /\ id = None)
    BY <1>1, <2>1 DEF DeadlineRevisions
  <2> QED
    BY <1>3, <2>2
<1> QED
  BY <1>2, <1>3

\* Every claim is paid by an attempt of its job.
LEMMA NextClaimsPaid == IInv /\ IInv' /\ ClaimsPaid /\ [Next]_vars => ClaimsPaid'
<1> SUFFICES ASSUME IInv, IInv', ClaimsPaid, [Next]_vars, NEW x \in Session
             PROVE  Cardinality(DeadlineRevisions(x)') + Cardinality(Owing(x)') <= job'[x].attempts
  BY DEF ClaimsPaid
<1>0. /\ TypeOK /\ TypeOK' /\ job[x] \in JobRow /\ job[x].attempts \in Nat
      /\ \A y \in Session : job[y] \in JobRow
      /\ \A y \in Worker : worker[y] \in WorkerState
      /\ Cardinality(DeadlineRevisions(x)) + Cardinality(Owing(x)) <= job[x].attempts
  BY DEF IInv, TypeOK, JobRow, ClaimsPaid
<1>b. TypeOK /\ TypeOK'
  BY DEF IInv
<1>c. ASSUME NEW s \in Session, job' = job \/ job' = [job EXCEPT ![s] = CompletedJob(s)]
      PROVE  job'[x].attempts = job[x].attempts
  <2>1. CompletedJob(s).attempts = job[s].attempts
    BY <1>0 DEF CompletedJob, JobRow
  <2> QED
    BY <1>b, <1>c, <2>1 DEF TypeOK
\* Steps that change neither the briefs nor the attempts, and take no claim.
<1>a. ASSUME briefs' = briefs, job'[x].attempts = job[x].attempts, Owing(x)' \subseteq Owing(x)
      PROVE  Cardinality(DeadlineRevisions(x)') + Cardinality(Owing(x)') <= job'[x].attempts
  <2>1. DeadlineRevisions(x)' = DeadlineRevisions(x)
    BY <1>a DEF DeadlineRevisions
  <2> QED
    BY <1>0, <1>a, <2>1, StillPaid
<1>1. ASSUME briefs' = briefs, job' = job, worker' = worker
      PROVE  Cardinality(DeadlineRevisions(x)') + Cardinality(Owing(x)') <= job'[x].attempts
  <2>1. Owing(x)' = Owing(x)
    BY <1>1 DEF Owing
  <2> QED
    BY <1>a, <1>1, <2>1
<1>2. ASSUME NEW t \in Ticket, NEW s \in Session, OpenSession(t, s)
      PROVE  Cardinality(DeadlineRevisions(x)') + Cardinality(Owing(x)') <= job'[x].attempts
  <2>1. briefs' = briefs /\ worker' = worker /\ session[s].status = "absent"
    BY <1>2 DEF OpenSession
  <2>2. Owing(x)' = Owing(x) /\ DeadlineRevisions(x)' = DeadlineRevisions(x)
    BY <2>1 DEF Owing, DeadlineRevisions
  <2>3. CASE x = s
    <3>1. briefs[x] = <<>>
      BY <2>1, <2>3 DEF IInv, RowsAgree, Final
    <3>2. DeadlineRevisions(x) = {}
      BY <3>1 DEF DeadlineRevisions
    <3>3. Owing(x) = {}
      BY <2>1, <2>3 DEF Owing, IInv, HeldFactsHold, ClaimsWereDue
    <3>4. job'[x].attempts = 0
      BY <1>0, <1>2, <2>3 DEF OpenSession, TypeOK
    <3> QED
      BY <2>2, <3>2, <3>3, <3>4, FS_EmptySet
  <2>4. CASE x # s
    <3>1. job'[x] = job[x]
      BY <1>0, <1>2, <2>4 DEF OpenSession, TypeOK
    <3> QED
      BY <1>a, <2>1, <2>2, <3>1
  <2> QED
    BY <2>3, <2>4
<1>3. ASSUME NEW s \in Session, NEW id \in Submission, Submit(s, id)
      PROVE  Cardinality(DeadlineRevisions(x)') + Cardinality(Owing(x)') <= job'[x].attempts
  <2>1. AppendBrief(s, id, FALSE) /\ job' = job /\ worker' = worker /\ id # None
    BY <1>3, NoneAssumption DEF Submit
  <2>2. DeadlineRevisions(x)' =
          DeadlineRevisions(x) \cup (IF x = s /\ id = None THEN {Len(briefs[s]) + 1} ELSE {})
    BY <1>b, <2>1, RevisionsAfterAppend
  <2>3. Owing(x)' = Owing(x)
    BY <2>1 DEF Owing
  <2> QED
    BY <1>a, <1>0, <2>1, <2>2, <2>3, StillPaid
<1>4. ASSUME NEW e \in TeacherEnd, TeacherEndCommit(e)
      PROVE  Cardinality(DeadlineRevisions(x)') + Cardinality(Owing(x)') <= job'[x].attempts
  <2>1. briefs' = briefs /\ worker' = worker
    BY <1>4 DEF TeacherEndCommit
  <2>2. job'[x].attempts = job[x].attempts
    <3>1. ending[e].sess \in Session
      BY <1>4 DEF TeacherEndCommit, IInv, HeldFactsHold, RequestsHeld
    <3> QED
      BY <1>0, <1>4, <3>1, RescheduledJob
  <2>3. Owing(x)' = Owing(x)
    BY <2>1 DEF Owing
  <2> QED
    BY <1>a, <2>1, <2>2, <2>3
<1>5. ASSUME NEW w \in Worker, Claim(w)
      PROVE  Cardinality(DeadlineRevisions(x)') + Cardinality(Owing(x)') <= job'[x].attempts
  <2>1. briefs' = briefs /\ worker[w].todo = {} /\ worker[w].pc = "loop"
    BY <1>5 DEF Claim
  <2>2. worker' = [worker EXCEPT ![w] = [worker[w] EXCEPT !.todo = Due]]
    BY <1>5 DEF Claim
  <2>3. /\ worker'[w].todo = Due /\ worker'[w].pc = "loop"
        /\ \A y \in Worker : y # w => worker'[y] = worker[y]
    BY <1>0, <2>1, <2>2 DEF TypeOK, WorkerState
  <2>4. w \notin Owing(x)
    BY <2>1 DEF Owing
  <2>5. CASE x \in Due
    <3>1. Owing(x)' = Owing(x) \cup {w}
      BY <2>3, <2>5 DEF Owing
    <3>2. job'[x] = [job[x] EXCEPT !.status = "leased", !.owner = w,
                                   !.expires = now + Lease, !.attempts = @ + 1]
      BY <1>5, <2>5 DEF Claim
    <3>3. job'[x].attempts = job[x].attempts + 1
      BY <1>0, <3>2 DEF JobRow
    <3>4. Cardinality(Owing(x)') = Cardinality(Owing(x)) + 1
      BY <1>0, <2>4, <3>1, CountsFinite, FS_AddElement
    <3>5. DeadlineRevisions(x)' = DeadlineRevisions(x)
      BY <2>1 DEF DeadlineRevisions
    <3>6. Cardinality(DeadlineRevisions(x)) \in Nat /\ Cardinality(Owing(x)) \in Nat
      BY <1>0, CountsFinite
    <3> QED
      BY <1>0, <3>3, <3>4, <3>5, <3>6
  <2>6. CASE x \notin Due
    <3>1. Owing(x)' \subseteq Owing(x)
      BY <2>3, <2>6 DEF Owing
    <3>2. job'[x] = job[x]
      BY <1>5, <2>6 DEF Claim
    <3> QED
      BY <1>a, <2>1, <3>1, <3>2
  <2> QED
    BY <2>5, <2>6
<1>6. ASSUME NEW w \in Worker, NEW s \in Session,
             CloseDone(w, s) \/ CloseLost(w, s) \/ CloseExisting(w, s) \/ CloseRead(w, s)
      PROVE  Cardinality(DeadlineRevisions(x)') + Cardinality(Owing(x)') <= job'[x].attempts
  <2>1. briefs' = briefs /\ worker[w].pc = "loop"
    BY <1>6 DEF CloseDone, CloseLost, CloseExisting, CloseRead
  <2>2. job'[x].attempts = job[x].attempts
    BY <1>c, <1>6 DEF CloseDone, CloseLost, CloseExisting, CloseRead
  <2>3. worker'[w].todo \subseteq worker[w].todo /\ \A y \in Worker : y # w => worker'[y] = worker[y]
    <3>2. CASE worker' = [worker EXCEPT ![w].todo = @ \ {s}]
      BY <1>b, <3>2 DEF TypeOK, WorkerState
    <3>3. CASE worker' = [worker EXCEPT ![w] = IdleWorker]
      BY <1>b, <3>3 DEF TypeOK, WorkerState, IdleWorker
    <3>4. CASE CloseRead(w, s)
      BY <1>b, <3>4 DEF CloseRead, TypeOK, WorkerState
    <3> QED
      BY <1>6, <3>2, <3>3, <3>4 DEF CloseDone, CloseLost, CloseExisting
  <2>4. Owing(x)' \subseteq Owing(x)
    BY <2>1, <2>3 DEF Owing
  <2> QED
    BY <1>a, <2>1, <2>2, <2>4
<1>7. ASSUME NEW w \in Worker, CloseMark(w) \/ CloseRefused(w) \/ WorkerCrash(w)
      PROVE  Cardinality(DeadlineRevisions(x)') + Cardinality(Owing(x)') <= job'[x].attempts
  <2>1. briefs' = briefs /\ job' = job
    BY <1>7 DEF CloseMark, CloseRefused, WorkerCrash
  <2>2. /\ worker'[w].todo = {} \/ (worker'[w].todo = worker[w].todo /\ worker[w].pc = "marking")
        /\ \A y \in Worker : y # w => worker'[y] = worker[y]
    BY <1>0, <1>7 DEF CloseMark, CloseRefused, WorkerCrash, TypeOK, WorkerState, IdleWorker
  <2>3. Owing(x)' \subseteq Owing(x)
    BY <2>2 DEF Owing
  <2> QED
    BY <1>a, <2>1, <2>3
<1>8. ASSUME NEW w \in Worker, CloseFinish(w)
      PROVE  Cardinality(DeadlineRevisions(x)') + Cardinality(Owing(x)') <= job'[x].attempts
  <2>1. briefs' = briefs
    BY <1>8 DEF CloseFinish
  <2>2. job'[x].attempts = job[x].attempts
    <3>1. worker[w].cur \in Session
      BY <1>b, <1>8 DEF CloseFinish, IInv, HeldFactsHold, CloseInHand, TypeOK, WorkerState
    <3>2. job' = [job EXCEPT ![worker[w].cur] = CompletedJob(worker[w].cur)]
      BY <1>8 DEF CloseFinish
    <3> QED
      BY <1>c, <3>1, <3>2
  <2>3. /\ worker'[w].todo = worker[w].todo \ {worker[w].cur}
        /\ \A y \in Worker : y # w => worker'[y] = worker[y]
    BY <1>0, <1>8 DEF CloseFinish, TypeOK, IdleWorker
  <2>4. Owing(x)' \subseteq Owing(x)
    BY <2>3 DEF Owing
  <2> QED
    BY <1>a, <2>1, <2>2, <2>4
<1>9. ASSUME NEW w \in Worker, CloseSubmit(w)
      PROVE  Cardinality(DeadlineRevisions(x)') + Cardinality(Owing(x)') <= job'[x].attempts
  <2>1. /\ worker[w].cur \in Session /\ worker[w].cur \in worker[w].todo
        /\ (worker[w].first = None) \in BOOLEAN /\ worker[w].pc = "submitting"
    BY <1>0, <1>9 DEF CloseSubmit, IInv, HeldFactsHold, CloseInHand, TypeOK, WorkerState
  <2>2. PICK s \in Session : s = worker[w].cur
    BY <2>1
  <2>3. AppendBrief(s, None, (worker[w].first = None)) /\ job' = job
    BY <1>9, <2>2 DEF CloseSubmit
  <2>4. /\ worker'[w].todo = worker[w].todo /\ worker'[w].cur = s /\ worker'[w].pc = "finishing"
        /\ \A y \in Worker : y # w => worker'[y] = worker[y]
    BY <1>0, <1>9, <2>2 DEF CloseSubmit, TypeOK, WorkerState
  <2>5. DeadlineRevisions(x)' =
          DeadlineRevisions(x) \cup (IF x = s THEN {Len(briefs[s]) + 1} ELSE {})
    <3>1. DeadlineRevisions(x)' =
            DeadlineRevisions(x) \cup (IF x = s /\ None = None THEN {Len(briefs[s]) + 1} ELSE {})
      BY <1>b, <2>1, <2>3, RevisionsAfterAppend
    <3> QED
      BY <3>1
  <2>6. Owing(x)' = Owing(x) \ (IF x = s THEN {w} ELSE {})
    BY <2>1, <2>2, <2>4 DEF Owing
  <2>7. CASE x = s
    <3>1. w \in Owing(x)
      BY <2>1, <2>2, <2>7 DEF Owing
    <3>2. /\ IsFiniteSet(Owing(x)) /\ IsFiniteSet(DeadlineRevisions(x))
          /\ Cardinality(Owing(x)) \in Nat /\ Cardinality(DeadlineRevisions(x)) \in Nat
      BY <1>0, CountsFinite
    <3>3. Cardinality(Owing(x)') = Cardinality(Owing(x)) - 1
      BY <2>6, <2>7, <3>1, <3>2, FS_RemoveElement
    <3>4. Len(briefs[s]) + 1 \notin DeadlineRevisions(x)
      BY <1>0, <2>7 DEF DeadlineRevisions, TypeOK
    <3>5. Cardinality(DeadlineRevisions(x)') = Cardinality(DeadlineRevisions(x)) + 1
      BY <2>5, <2>7, <3>2, <3>4, FS_AddElement
    <3> QED
      BY <1>0, <2>3, <3>2, <3>3, <3>5
  <2>8. CASE x # s
    <3>1. DeadlineRevisions(x)' = DeadlineRevisions(x) /\ Owing(x)' \subseteq Owing(x)
      BY <2>5, <2>6, <2>8
    <3> QED
      BY <1>0, <2>3, <3>1, StillPaid
  <2> QED
    BY <2>7, <2>8
<1>10. CASE Quiet
  BY <1>1, <1>10 DEF Quiet
<1>11. ASSUME \/ \E u \in Upload : UploadCommit(u)
              \/ \E e \in TeacherEnd, s \in Session, end \in 0..SchedEnd : TeacherEndRead(e, s, end)
       PROVE  UNCHANGED <<briefs, job, worker>>
  BY <1>11 DEF UploadCommit, TeacherEndRead
<1> QED
  BY <1>0, <1>1, <1>2, <1>3, <1>4, <1>5, <1>6, <1>7, <1>8, <1>9, <1>10, <1>11, StepCases

\* However leases expire, workers crash and teachers reset the job, each
\* claim of a deadline job pays for at most one deadline revision.
THEOREM ClaimsPayForRevisions == Spec => []RevisionPerClaim
<1>1. Init => ClaimsPaid
  <2> SUFFICES ASSUME Init, NEW s \in Session
               PROVE  Cardinality(DeadlineRevisions(s)) + Cardinality(Owing(s)) <= job[s].attempts
    BY DEF ClaimsPaid
  <2>1. DeadlineRevisions(s) = {} /\ Owing(s) = {} /\ job[s].attempts = 0
    BY DEF Init, DeadlineRevisions, Owing, IdleWorker, NoJob
  <2> QED
    BY <2>1, FS_EmptySet
<1>2. IInv /\ ClaimsPaid => RevisionPerClaim
  <2> SUFFICES ASSUME IInv, ClaimsPaid, NEW s \in Session
               PROVE  Cardinality(DeadlineRevisions(s)) <= job[s].attempts
    BY DEF RevisionPerClaim
  <2>1. TypeOK /\ job[s].attempts \in Nat
    BY DEF IInv, TypeOK, JobRow
  <2> QED
    BY <2>1, CountsFinite DEF ClaimsPaid
<1> QED
  BY Invariant, <1>1, <1>2, NextClaimsPaid, PTL DEF Spec

-----------------------------------------------------------------------------
(* Receipts *)

\* Only an upload that finds its chunk number free, or a replay, gives a receipt.
LEMMA ReceiptSteps ==
  ASSUME [Next]_vars
  PROVE  \/ UNCHANGED <<chunk, receipts>>
         \/ \E u \in Upload : UploadCommit(u)
         \/ \E s \in Session, n \in Seqs, c \in Content : ReplayEvidence(s, n, c)
<1>1. CASE UNCHANGED vars
  BY <1>1 DEF vars
<1>2. ASSUME NEW t \in Ticket, TicketStep(t) PROVE UNCHANGED <<chunk, receipts>>
  BY <1>2 DEF TicketStep, IssueTicket, RegisterBegin, ResumeSession, RegisterAbort, OpenSession
<1>3. ASSUME NEW s \in Session, PluginStep(s)
      PROVE  \/ UNCHANGED <<chunk, receipts>>
             \/ \E n \in Seqs, c \in Content : ReplayEvidence(s, n, c)
  BY <1>3 DEF PluginStep, HeartbeatRead, Submit, UploadRead, plugin
<1>4. ASSUME NEW u \in Upload, UploadAbort(u) PROVE UNCHANGED <<chunk, receipts>>
  BY <1>4 DEF UploadAbort
<1>5. ASSUME NEW b \in Beat, HeartbeatWrite(b) PROVE UNCHANGED <<chunk, receipts>>
  BY <1>5 DEF HeartbeatWrite
<1>6. ASSUME NEW e \in TeacherEnd, TeacherStep(e) PROVE UNCHANGED <<chunk, receipts>>
  BY <1>6 DEF TeacherStep, TeacherEndRead, TeacherEndCommit, plugin
<1>7. ASSUME NEW w \in Worker, WorkerStep(w) \/ WorkerCrash(w) PROVE UNCHANGED <<chunk, receipts>>
  BY <1>7 DEF WorkerStep, CloseRefused, WorkerCrash, Claim, CloseMark, CloseSubmit, CloseFinish, CloseDone,
              CloseLost, CloseExisting, CloseRead, plugin
<1>8. CASE Tick
  BY <1>8 DEF Tick, plugin
<1> QED
  BY <1>1, <1>2, <1>3, <1>4, <1>5, <1>6, <1>7, <1>8 DEF Next, UploadStep

\* A receipt once sent stays true: no later upload of that chunk number
\* replaces what it acknowledged.
THEOREM ReceiptsStayTrue == Spec => []ReceiptsHonoured
<1>1. Init => ReceiptsHonoured
  BY DEF Init, ReceiptsHonoured
<1>2. IInv /\ ReceiptsHonoured /\ [Next]_vars => ReceiptsHonoured'
  <2> SUFFICES ASSUME IInv, ReceiptsHonoured, [Next]_vars
               PROVE  ReceiptsHonoured'
    OBVIOUS
  <2>0. TypeOK
    BY DEF IInv
  <2>1. CASE UNCHANGED <<chunk, receipts>>
    BY <2>1 DEF ReceiptsHonoured
  <2>2. ASSUME NEW s \in Session, NEW n \in Seqs, NEW c \in Content, ReplayEvidence(s, n, c)
        PROVE  ReceiptsHonoured'
    BY <2>2 DEF ReplayEvidence, ReceiptsHonoured
  <2>3. ASSUME NEW u \in Upload, UploadCommit(u) PROVE ReceiptsHonoured'
    <3> DEFINE r == uploading[u]
    <3>1. r \in ChunkRow
      BY <2>0, <2>3 DEF UploadCommit, TypeOK
    <3>2. r.sess \in Session /\ r.seq \in Seqs /\ r.body \in Content
      BY <3>1 DEF ChunkRow
    <3>3. /\ chunk[r.sess][r.seq] = None
          /\ chunk' = [chunk EXCEPT ![r.sess][r.seq] = r.body]
          /\ receipts' = receipts \cup {<<r.sess, r.seq, r.body>>}
      BY <2>3 DEF UploadCommit
    <3> HIDE DEF r
    <3>4. /\ chunk'[r.sess][r.seq] = r.body
          /\ \A s \in Session, n \in Seqs :
               s # r.sess \/ n # r.seq => chunk'[s][n] = chunk[s][n]
      BY <2>0, <3>2, <3>3 DEF TypeOK
    <3>5. ASSUME NEW q \in receipts PROVE chunk'[q[1]][q[2]] = q[3]
      <4>1. q[1] \in Session /\ q[2] \in Seqs /\ q[3] \in Content /\ chunk[q[1]][q[2]] = q[3]
        BY <2>0, <3>5 DEF TypeOK, ReceiptsHonoured
      <4>2. q[1] # r.sess \/ q[2] # r.seq
        BY <3>3, <4>1, NoneAssumption
      <4> QED
        BY <3>4, <4>1, <4>2
    <3> QED
      BY <3>3, <3>4, <3>5 DEF ReceiptsHonoured
  <2> QED
    BY <2>1, <2>2, <2>3, ReceiptSteps
<1> QED
  BY Invariant, <1>1, <1>2, PTL DEF Spec

-----------------------------------------------------------------------------
(* The service implements LogicalBrief *)

\* What LogicalBrief sees of a session.
Seen(s) == [phase |-> Phase(s), revisions |-> Len(briefs[s]),
            submittedAt |-> IF briefs[s] = <<>> THEN 0 ELSE briefs[s][Len(briefs[s])].at]

\* The initial states refine those of LogicalBrief.
LEMMA InitImplements == Init => LB!Init
<1> SUFFICES ASSUME Init
             PROVE  LB!Init
  OBVIOUS
<1>1. \A s \in Session : Phase(s) = "none" /\ briefs[s] = <<>>
  BY DEF Init, Phase, NoRow
<1> QED
  BY <1>1 DEF LB!Init, LB!NoBrief

\* Every step of the service is a step of LogicalBrief or changes nothing it sees.
LEMMA StepImplements ==
  ASSUME IInv, IInv', [Next]_vars
  PROVE  \/ \E s \in Session : LB!Open(s) \/ LB!Close(s) \/ LB!Revise(s)
         \/ [s \in Session |-> Seen(s)]' = [s \in Session |-> Seen(s)]
<1>0. TypeOK /\ \A s \in Session : session[s] \in SessionRow
  BY DEF IInv, TypeOK
<1>1. CASE \E t \in Ticket, s \in Session : OpenSession(t, s)
  <2>1. PICK t \in Ticket, s \in Session : OpenSession(t, s)
    BY <1>1
  <2>2. session[s].status = "absent" /\ briefs' = briefs
    BY <2>1 DEF OpenSession
  <2>3. session'[s].status = "collecting" /\ \A x \in Session : x # s => session'[x] = session[x]
    BY <1>0, <2>1 DEF OpenSession, TypeOK
  <2>4. Phase(s) = "none" /\ Phase(s)' = "open" /\ \A x \in Session : x # s => Phase(x)' = Phase(x)
    BY <2>2, <2>3 DEF Phase
  <2>5. LB!Open(s)
    BY <2>2, <2>4 DEF LB!Open
  <2> QED
    BY <2>5
<1>2. CASE \E s \in Session, id \in Submission \cup {None}, missing \in BOOLEAN : Appends(s, id, missing)
  <2>1. PICK s \in Session, id \in Submission \cup {None}, missing \in BOOLEAN : Appends(s, id, missing)
    BY <1>2
  <2>2. AppendBrief(s, id, missing) /\ session[s].status # "absent"
    BY <2>1 DEF Appends
  <2>3. /\ session'[s].status \in Final
        /\ \A x \in Session : x # s => session'[x] = session[x]
    BY <1>0, <2>2, AppendBriefAgrees DEF IInv
  <2>4. /\ \A x \in Session : x # s => briefs'[x] = briefs[x]
        /\ Len(briefs'[s]) = Len(briefs[s]) + 1
        /\ Len(briefs[s]) \in Nat
    BY <1>0, <2>2, RevisionAdded
  <2>5. briefs'[s][Len(briefs[s]) + 1] =
          [sub |-> id, at |-> SubmittedAt(s), cutoff |-> Cutoff(s),
           status |-> BriefStatus(s), missing |-> missing]
    BY <1>0, <2>2, RevisionAdded
  <2>6. briefs'[s][Len(briefs'[s])].at = SubmittedAt(s) /\ briefs'[s] # <<>>
    BY <2>4, <2>5
  <2>7. Phase(s)' = "closed" /\ \A x \in Session : x # s => Seen(x)' = Seen(x)
    BY <2>3, <2>4 DEF Phase, Final, Seen
  <2>8. CASE briefs[s] = <<>>
    <3>1. Phase(s) = "open" /\ Len(briefs'[s]) = 1
      BY <1>0, <2>2, <2>4, <2>8 DEF Phase, IInv, RowsAgree, SessionRow, Final
    <3>2. Seen(s)' = [phase |-> "closed", revisions |-> 1, submittedAt |-> now] /\ now \in Nat
      BY <1>0, <2>6, <2>7, <2>8, <3>1 DEF Seen, SubmittedAt, TypeOK
    <3>3. LB!Close(s)
      BY <2>7, <3>1, <3>2 DEF LB!Close, Seen
    <3> QED
      BY <3>3
  <2>9. CASE briefs[s] # <<>>
    <3>1. Phase(s) = "closed"
      BY <2>9 DEF Phase, IInv, RowsAgree, Final
    <3>2. Seen(s) = [phase |-> "closed", revisions |-> Len(briefs[s]), submittedAt |-> SubmittedAt(s)]
      BY <2>9, <3>1 DEF Seen, SubmittedAt
    <3>3. Seen(s)' = [phase |-> "closed", revisions |-> Len(briefs[s]) + 1,
                      submittedAt |-> SubmittedAt(s)]
      BY <2>4, <2>6, <2>7 DEF Seen
    <3>4. Seen(s)' = [Seen(s) EXCEPT !.revisions = Len(briefs[s]) + 1]
      BY <3>2, <3>3
    <3>5. [x \in Session |-> Seen(x)'] =
            [[x \in Session |-> Seen(x)] EXCEPT ![s] = [Seen(s) EXCEPT !.revisions = Len(briefs[s]) + 1]]
      BY <2>7, <3>4
    <3>6. LB!Revise(s)
      BY <3>1, <3>2, <3>5 DEF LB!Revise, Seen
    <3> QED
      BY <3>6
  <2> QED
    BY <2>8, <2>9
<1>3. CASE briefs' = briefs /\ \A x \in Session : session'[x].status = session[x].status
  BY <1>3 DEF Seen, Phase
<1>4. ASSUME NEW w \in Worker, CloseMark(w)
      PROVE  briefs' = briefs /\ \A x \in Session : session'[x].status = session[x].status
  BY <1>0, <1>4 DEF CloseMark, TypeOK, SessionRow
<1>5. ASSUME \/ \E u \in Upload : UploadCommit(u)
             \/ \E e \in TeacherEnd : TeacherEndCommit(e)
      PROVE  briefs' = briefs /\ \A x \in Session : session'[x].status = session[x].status
  BY <1>0, <1>5, ColumnsKept DEF UploadCommit, TeacherEndCommit
<1>6. ASSUME \/ Quiet
             \/ \E e \in TeacherEnd, s \in Session, end \in 0..SchedEnd : TeacherEndRead(e, s, end)
             \/ \E w \in Worker : Claim(w) \/ CloseFinish(w) \/ CloseRefused(w) \/ WorkerCrash(w)
             \/ \E w \in Worker, s \in Session : \/ CloseDone(w, s) \/ CloseLost(w, s)
                                                 \/ CloseExisting(w, s) \/ CloseRead(w, s)
      PROVE  briefs' = briefs /\ session' = session
  BY ZenonT(40), <1>6 DEF Quiet, TeacherEndRead, Claim, CloseFinish, CloseRefused, WorkerCrash, CloseDone, CloseLost,
              CloseExisting, CloseRead
<1>7. ASSUME briefs' # briefs
      PROVE  \E s \in Session, id \in Submission \cup {None}, missing \in BOOLEAN : Appends(s, id, missing)
  BY <1>7, BriefSteps
<1>8. ASSUME NEW s \in Session, NEW id \in Submission \cup {None}, NEW missing \in BOOLEAN,
             AppendBrief(s, id, missing)
      PROVE  briefs' # briefs
  <2>1. Len(briefs'[s]) = Len(briefs[s]) + 1 /\ Len(briefs[s]) \in Nat
    BY <1>0, <1>8, RevisionAdded
  <2> QED
    BY <2>1
<1>9. ASSUME NEW s \in Session, NEW id \in Submission, Submit(s, id) PROVE briefs' # briefs
  <2>1. AppendBrief(s, id, FALSE)
    BY <1>9 DEF Submit
  <2> QED
    BY <1>8, <2>1
<1>10. ASSUME NEW w \in Worker, CloseSubmit(w) PROVE briefs' # briefs
  <2>1. worker[w].cur \in Session /\ (worker[w].first = None) \in BOOLEAN
    BY <1>0, <1>10 DEF CloseSubmit, IInv, HeldFactsHold, CloseInHand, TypeOK, WorkerState
  <2>2. AppendBrief(worker[w].cur, None, (worker[w].first = None))
    BY <1>10 DEF CloseSubmit
  <2> QED
    BY <1>8, <2>1, <2>2
<1> QED
  BY <1>0, <1>1, <1>2, <1>3, <1>4, <1>5, <1>6, <1>7, <1>9, <1>10, StepCases

\* The service keeps the promise of LogicalBrief: whoever closes a session,
\* it is closed once, later revisions keep the time of its first submission
\* and nothing reopens it.
THEOREM ImplementsLogicalBrief == Spec => OneLogicalBrief
<1>1. IInv /\ IInv' /\ [Next]_vars => [LB!Next]_([s \in Session |-> Seen(s)])
  BY StepImplements DEF LB!Next
<1> QED
  BY Invariant, InitImplements, <1>1, PTL DEF Spec, OneLogicalBrief, LB!Safety, Seen

=============================================================================
