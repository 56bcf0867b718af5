---------------------------- MODULE ClassroomSession ----------------------------
(***************************************************************************)
(* The classroom-sync service around one student assignment: one-use       *)
(* launch tickets, monitor sessions, heartbeats, evidence chunks, brief    *)
(* submission, the teacher's early end and the deadline worker.            *)
(*                                                                         *)
(* PostgreSQL runs at READ COMMITTED and the ORM session does not          *)
(* autoflush.  A transaction that takes its row lock before it reads is    *)
(* one action; a transaction that reads a row it has not locked is split   *)
(* at that read, and what it read is kept until it commits.  At commit the *)
(* ORM writes only the columns whose value differs from the one read       *)
(* (Flush).  Assignments share no row, so one is enough.                   *)
(*                                                                         *)
(* Finite pools (Session, Ticket, Submission, Upload, Beat, TeacherEnd)    *)
(* bound the number of requests; MaxSeq, MaxTime and MaxCrash bound the    *)
(* chunk numbers, the clock and the worker crashes.                        *)
(*                                                                         *)
(* A definition named ..._Slip is its neighbour with one slip a programmer *)
(* could make; it is not part of the specification, and shows which        *)
(* property notices the slip.                                              *)
(***************************************************************************)
EXTENDS Integers, Sequences, FiniteSets

CONSTANTS
  Session,      \* ids of monitor sessions
  Ticket,       \* launch tickets
  Submission,   \* submission ids the plugin may send
  Upload,       \* evidence requests in flight at once
  Beat,         \* heartbeat requests in flight at once
  TeacherEnd,   \* early-end requests the teacher may send
  Worker,       \* worker processes
  Content,      \* hashes of evidence bodies
  CodeFirst,    \* bodies whose first event is a run or an edit, which the manifest keeps
  MaxSeq,       \* highest chunk number the plugin sends
  SchedEnd,     \* assignment.scheduled_end_at
  Grace,        \* the 15 minutes after the end
  Lease,        \* DEFAULT_LEASE_SECONDS
  TicketTTL,    \* TICKET_TTL_SECONDS
  MaxTime,      \* last instant of the clock
  MaxCrash,     \* worker crashes
  None

ASSUME TimeAssumption ==
  /\ SchedEnd \in Nat /\ Grace \in Nat /\ Lease \in Nat \ {0}
  /\ TicketTTL \in Nat \ {0} /\ MaxTime \in Nat /\ MaxCrash \in Nat
  /\ MaxSeq \in Nat

AssignmentStatus == {"ready", "active", "submitted"}
Final == {"completed", "partial"}

ASSUME NoneAssumption ==
  /\ None \notin Worker \cup Submission \cup Content \cup Session
  /\ None \notin AssignmentStatus

ASSUME WorkerAssumption == IsFiniteSet(Worker)

ASSUME ContentAssumption == CodeFirst \subseteq Content

VARIABLES
  now,          \* the injected clock
  assignment,   \* StudentAssignment.status
  ticket,       \* ClassroomTicket rows
  registering,  \* a registration holding the ticket row: the assignment status it read
  session,      \* MonitorSession rows
  beating,      \* heartbeat transactions between read and commit
  chunk,        \* EvidenceChunk rows: content by session and sequence
  uploading,    \* evidence transactions between read and commit
  receipts,     \* evidence receipts sent to the plugin
  briefs,       \* StudentBrief revisions of each session
  job,          \* ClassroomDeadlineJob rows
  ending,       \* teacher-end requests
  worker,       \* the process state of the deadline workers
  crashes       \* worker crashes so far

vars == <<now, assignment, ticket, registering, session, beating, chunk,
          uploading, receipts, briefs, job, ending, worker, crashes>>

plugin == <<ticket, registering, beating, uploading, receipts>>

Seqs == 1..MaxSeq
IdleWorker == [pc |-> "loop", todo |-> {}, cur |-> None, first |-> None]
NoJob == [status |-> "absent", runAt |-> 0, owner |-> None, expires |-> 0, attempts |-> 0]
NoRow == [status |-> "absent", end |-> 0, last |-> 0, completeness |-> "complete"]

Init ==
  /\ now = 0
  /\ assignment = "ready"
  /\ ticket = [t \in Ticket |-> [state |-> "absent", expires |-> 0]]
  /\ registering = [t \in Ticket |-> None]
  /\ session = [s \in Session |-> NoRow]
  /\ beating = [b \in Beat |-> None]
  /\ chunk = [s \in Session |-> [n \in Seqs |-> None]]
  /\ uploading = [u \in Upload |-> None]
  /\ receipts = {}
  /\ briefs = [s \in Session |-> <<>>]
  /\ job = [s \in Session |-> NoJob]
  /\ ending = [e \in TeacherEnd |-> [pc |-> "idle", sess |-> None, end |-> 0, read |-> 0]]
  /\ worker = [w \in Worker |-> IdleWorker]
  /\ crashes = 0

-----------------------------------------------------------------------------
(* What the rows say *)

\* A column after the ORM commit: written only when the value assigned
\* differs from the value this transaction had read.
Flush(read, assigned, stored) == IF assigned = read THEN stored ELSE assigned

\* actual_end_at and evidence_cutoff_at are always written together.
Cutoff(s) == session[s].end + Grace

\* active_slot is 1 from creation to the first brief, as status is "collecting".
Active == {s \in Session : session[s].status = "collecting"}

\* c is the body of the first chunk there is, None when there is none.
FirstBody(s, c) ==
  \/ c = None /\ \A n \in Seqs : chunk[s][n] = None
  \/ \E n \in Seqs : /\ c = chunk[s][n] /\ c # None
                     /\ \A k \in Seqs : k < n => chunk[s][k] = None

\* The evidence the deadline brief of a session refers to: the first event of
\* the first chunk, or that there is none.  The manifest keeps runs and edits
\* only, and a reference to any other event is refused.
Referable == CodeFirst \cup {None}

\* The lease of a job claimed by now runs out before the modelled time ends.
LeaseEndsInTime == now + Lease <= MaxTime

\* The job row is locked by a first close transaction that has not committed.
JobFree(s) == \A w \in Worker : ~(worker[w].pc = "marking" /\ worker[w].cur = s)

-----------------------------------------------------------------------------
(* Launch tickets and registration *)

IssueTicket(t) ==
  /\ ticket[t].state = "absent"
  /\ ticket' = [ticket EXCEPT ![t] = [state |-> "issued", expires |-> now + TicketTTL]]
  /\ UNCHANGED <<now, assignment, registering, session, beating, chunk, uploading,
                 receipts, briefs, job, ending, worker, crashes>>

\* Lock the ticket row, check it, then read the assignment without a lock.
RegisterBegin(t) ==
  /\ ticket[t].state = "issued" /\ now < ticket[t].expires
  /\ registering[t] = None
  /\ assignment \in {"ready", "active"}
  /\ registering' = [registering EXCEPT ![t] = assignment]
  /\ UNCHANGED <<now, assignment, ticket, session, beating, chunk, uploading,
                 receipts, briefs, job, ending, worker, crashes>>

CommitRegistration(t) ==
  /\ assignment' = Flush(registering[t], "active", assignment)
  /\ ticket' = [ticket EXCEPT ![t].state = "consumed"]
  /\ registering' = [registering EXCEPT ![t] = None]

\* The active session exists: it is locked, found collecting and kept.
ResumeSession(t) ==
  /\ registering[t] # None
  /\ Active # {}
  /\ CommitRegistration(t)
  /\ UNCHANGED <<now, session, beating, chunk, uploading, receipts, briefs, job,
                 ending, worker, crashes>>

\* No row has active_slot = 1: insert a session and its deadline job.
OpenSession(t, s) ==
  /\ registering[t] # None
  /\ Active = {}
  /\ session[s].status = "absent"
  /\ session' = [session EXCEPT ![s] = [status |-> "collecting", end |-> SchedEnd,
                                        last |-> 0, completeness |-> "complete"]]
  /\ job' = [job EXCEPT ![s] = [status |-> "pending", runAt |-> SchedEnd + Grace,
                                owner |-> None, expires |-> 0, attempts |-> 0]]
  /\ CommitRegistration(t)
  /\ UNCHANGED <<now, beating, chunk, uploading, receipts, briefs, ending, worker, crashes>>

\* The transaction rolls back: a lost connection, or the unique active slot
\* taken by another registration since the lookup.
RegisterAbort(t) ==
  /\ registering[t] # None
  /\ registering' = [registering EXCEPT ![t] = None]
  /\ UNCHANGED <<now, assignment, ticket, session, beating, chunk, uploading,
                 receipts, briefs, job, ending, worker, crashes>>

-----------------------------------------------------------------------------
(* Heartbeats and evidence: the session row is read without a lock *)

HeartbeatRead(b, s) ==
  /\ beating[b] = None
  /\ session[s].status = "collecting"
  /\ beating' = [beating EXCEPT ![b] = s]
  /\ UNCHANGED <<now, assignment, ticket, registering, session, chunk, uploading,
                 receipts, briefs, job, ending, worker, crashes>>

\* Only last_heartbeat_at changes: the status read was already "collecting".
HeartbeatWrite(b) ==
  /\ beating[b] # None
  /\ session' = [session EXCEPT ![beating[b]].status = Flush("collecting", "collecting", @)]
  /\ beating' = [beating EXCEPT ![b] = None]
  /\ UNCHANGED <<now, assignment, ticket, registering, chunk, uploading,
                 receipts, briefs, job, ending, worker, crashes>>

\* A chunk already stored with this content: the old receipt is sent again.
\* With another content the request fails and changes nothing.
ReplayEvidence(s, n, c) ==
  /\ session[s].status = "collecting"
  /\ chunk[s][n] = c
  /\ receipts' = receipts \cup {<<s, n, c>>}
  /\ UNCHANGED <<now, assignment, ticket, registering, session, beating, chunk,
                 uploading, briefs, job, ending, worker, crashes>>

UploadRead(u, s, n, c) ==
  /\ uploading[u] = None
  /\ session[s].status = "collecting"
  /\ chunk[s][n] = None
  /\ uploading' = [uploading EXCEPT ![u] =
                     [sess |-> s, seq |-> n, body |-> c, last |-> session[s].last]]
  /\ UNCHANGED <<now, assignment, ticket, registering, session, beating, chunk,
                 receipts, briefs, job, ending, worker, crashes>>

\* No unique constraint on (session_id, sequence): the last upload wins.
UploadCommit_Slip(u) ==
  LET r == uploading[u] IN
  /\ r # None /\ LeaseEndsInTime
  /\ chunk' = [chunk EXCEPT ![r.sess][r.seq] = r.body]
  /\ session' = [session EXCEPT ![r.sess].last =
                   Flush(r.last, IF r.seq > r.last THEN r.seq ELSE r.last, @)]
  /\ receipts' = receipts \cup {<<r.sess, r.seq, r.body>>}
  /\ uploading' = [uploading EXCEPT ![u] = None]
  /\ UNCHANGED <<now, assignment, ticket, registering, beating, briefs, job,
                 ending, worker, crashes>>

\* The body is in the object store; the row is inserted under the unique
\* constraint on (session_id, sequence).
UploadCommit(u) ==
  LET r == uploading[u] IN
  /\ r # None
  /\ chunk[r.sess][r.seq] = None /\ LeaseEndsInTime
  /\ chunk' = [chunk EXCEPT ![r.sess][r.seq] = r.body]
  /\ session' = [session EXCEPT ![r.sess].last =
                   Flush(r.last, IF r.seq > r.last THEN r.seq ELSE r.last, @)]
  /\ receipts' = receipts \cup {<<r.sess, r.seq, r.body>>}
  /\ uploading' = [uploading EXCEPT ![u] = None]
  /\ UNCHANGED <<now, assignment, ticket, registering, beating, briefs, job,
                 ending, worker, crashes>>

\* The unique constraint, the store or the connection failed: roll back.
UploadAbort(u) ==
  /\ uploading[u] # None
  /\ uploading' = [uploading EXCEPT ![u] = None]
  /\ UNCHANGED <<now, assignment, ticket, registering, session, beating, chunk,
                 receipts, briefs, job, ending, worker, crashes>>

-----------------------------------------------------------------------------
(* Submission: BriefService.submit locks the session row first *)

\* Each revision stamped with its own time.
SubmittedAt_Slip(s) == now

SubmittedAt(s) == IF briefs[s] = <<>> THEN now ELSE briefs[s][Len(briefs[s])].at

\* The completeness taken for the brief's status.
BriefStatus_Slip(s) == session[s].completeness

BriefStatus(s) == IF session[s].completeness = "complete" THEN "completed" ELSE "partial"

\* Only the first brief moves the session's status.
AppendBrief_Slip(s, id, missing) ==
  /\ briefs' = [briefs EXCEPT ![s] = Append(@,
                  [sub |-> id, at |-> SubmittedAt(s), cutoff |-> Cutoff(s),
                   status |-> BriefStatus(s), missing |-> missing])]
  /\ session' = [session EXCEPT ![s].status = IF briefs[s] = <<>> THEN BriefStatus(s) ELSE @]
  /\ assignment' = "submitted"

AppendBrief(s, id, missing) ==
  /\ briefs' = [briefs EXCEPT ![s] = Append(@,
                  [sub |-> id, at |-> SubmittedAt(s), cutoff |-> Cutoff(s),
                   status |-> BriefStatus(s), missing |-> missing])]
  /\ session' = [session EXCEPT ![s].status = BriefStatus(s)]
  /\ assignment' = "submitted"

\* A retried submission is not looked up.
Submit_Slip(s, id) ==
  /\ session[s].status # "absent" /\ LeaseEndsInTime
  /\ AppendBrief(s, id, FALSE)
  /\ UNCHANGED <<now, plugin, chunk, job, ending, worker, crashes>>

\* A submission id already used by this session replays the stored revision
\* (or, with another hash, is refused): either way nothing changes.
Submit(s, id) ==
  /\ session[s].status # "absent" /\ LeaseEndsInTime
  /\ \A i \in 1..Len(briefs[s]) : briefs[s][i].sub # id
  /\ AppendBrief(s, id, FALSE)
  /\ UNCHANGED <<now, plugin, chunk, job, ending, worker, crashes>>

-----------------------------------------------------------------------------
(* The teacher's early end: the session row is read before the job is locked *)

TeacherEndRead(e, s, end) ==
  /\ ending[e].pc = "idle"
  /\ session[s].status # "absent"
  /\ end <= session[s].end
  /\ ending' = [ending EXCEPT ![e] =
                  [pc |-> "read", sess |-> s, end |-> end, read |-> session[s].end]]
  /\ UNCHANGED <<now, assignment, plugin, session, chunk, briefs, job, worker, crashes>>

TeacherEndCommit(e) ==
  LET r == ending[e] IN
  /\ r.pc = "read"
  /\ JobFree(r.sess)
  /\ session' = [session EXCEPT ![r.sess].end = Flush(r.read, r.end, @)]
  /\ job' = IF job[r.sess].status = "completed" THEN job
            ELSE [job EXCEPT ![r.sess].status = "pending",
                             ![r.sess].runAt = r.end + Grace,
                             ![r.sess].owner = None,
                             ![r.sess].expires = 0]
  /\ ending' = [ending EXCEPT ![e].pc = "done"]
  /\ UNCHANGED <<now, assignment, plugin, chunk, briefs, worker, crashes>>

-----------------------------------------------------------------------------
(* The deadline worker: claim, then close each claimed session in turn.     *)
(* close_session is three transactions: read and mark, submit, finish.      *)

\* run_at is not compared with the claim time.
Due_Slip == {s \in Session : /\ job[s].status \in {"pending", "leased"}
                             /\ job[s].owner = None \/ job[s].expires <= now
                             /\ JobFree(s)}

\* A leased job is never reclaimed.
DueOnce_Slip == {s \in Session : /\ job[s].status = "pending"
                                 /\ job[s].runAt <= now
                                 /\ JobFree(s)}

Due == {s \in Session : /\ job[s].status \in {"pending", "leased"}
                        /\ job[s].runAt <= now
                        /\ job[s].owner = None \/ job[s].expires <= now
                        /\ JobFree(s)}

Claim(w) ==
  /\ worker[w].pc = "loop" /\ worker[w].todo = {}
  /\ Due # {}
  /\ job' = [s \in Session |->
               IF s \in Due
               THEN [job[s] EXCEPT !.status = "leased", !.owner = w,
                                   !.expires = now + Lease, !.attempts = @ + 1]
               ELSE job[s]]
  /\ worker' = [worker EXCEPT ![w].todo = Due]
  /\ UNCHANGED <<now, assignment, plugin, session, chunk, briefs, ending, crashes>>

CompletedJob(s) == [job[s] EXCEPT !.status = "completed", !.owner = None, !.expires = 0]

\* The job is already completed, by another worker's close.
CloseDone(w, s) ==
  /\ worker[w].pc = "loop" /\ s \in worker[w].todo /\ JobFree(s)
  /\ job[s].status = "completed"
  /\ worker' = [worker EXCEPT ![w].todo = @ \ {s}]
  /\ UNCHANGED <<now, assignment, plugin, session, chunk, briefs, job, ending, crashes>>

\* The lease was cleared or taken: the error leaves run_due_deadlines and
\* ends the process, with every other claim of this tick.
CloseLost(w, s) ==
  /\ worker[w].pc = "loop" /\ s \in worker[w].todo /\ JobFree(s)
  /\ job[s].status # "completed" /\ job[s].owner # w
  /\ worker' = [worker EXCEPT ![w] = IdleWorker]
  /\ UNCHANGED <<now, assignment, plugin, session, chunk, briefs, job, ending, crashes>>

\* A brief exists: complete the job without touching it.
CloseExisting(w, s) ==
  /\ worker[w].pc = "loop" /\ s \in worker[w].todo /\ JobFree(s)
  /\ job[s].status # "completed" /\ job[s].owner = w
  /\ briefs[s] # <<>>
  /\ job' = [job EXCEPT ![s] = CompletedJob(s)]
  /\ worker' = [worker EXCEPT ![w].todo = @ \ {s}]
  /\ UNCHANGED <<now, assignment, plugin, session, chunk, briefs, ending, crashes>>

\* No brief: read the evidence, of which the first chunk counts.  Without
\* any, the session is to be marked partial at commit, the job row locked
\* until then.
CloseRead(w, s) ==
  /\ worker[w].pc = "loop" /\ s \in worker[w].todo /\ JobFree(s)
  /\ job[s].status # "completed" /\ job[s].owner = w
  /\ briefs[s] = <<>>
  /\ \E c \in Content \cup {None} :
       /\ FirstBody(s, c)
       /\ worker' = [worker EXCEPT ![w].pc = IF c = None THEN "marking" ELSE "submitting",
                                   ![w].cur = s, ![w].first = c]
  /\ UNCHANGED <<now, assignment, plugin, session, chunk, briefs, job, ending, crashes>>

CloseMark(w) ==
  LET s == worker[w].cur IN
  /\ worker[w].pc = "marking"
  /\ session' = [session EXCEPT ![s].completeness = "partial"]
  /\ worker' = [worker EXCEPT ![w].pc = "submitting"]
  /\ UNCHANGED <<now, assignment, plugin, chunk, briefs, job, ending, crashes>>

\* A lost reply to the submission makes the worker send it again.
CloseSubmit_Slip(w) ==
  /\ worker[w].pc = "submitting" /\ worker[w].first \in Referable
  /\ AppendBrief(worker[w].cur, None, worker[w].first = None)
  /\ \E pc \in {"submitting", "finishing"} : worker' = [worker EXCEPT ![w].pc = pc]
  /\ UNCHANGED <<now, plugin, chunk, job, ending, crashes>>

\* BriefService.submit without a submission id: it looks at neither the
\* lease nor an existing brief.
CloseSubmit(w) ==
  /\ worker[w].pc = "submitting" /\ worker[w].first \in Referable
  /\ AppendBrief(worker[w].cur, None, worker[w].first = None)
  /\ worker' = [worker EXCEPT ![w].pc = "finishing"]
  /\ UNCHANGED <<now, plugin, chunk, job, ending, crashes>>

\* The first chunk begins with an event the manifest does not keep (a change
\* of cell, a pause, a page left): the reference is refused, and the error
\* ends the process as in CloseLost.  The job keeps its lease.
CloseRefused(w) ==
  /\ worker[w].pc = "submitting" /\ worker[w].first \notin Referable
  /\ worker' = [worker EXCEPT ![w] = IdleWorker]
  /\ UNCHANGED <<now, assignment, plugin, session, chunk, briefs, job, ending, crashes>>

CloseFinish(w) ==
  LET s == worker[w].cur IN
  /\ worker[w].pc = "finishing" /\ JobFree(s)
  /\ job' = [job EXCEPT ![s] = CompletedJob(s)]
  /\ worker' = [worker EXCEPT ![w] = [IdleWorker EXCEPT !.todo = worker[w].todo \ {s}]]
  /\ UNCHANGED <<now, assignment, plugin, session, chunk, briefs, ending, crashes>>

\* The process dies between two transactions, or inside one that rolls back,
\* and starts again with nothing claimed.
WorkerCrash(w) ==
  /\ worker[w].todo # {}
  /\ crashes < MaxCrash /\ LeaseEndsInTime
  /\ crashes' = crashes + 1
  /\ worker' = [worker EXCEPT ![w] = IdleWorker]
  /\ UNCHANGED <<now, assignment, plugin, session, chunk, briefs, job, ending>>

Tick ==
  /\ now < MaxTime
  /\ now' = now + 1
  /\ UNCHANGED <<assignment, plugin, session, chunk, briefs, job, ending, worker, crashes>>

-----------------------------------------------------------------------------
TicketStep(t) ==
  \/ IssueTicket(t) \/ RegisterBegin(t) \/ ResumeSession(t) \/ RegisterAbort(t)
  \/ \E s \in Session : OpenSession(t, s)

PluginStep(s) ==
  \/ \E b \in Beat : HeartbeatRead(b, s)
  \/ \E id \in Submission : Submit(s, id)
  \/ \E n \in Seqs, c \in Content : ReplayEvidence(s, n, c)
  \/ \E u \in Upload, n \in Seqs, c \in Content : UploadRead(u, s, n, c)

UploadStep(u) == UploadCommit(u) \/ UploadAbort(u)

TeacherStep(e) ==
  \/ \E s \in Session, end \in 0..SchedEnd : TeacherEndRead(e, s, end)
  \/ TeacherEndCommit(e)

\* One step of the worker loop.
WorkerStep(w) ==
  \/ Claim(w) \/ CloseMark(w) \/ CloseSubmit(w) \/ CloseRefused(w) \/ CloseFinish(w)
  \/ \E s \in Session : CloseDone(w, s) \/ CloseLost(w, s) \/ CloseExisting(w, s)
                        \/ CloseRead(w, s)

Next ==
  \/ Tick
  \/ \E t \in Ticket : TicketStep(t)
  \/ \E s \in Session : PluginStep(s)
  \/ \E u \in Upload : UploadStep(u)
  \/ \E b \in Beat : HeartbeatWrite(b)
  \/ \E e \in TeacherEnd : TeacherStep(e)
  \/ \E w \in Worker : WorkerStep(w) \/ WorkerCrash(w)

Spec == Init /\ [][Next]_vars

\* Time passes and a restarted worker keeps polling; nothing is promised of
\* the plugin, the student or the teacher.
FairSpec == Spec /\ WF_vars(Tick) /\ \A w \in Worker : WF_vars(WorkerStep(w))

-----------------------------------------------------------------------------
(* Types and the agreement of the rows *)

TicketRow == [state : {"absent", "issued", "consumed"}, expires : Nat]
SessionRow == [status : {"absent", "collecting"} \cup Final, end : 0..SchedEnd,
               last : 0..MaxSeq, completeness : {"complete", "partial"}]
ChunkRow == [sess : Session, seq : Seqs, body : Content, last : 0..MaxSeq]
BriefRow == [sub : Submission \cup {None}, at : 0..MaxTime, cutoff : Nat,
             status : Final, missing : BOOLEAN]
JobRow == [status : {"absent", "pending", "leased", "completed"}, runAt : Nat,
           owner : Worker \cup {None}, expires : Nat, attempts : Nat]
EndRequest == [pc : {"idle", "read", "done"}, sess : Session \cup {None},
               end : 0..SchedEnd, read : 0..SchedEnd]
WorkerState == [pc : {"loop", "marking", "submitting", "finishing"},
                todo : SUBSET Session, cur : Session \cup {None}, first : Content \cup {None}]

\* Every row and every process holds a value of its type.
TypeOK ==
  /\ now \in 0..MaxTime
  /\ assignment \in AssignmentStatus
  /\ ticket \in [Ticket -> TicketRow]
  /\ registering \in [Ticket -> {"ready", "active", None}]
  /\ session \in [Session -> SessionRow]
  /\ beating \in [Beat -> Session \cup {None}]
  /\ chunk \in [Session -> [Seqs -> Content \cup {None}]]
  /\ uploading \in [Upload -> ChunkRow \cup {None}]
  /\ receipts \subseteq Session \X Seqs \X Content
  /\ briefs \in [Session -> Seq(BriefRow)]
  /\ job \in [Session -> JobRow]
  /\ ending \in [TeacherEnd -> EndRequest]
  /\ worker \in [Worker -> WorkerState]
  /\ crashes \in 0..MaxCrash

\* The rows one transaction writes together agree whatever interleaves with
\* it: a session is final exactly when it has a brief, whose last revision
\* has its status; only a leased job has an owner.
RowsAgree ==
  \A s \in Session :
    /\ session[s].status \in Final <=> briefs[s] # <<>>
    /\ briefs[s] # <<>> => session[s].status = briefs[s][Len(briefs[s])].status
    /\ session[s].status = "absent" <=> job[s].status = "absent"
    /\ job[s].owner # None <=> job[s].status = "leased"

\* The ends the class of this session has had.
Ends(s) == {SchedEnd} \cup
  {ending[e].end : e \in {x \in TeacherEnd : ending[x].pc = "done" /\ ending[x].sess = s}}

\* The session a teacher's request has read exists until it commits.
RequestsHeld ==
  \A e \in TeacherEnd : ending[e].pc # "idle" =>
    ending[e].sess \in Session /\ session[ending[e].sess].status # "absent"

\* A job is due at the cutoff of an end the class has had.
JobsRunAtAnEnd ==
  \A s \in Session : job[s].status # "absent" => \E end \in Ends(s) : job[s].runAt = end + Grace

\* A session in a worker's hands exists and was due.
ClaimsWereDue ==
  \A w \in Worker : \A s \in worker[w].todo :
    /\ session[s].status # "absent"
    /\ \E end \in Ends(s) : end + Grace <= now

\* A session being closed was claimed; one found without evidence is still
\* marked partial, and one being finished has a brief.
CloseInHand ==
  \A w \in Worker : worker[w].pc # "loop" =>
    /\ worker[w].cur \in worker[w].todo
    /\ worker[w].pc = "finishing" => briefs[worker[w].cur] # <<>>
    /\ worker[w].first = None /\ worker[w].pc # "marking"
         => session[worker[w].cur].completeness = "partial"

\* What a request or a worker found out in an earlier transaction is still
\* true when it goes on, whatever the others did in between.
HeldFactsHold == RequestsHeld /\ JobsRunAtAnEnd /\ ClaimsWereDue /\ CloseInHand

-----------------------------------------------------------------------------
(* Safety *)

\* Racing registrations on several tickets leave at most one session
\* collecting (the unique active slot and the locked lookup).
OneCollecting ==
  \A s, r \in Session :
    session[s].status = "collecting" /\ session[r].status = "collecting" => s = r

\* A completed deadline job has produced a brief, so no session is left
\* open with nothing to close it and close_session never raises
\* deadline_completed_without_brief, wherever the worker crashed.
CompletedJobHasBrief ==
  \A s \in Session : job[s].status = "completed" => briefs[s] # <<>>

\* A receipt stays true: the chunk it names is stored with that content,
\* whatever other upload of that number ran between its read and commit.
ReceiptsHonoured == \A r \in receipts : chunk[r[1]][r[2]] = r[3]

\* A retried submission adds no second revision: a submission id names at
\* most one revision of its session.
SubmissionOnce ==
  \A s \in Session : \A i, k \in 1..Len(briefs[s]) :
    briefs[s][i].sub = briefs[s][k].sub /\ briefs[s][i].sub # None => i = k

\* A deadline brief that says no evidence arrived is never "completed", even
\* when another worker's mark or a late chunk came between.
MissingIsPartial ==
  \A s \in Session : \A i \in 1..Len(briefs[s]) :
    briefs[s][i].missing => briefs[s][i].status = "partial"

DeadlineRevisions(s) == {i \in 1..Len(briefs[s]) : briefs[s][i].sub = None}

\* However leases expire, workers crash and teachers reset the job, a claim
\* of the deadline job pays for at most one deadline revision.
RevisionPerClaim ==
  \A s \in Session : Cardinality(DeadlineRevisions(s)) <= job[s].attempts

-----------------------------------------------------------------------------
(* What a step may not do *)

\* No late heartbeat, registration or upload reopens a submitted session.
NeverReopened ==
  [][\A s \in Session : session[s].status \in Final => session'[s].status \in Final]_vars

\* The worker never closes a class before the grace period after an end
\* that class has had, although the end moves while jobs are claimed.
DeadlineNotEarly ==
  [][\A w \in Worker, s \in Session :
       worker[w].pc = "submitting" /\ worker'[w].pc = "finishing" /\ worker[w].cur = s
         => \E end \in Ends(s) : end + Grace <= now]_vars

-----------------------------------------------------------------------------
(* Liveness, and what the service promises *)

\* Some open session's first chunk cannot be referred to: each close of it
\* ends a worker, which drops the other jobs it claimed in the same tick.
Unclosable ==
  \E s \in Session : /\ session[s].status = "collecting"
                     /\ \E c \in Content \ CodeFirst : FirstBody(s, c)

\* Every deadline job is completed in the end, across crashes, lost leases
\* and moved deadlines, unless a session that cannot be closed keeps ending
\* the workers; once the student submits that session, or an earlier chunk
\* arrives, the jobs settle again.
JobsSettle ==
  \A s \in Session :
    (job[s].status \in {"pending", "leased"}) ~> (job[s].status = "completed" \/ Unclosable)

Phase(s) == CASE session[s].status = "absent" -> "none"
              [] session[s].status = "collecting" -> "open"
              [] OTHER -> "closed"

LB == INSTANCE LogicalBrief WITH
        brief <- [s \in Session |-> [phase |-> Phase(s), revisions |-> Len(briefs[s]),
                                     submittedAt |-> IF briefs[s] = <<>> THEN 0
                                                     ELSE briefs[s][Len(briefs[s])].at]]

\* The service keeps the promise of LogicalBrief.
OneLogicalBrief == LB!Safety

-----------------------------------------------------------------------------
(* What the documents say and the code does not do *)

\* The plan: "an existing final brief completes the job directly", and
\* racing workers produce no second brief.  The deadline worker adds no
\* revision to a session that already has one.
DeadlineKeepsBrief ==
  [][\A s \in Session : briefs[s] # <<>> =>
       \A i \in DeadlineRevisions(s)' : i <= Len(briefs[s])]_vars

\* The design: a session is closed 15 minutes after the class at the latest.
\* One whose first chunk cannot be referred to stays open.
EverySessionCloses == LB!AllClosed

\* The design: a student who comes back resumes the session, no duplicate
\* session is created for the assignment.
OneSession ==
  \A s, r \in Session :
    session[s].status # "absent" /\ session[r].status # "absent" => s = r

\* The design: missing chunks are sent again or recorded as missing.  The
\* plugin numbers a chunk by its first event, so the first one is chunk 1: a
\* session that has a later chunk and not that one is not "completed".
GapsRecorded ==
  \A s \in Session :
    (\E n \in Seqs : chunk[s][n] # None) /\ chunk[s][1] = None
      => session[s].status # "completed"

=============================================================================
