---------------------------- MODULE EvidenceDelivery ----------------------------
(***************************************************************************)
(* One student session in the Jupyter server: batches of events accepted   *)
(* by the local session store, the outbox that uploads them, and the       *)
(* coordinator that submits the brief, with the classroom service at the   *)
(* other end of an unreliable connection.                                  *)
(*                                                                         *)
(* Three threads share the files of the session: the HTTP handlers (one at *)
(* a time, in the event loop), the outbox worker and the deadline worker.  *)
(* Each file is replaced atomically; what a thread reads from a file and   *)
(* writes back later is in its own state between the two.                  *)
(*                                                                         *)
(* Batch b is the b-th of the session and is uploaded as one chunk.  The   *)
(* retry times of deferred chunks are left open: a flush may find any of   *)
(* them not yet due.  MaxBatch bounds the batches, MaxCrash the deaths of  *)
(* the process.  A definition named ..._Slip is its neighbour with one     *)
(* slip a programmer could make; it is not part of the specification.      *)
(***************************************************************************)
EXTENDS Integers, Sequences, FiniteSets

CONSTANTS
  MaxBatch,   \* batches the browser sends at most
  Limit,      \* uploads one flush attempts
  MaxCrash,   \* process deaths
  HasCutoff   \* whether the cutoff may come while we look

ASSUME BoundsAssumption ==
  MaxBatch \in Nat /\ Limit \in Nat \ {0} /\ MaxCrash \in Nat /\ HasCutoff \in BOOLEAN

Batch == 1..MaxBatch
Thread == {"http", "outbox", "deadline"}

VARIABLES
  phase,       \* of the extension: "up", "down", "starting", or "broken" when it failed to start
  due,         \* the cutoff of the registered context has passed
  local,       \* session.json: its status and its last batch; the event stream
  entries,     \* entry files of the outbox
  row,         \* state.json of the outbox
  submission,  \* the coordinator's state file
  lock,        \* the coordinator's lock for the session
  thread,      \* what each thread is doing
  minted,      \* submission ids drawn so far
  service,     \* the classroom service's session, chunks and briefs
  crashes

vars == <<phase, due, local, entries, row, submission, lock, thread, minted, service, crashes>>
files == <<local, entries, row, submission>>

Absent == [b \in Batch |-> "absent"]
NoSubmission == [status |-> "absent", id |-> 0, refs |-> {}]
IdleThread == [pc |-> "idle", cur |-> 0, copy |-> Absent, todo |-> {}, outcome |-> "absent"]

Init ==
  /\ phase = "up" /\ due = FALSE
  /\ local = [status |-> "collecting", accepted |-> 0, events |-> 0]
  /\ entries = {} /\ row = Absent
  /\ submission = NoSubmission
  /\ lock = "free"
  /\ thread = [t \in Thread |-> IdleThread]
  /\ minted = 0
  /\ service = [open |-> TRUE, stored |-> {}, briefs |-> <<>>]
  /\ crashes = 0

\* A thread moves on, with all it had, afresh, or to rest.
At(t, pc) == thread[t].pc = pc
Become(t, state) == thread' = [thread EXCEPT ![t] = state]
Goto(t, pc) == Become(t, [thread[t] EXCEPT !.pc = pc])
Enter(t, pc) == Become(t, [IdleThread EXCEPT !.pc = pc])
Leave(t) == Become(t, IdleThread)

\* A call ends and its locks with it.  The first round of the deadline worker
\* runs inside the start of the extension and decides what becomes of it.
Return(t, started) ==
  /\ Leave(t)
  /\ lock' = IF lock = t THEN "free" ELSE lock
  /\ phase' = IF phase = "starting" /\ t = "deadline" THEN started ELSE phase

\* The call raises: its caller gives up until the next one.
Abort(t) == Return(t, "broken")

Ids == {service.briefs[i] : i \in 1..Len(service.briefs)}

-----------------------------------------------------------------------------
(* Segments: append_batch, then _enqueue_classroom_evidence *)

\* The lock of the session store is free: no append and no finalization is
\* under way.
StoreFree == \A t \in Thread : thread[t].pc \notin {"appending", "finalizing"}

\* A new batch, or one sent again because its reply was lost: first its
\* events go to the stream,
AppendBegin(b) ==
  /\ phase = "up" /\ At("http", "idle") /\ StoreFree
  /\ local.status = "collecting"
  /\ b <= local.accepted + 1
  /\ local' = IF b > local.events THEN [local EXCEPT !.events = b] ELSE local
  /\ Become("http", [IdleThread EXCEPT !.pc = "appending", !.cur = b])
  /\ UNCHANGED <<phase, due, entries, row, submission, lock, minted, service, crashes>>

\* then session.json counts them.
AppendEnd ==
  LET b == thread["http"].cur IN
  /\ At("http", "appending")
  /\ local' = IF b > local.accepted THEN [local EXCEPT !.accepted = b] ELSE local
  /\ Goto("http", "accepted")
  /\ UNCHANGED <<phase, due, entries, row, submission, lock, minted, service, crashes>>

\* enqueue: a chunk that is there already is returned as it is.
Enqueue ==
  LET b == thread["http"].cur IN
  /\ At("http", "accepted")
  /\ IF b \in entries
       THEN Leave("http") /\ UNCHANGED entries
       ELSE Goto("http", "queued") /\ entries' = entries \cup {b}
  /\ UNCHANGED <<phase, due, local, row, submission, lock, minted, service, crashes>>

EnqueueRead ==
  /\ At("http", "queued")
  /\ Become("http", [thread["http"] EXCEPT !.pc = "noting", !.copy = row])
  /\ UNCHANGED <<phase, due, files, lock, minted, service, crashes>>

EnqueueWrite ==
  /\ At("http", "noting")
  /\ row' = [thread["http"].copy EXCEPT ![thread["http"].cur] = "pending"]
  /\ Leave("http")
  /\ UNCHANGED <<phase, due, local, entries, submission, lock, minted, service, crashes>>

-----------------------------------------------------------------------------
(* flush_once, in the outbox worker or inside a submission *)

\* recover_pending reads state.json,
RecoverRead(t) ==
  /\ \/ At(t, "flushing")
     \/ t = "outbox" /\ At(t, "idle") /\ phase \in {"starting", "up"}
  /\ Become(t, [IdleThread EXCEPT !.pc = "listing", !.copy = row])
  /\ UNCHANGED <<phase, due, files, lock, minted, service, crashes>>

\* A chunk whose row is missing stays unlisted.
Listed_Slip(copy) == copy

\* An entry file without a row is a pending one.
Listed(copy) == [b \in Batch |-> IF b \in entries /\ copy[b] = "absent" THEN "pending" ELSE copy[b]]

\* The first Limit of the chunks to send, in their order.
First(S) == {b \in S : Cardinality({c \in S : c < b}) < Limit}

\* lists the files and writes the rows that were missing; flush_once passes
\* over deferred chunks whose time has not come.
RecoverWrite(t, waiting) ==
  LET found == Listed(thread[t].copy) IN
  /\ At(t, "listing")
  /\ waiting \subseteq {b \in Batch : found[b] = "deferred"}
  /\ row' = IF found = thread[t].copy THEN row ELSE found
  /\ Become(t, [IdleThread EXCEPT !.pc = "sending",
       !.todo = First({b \in entries : found[b] \in {"pending", "deferred"}} \ waiting)])
  /\ UNCHANGED <<phase, due, local, entries, submission, lock, minted, service, crashes>>

\* Chunk b is the next one this flush sends.
Turn(t, b) ==
  /\ At(t, "sending") /\ b \in thread[t].todo
  /\ \A c \in thread[t].todo : b <= c

\* After a chunk was sent _mark reads state.json and
Sent(t, b, outcome) ==
  Become(t, [pc |-> "marking", cur |-> b, copy |-> row, outcome |-> outcome,
             todo |-> thread[t].todo \ {b}])

\* The service stores the chunk while the session is open and its receipt
\* arrives.
SendLands(t) ==
  \E b \in Batch :
    /\ Turn(t, b) /\ service.open
    /\ service' = [service EXCEPT !.stored = @ \cup {b}]
    /\ Sent(t, b, "delivered")
    /\ UNCHANGED <<phase, due, files, lock, minted, crashes>>

\* A lost reply is taken for a receipt.
Unsent_Slip == {"deferred", "quarantined", "delivered"}

Unsent == {"deferred", "quarantined"}

\* The request reaches the service and its reply is lost, or not even that.
Lost(b) ==
  \/ UNCHANGED service
  \/ service.open /\ service' = [service EXCEPT !.stored = @ \cup {b}]

\* No usable receipt arrives: the chunk is deferred, also when the service
\* refuses it because the session is closed, or set aside when the answer
\* makes no sense.
SendFails(t) ==
  \E b \in Batch, outcome \in Unsent :
    /\ Turn(t, b) /\ Lost(b) /\ Sent(t, b, outcome)
    /\ UNCHANGED <<phase, due, files, lock, minted, crashes>>

\* The reply is cut short, which no handler expects: the flush ends there,
\* and a submission with it.
SendBreaks(t) ==
  \E b \in Batch :
    /\ Turn(t, b) /\ Lost(b) /\ Abort(t)
    /\ UNCHANGED <<due, files, minted, crashes>>

\* writes it back with the outcome.
MarkWrite(t) ==
  /\ At(t, "marking")
  /\ row' = [thread[t].copy EXCEPT ![thread[t].cur] = thread[t].outcome]
  /\ Become(t, [IdleThread EXCEPT !.pc = "sending", !.todo = thread[t].todo])
  /\ UNCHANGED <<phase, due, local, entries, submission, lock, minted, service, crashes>>

\* The worker waits for its next round.
FlushEnd ==
  /\ At("outbox", "sending") /\ thread["outbox"].todo = {}
  /\ Leave("outbox")
  /\ UNCHANGED <<phase, due, files, lock, minted, service, crashes>>

-----------------------------------------------------------------------------
(* SubmissionCoordinator.submit *)

Settled == submission.status = "submitted"

\* A submission whose upload failed is prepared afresh.
Unprepared_Slip == submission.status \in {"absent", "pending_upload"}

Unprepared == submission.status = "absent"

\* By the student, or by the deadline worker once the cutoff has passed.  A
\* submitted state is returned as it is.
Submit(t) ==
  /\ At(t, "idle") /\ lock = "free" /\ ~Settled
  /\ \/ t = "http" /\ phase = "up"
     \/ t = "deadline" /\ phase \in {"starting", "up"} /\ due
  /\ lock' = t
  /\ Enter(t, IF Unprepared THEN "closing" ELSE "posting")
  /\ UNCHANGED <<phase, due, files, minted, service, crashes>>

\* _prepare_payload reads the session and reopens an abandoned one.
ReadSession(t) ==
  /\ At(t, "closing") \/ At(t, "reopened")
  /\ StoreFree
  /\ \/ /\ local.status = "collecting"
        /\ Become(t, [IdleThread EXCEPT !.pc = "ending", !.cur = local.accepted])
        /\ UNCHANGED <<phase, local, lock>>
     \/ local.status = "finalized" /\ Enter(t, "flushing") /\ UNCHANGED <<phase, local, lock>>
     \/ /\ local.status = "abandoned" /\ At(t, "closing")
        /\ local' = [local EXCEPT !.status = "collecting"]
        /\ Enter(t, "reopened") /\ UNCHANGED <<phase, lock>>
     \/ /\ local.status = "finalizing" \/ (local.status = "abandoned" /\ At(t, "reopened"))
        /\ Abort(t) /\ UNCHANGED local
  /\ UNCHANGED <<due, entries, row, submission, minted, service, crashes>>

\* The finalize route, with the last batch the browser knows of.
Finalize(b) ==
  /\ phase = "up" /\ At("http", "idle")
  /\ Become("http", [IdleThread EXCEPT !.pc = "ending", !.cur = b])
  /\ UNCHANGED <<phase, due, files, lock, minted, service, crashes>>

\* After finalize a submission flushes the outbox; the route is done.
Finalized(t) ==
  IF lock = t
    THEN Enter(t, "flushing") /\ UNCHANGED <<phase, lock>>
    ELSE Return(t, "up")

\* finalize writes "finalizing" first,
FinalizeBegin(t) ==
  /\ At(t, "ending") /\ StoreFree
  /\ \/ /\ local.status = "collecting"
        /\ local' = [local EXCEPT !.status = "finalizing"]
        /\ Goto(t, "finalizing") /\ UNCHANGED <<phase, lock>>
     \/ /\ local.status = "finalized" /\ local.accepted = thread[t].cur
        /\ Finalized(t) /\ UNCHANGED local
     \/ /\ local.status = "finalized" => local.accepted # thread[t].cur
        /\ local.status # "collecting"
        /\ Abort(t) /\ UNCHANGED local
  /\ UNCHANGED <<due, entries, row, submission, minted, service, crashes>>

\* then "finalized", or "collecting" again when the stream, session.json and
\* the caller disagree on the last batch.
FinalizeEnd(t) ==
  /\ At(t, "finalizing")
  /\ IF local.events = thread[t].cur /\ local.accepted = thread[t].cur
       THEN local' = [local EXCEPT !.status = "finalized"] /\ Finalized(t)
       ELSE local' = [local EXCEPT !.status = "collecting"] /\ Abort(t)
  /\ UNCHANGED <<due, entries, row, submission, minted, service, crashes>>

\* The evidence a brief refers to: the chunks marked delivered.
Delivered == {b \in entries : row[b] = "delivered"}

Gather(t) ==
  /\ t # "outbox" /\ At(t, "sending") /\ thread[t].todo = {}
  /\ minted' = minted + 1
  /\ Become(t, [IdleThread EXCEPT !.pc = "saving", !.cur = minted + 1, !.todo = Delivered])
  /\ UNCHANGED <<phase, due, files, lock, service, crashes>>

\* The payload is durable before it is sent.
Save(t) ==
  /\ At(t, "saving")
  /\ submission' = [status |-> "submitting", id |-> thread[t].cur, refs |-> thread[t].todo]
  /\ Enter(t, "posting")
  /\ UNCHANGED <<phase, due, local, entries, row, lock, minted, service, crashes>>

\* The service answers a known submission id with the brief it has, appends
\* a revision for a new one even to a closed session, and refuses
\* references to chunks it does not hold.
Receive ==
  IF submission.id \in Ids
    THEN UNCHANGED service
    ELSE service' = [service EXCEPT !.open = FALSE, !.briefs = Append(@, submission.id)]

PostLands(t) ==
  /\ At(t, "posting")
  /\ submission.refs \subseteq service.stored
  /\ Receive
  /\ Enter(t, "acknowledged")
  /\ UNCHANGED <<phase, due, files, lock, minted, crashes>>

PostFails(t) ==
  /\ At(t, "posting")
  /\ UNCHANGED service \/ (submission.refs \subseteq service.stored /\ Receive)
  /\ Enter(t, "failed")
  /\ UNCHANGED <<phase, due, files, lock, minted, crashes>>

\* The reply is cut short, as in SendBreaks: nothing is recorded.
PostBreaks(t) ==
  /\ At(t, "posting")
  /\ UNCHANGED service \/ (submission.refs \subseteq service.stored /\ Receive)
  /\ Abort(t)
  /\ UNCHANGED <<due, files, minted, crashes>>

Recorded(t) == IF At(t, "failed") THEN "pending_upload" ELSE "submitted"

SaveReply(t) ==
  /\ At(t, "acknowledged") \/ At(t, "failed")
  /\ submission' = [submission EXCEPT !.status = Recorded(t)]
  /\ Return(t, "up")
  /\ UNCHANGED <<due, local, entries, row, minted, service, crashes>>

-----------------------------------------------------------------------------
(* The rest of the server, and the service *)

\* The janitor finds the session stale, or the abandon route is called.
Abandon ==
  /\ phase = "up" /\ StoreFree
  /\ local.status = "collecting"
  /\ local' = [local EXCEPT !.status = "abandoned"]
  /\ UNCHANGED <<phase, due, entries, row, submission, lock, thread, minted, service, crashes>>

\* The recover route: a person reopens the session.
Recover ==
  /\ phase = "up" /\ At("http", "idle") /\ StoreFree
  /\ local.status \in {"abandoned", "finalizing"}
  /\ local' = [local EXCEPT !.status = "collecting"]
  /\ UNCHANGED <<phase, due, entries, row, submission, lock, thread, minted, service, crashes>>

CutoffPasses ==
  /\ HasCutoff /\ ~due /\ due' = TRUE
  /\ UNCHANGED <<phase, files, lock, thread, minted, service, crashes>>

\* The service closes the session of its own: an end moved earlier may come
\* before the cutoff registered here.
ServiceCloses ==
  /\ 0 \notin Ids
  /\ service' = [service EXCEPT !.open = FALSE, !.briefs = Append(@, 0)]
  /\ UNCHANGED <<phase, due, files, lock, thread, minted, crashes>>

Crash ==
  /\ phase \in {"starting", "up"} /\ crashes < MaxCrash
  /\ crashes' = crashes + 1
  /\ phase' = "down"
  /\ thread' = [t \in Thread |-> IdleThread] /\ lock' = "free"
  /\ UNCHANGED <<due, files, minted, service>>

\* A new process: the janitor has its first round (its next is a minute
\* away), the outbox worker runs at once, then the deadline worker has its
\* first round, and only then the routes can be used.
Start ==
  /\ phase \in {"down", "broken"}
  /\ phase' = "starting" /\ lock' = "free"
  /\ \/ UNCHANGED local
     \/ local.status = "collecting" /\ local' = [local EXCEPT !.status = "abandoned"]
  /\ thread' = [t \in Thread |->
                  IF t = "outbox" THEN [IdleThread EXCEPT !.pc = "flushing"] ELSE IdleThread]
  /\ UNCHANGED <<due, entries, row, submission, minted, service, crashes>>

\* The first round of the deadline worker has nothing to do.
Started ==
  /\ phase = "starting" /\ At("deadline", "idle")
  /\ ~due \/ Settled
  /\ phase' = "up"
  /\ UNCHANGED <<due, files, lock, thread, minted, service, crashes>>

-----------------------------------------------------------------------------
FlushStep(t) ==
  \/ RecoverRead(t) \/ \E waiting \in SUBSET Batch : RecoverWrite(t, waiting)
  \/ SendLands(t) \/ SendFails(t) \/ SendBreaks(t) \/ MarkWrite(t) \/ (t = "outbox" /\ FlushEnd)

SubmitStep(t) ==
  \/ ReadSession(t) \/ FinalizeBegin(t) \/ FinalizeEnd(t) \/ Gather(t) \/ Save(t)
  \/ PostLands(t) \/ PostFails(t) \/ PostBreaks(t) \/ SaveReply(t)

EnqueueStep == AppendEnd \/ Enqueue \/ EnqueueRead \/ EnqueueWrite

\* A call that is under way goes on.
ThreadStep(t) == FlushStep(t) \/ SubmitStep(t) \/ (t = "http" /\ EnqueueStep)

Next ==
  \/ \E b \in Batch : AppendBegin(b) \/ Finalize(b)
  \/ \E t \in Thread : Submit(t) \/ ThreadStep(t)
  \/ Abandon \/ Recover \/ CutoffPasses \/ ServiceCloses \/ Crash \/ Start \/ Started

Spec == Init /\ [][Next]_vars

\* Threads run, a dead server is started again, time passes, and calls that
\* are repeated for ever get through; no person has to act.
FairSpec ==
  /\ Spec
  /\ WF_vars(CutoffPasses) /\ WF_vars(Start \/ Started)
  /\ WF_vars(Submit("deadline"))
  /\ \A t \in Thread : WF_vars(ThreadStep(t))
  /\ SF_vars(\E t \in Thread : SendLands(t)) /\ SF_vars(\E t \in Thread : PostLands(t))
  /\ SF_vars(RecoverWrite("outbox", {}))

-----------------------------------------------------------------------------
(* Types and safety *)

RowState == {"absent", "pending", "deferred", "delivered", "quarantined"}
Place ==
  {"idle", "appending", "accepted", "queued", "noting", "flushing", "listing", "sending",
   "marking", "closing", "reopened", "ending", "finalizing", "saving", "posting",
   "acknowledged", "failed"}
ThreadState ==
  [pc : Place, cur : Nat, copy : [Batch -> RowState], todo : SUBSET Batch, outcome : RowState]

LocalRow ==
  [status : {"collecting", "finalizing", "finalized", "abandoned"},
   accepted : 0..MaxBatch, events : 0..MaxBatch]
SubmissionRow ==
  [status : {"absent", "submitting", "pending_upload", "submitted"}, id : Nat, refs : SUBSET Batch]
ServiceRow == [open : BOOLEAN, stored : SUBSET Batch, briefs : Seq(Nat)]

\* Every file, thread and service row holds a value of its type.
TypeOK ==
  /\ phase \in {"up", "down", "starting", "broken"} /\ due \in BOOLEAN
  /\ local \in LocalRow
  /\ entries \subseteq Batch /\ row \in [Batch -> RowState]
  /\ submission \in SubmissionRow
  /\ lock \in Thread \cup {"free"}
  /\ thread \in [Thread -> ThreadState]
  /\ minted \in Nat
  /\ service \in ServiceRow
  /\ crashes \in 0..MaxCrash

\* flush_once: a chunk is marked delivered only after the service has it,
\* whatever copies of state.json three threads write back over each other.
DeliveredIsStored == \A b \in Batch : row[b] = "delivered" => b \in service.stored

\* The durable payload refers only to chunks the service holds, so the
\* service never refuses a brief for its references.
ReferencesAreStored == submission.refs \subseteq service.stored

\* "Every trigger observes one logical brief": however often the student
\* and the deadline worker submit, and whatever replies are lost, the
\* service gets at most one revision from the plugin.
OnePluginRevision ==
  \A i, j \in 1..Len(service.briefs) :
    service.briefs[i] # 0 /\ service.briefs[j] # 0 => i = j

\* Once its payload is durable the session is finalized for good, and the
\* payload and its id never change: a retry sends what was first prepared.
SubmissionIsFixed ==
  [][submission.status # "absent" =>
       /\ local.status = "finalized" /\ local' = local
       /\ submission'.id = submission.id /\ submission'.refs = submission.refs]_vars

\* The student is told "submitted" only when the service has the brief.
SubmittedIsReceived == submission.status = "submitted" => submission.id \in Ids

-----------------------------------------------------------------------------
(* Liveness *)

\* A submission that is durable reaches the service and its receipt is
\* recorded, across lost replies, crashes and restarts.
DurableSubmissionLands == (submission.status # "absent") ~> (submission.status = "submitted")

\* As long as the service takes evidence, every queued chunk reaches it or
\* is set aside: an update of state.json that was lost is made good.
QueuedIsSent ==
  \A b \in Batch :
    (b \in entries) ~> (b \in service.stored \/ ~service.open \/ row[b] = "quarantined")

-----------------------------------------------------------------------------
(* What the documents say and the code does not do *)

\* The design: after a restart of the plugin service, the session and the
\* outbox are recovered from the persistent volume.
RestartRecovers == (phase = "down") ~> (phase = "up")

=============================================================================
