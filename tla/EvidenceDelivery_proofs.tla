------------------------- MODULE EvidenceDelivery_proofs -------------------------
(***************************************************************************)
(* Theorems about EvidenceDelivery for any number of batches, any flush    *)
(* limit and any number of crashes.                                        *)
(***************************************************************************)
EXTENDS EvidenceDelivery, TLAPS

USE BoundsAssumption

\* Who is where: the outbox worker only flushes, only a handler appends and
\* enqueues, and the deadline worker finalizes only inside a submission.
Flushing == {"flushing", "listing", "sending", "marking"}
Preparing == {"closing", "reopened", "saving"}
Posting == {"posting", "acknowledged", "failed"}
Enqueueing == {"appending", "accepted", "queued", "noting"}

Places ==
  /\ thread["outbox"].pc \in Flushing \cup {"idle"}
  /\ thread["deadline"].pc \notin Enqueueing
  /\ \A t \in Thread :
       thread[t].pc \in {"appending", "accepted"} => t = "http" /\ thread[t].cur \in Batch

\* A submission holds the lock from its first step to its last.
Locking ==
  \A t \in Thread :
    /\ thread[t].pc \in Preparing \cup Posting => lock = t
    /\ t # "outbox" /\ thread[t].pc \in Flushing => lock = t
    /\ t = "deadline" /\ thread[t].pc \in {"ending", "finalizing"} => lock = t
    /\ lock = t => /\ t # "outbox"
                   /\ thread[t].pc \in Flushing \cup Preparing \cup Posting \cup {"ending", "finalizing"}

\* What a thread has of state.json and of receipts is true of the service.
Evidence ==
  /\ DeliveredIsStored /\ ReferencesAreStored
  /\ \A t \in Thread :
       /\ \A b \in Batch : thread[t].copy[b] = "delivered" => b \in service.stored
       /\ thread[t].pc = "marking" /\ thread[t].outcome = "delivered" => thread[t].cur \in service.stored
       /\ thread[t].pc = "saving" => thread[t].todo \subseteq service.stored

\* How far the session and its submission are.
Stages ==
  /\ submission.status # "absent" => local.status = "finalized"
  /\ \A t \in Thread :
       /\ thread[t].pc = "appending" => local.status = "collecting"
       /\ thread[t].pc = "finalizing" => local.status = "finalizing"
       /\ lock = t /\ thread[t].pc \notin Posting => submission.status = "absent"
       /\ thread[t].pc \in Posting => submission.status \in {"submitting", "pending_upload"}
       /\ lock = t /\ thread[t].pc \in Flushing \cup {"saving"} => local.status = "finalized"
  /\ \A t, u \in Thread :
       thread[t].pc = "finalizing" /\ thread[u].pc = "finalizing" => t = u

\* Every brief from the plugin is the one the state file names.
Briefs ==
  /\ OnePluginRevision /\ SubmittedIsReceived
  /\ \A i \in 1..Len(service.briefs) :
       service.briefs[i] # 0 => submission.status # "absent" /\ service.briefs[i] = submission.id
  /\ submission.status # "absent" => submission.id # 0
  /\ \A t \in Thread :
       /\ thread[t].pc = "acknowledged" => submission.id \in Ids
       /\ thread[t].pc = "saving" => thread[t].cur # 0

IInv == TypeOK /\ Places /\ Locking /\ Evidence /\ Stages /\ Briefs

-----------------------------------------------------------------------------
(* What a move of a thread does *)

Others(t) == \A u \in Thread : u # t => thread'[u] = thread[u]

\* Thread t is now at pc, with these things in its hands.
Has(t, pc, cur, copy, todo, outcome) ==
  /\ thread' \in [Thread -> ThreadState] /\ Others(t)
  /\ thread'[t].pc = pc /\ thread'[t].cur = cur /\ thread'[t].copy = copy
  /\ thread'[t].todo = todo /\ thread'[t].outcome = outcome

\* A thread at rest is typed, and so is an empty copy of state.json.
LEMMA IdleTyped == IdleThread \in ThreadState /\ Absent \in [Batch -> RowState]
BY DEF IdleThread, ThreadState, Place, Absent, RowState

\* A thread that becomes x has what x has.
LEMMA BecomeMoves ==
  ASSUME TypeOK, NEW t \in Thread, NEW x \in ThreadState, Become(t, x)
  PROVE  Has(t, x.pc, x.cur, x.copy, x.todo, x.outcome)
BY DEF TypeOK, Become, Has, Others

\* A thread that enters a place starts with empty hands.
LEMMA EnterMoves ==
  ASSUME TypeOK, NEW t \in Thread, NEW pc \in Place, Enter(t, pc)
  PROVE  Has(t, pc, 0, Absent, {}, "absent")
<1> DEFINE x == [IdleThread EXCEPT !.pc = pc]
<1>1. x \in ThreadState
  BY IdleTyped DEF ThreadState
<1>2. x.pc = pc /\ x.cur = 0 /\ x.copy = Absent /\ x.todo = {} /\ x.outcome = "absent"
  BY DEF IdleThread
<1>3. Become(t, x)
  BY DEF Enter
<1> HIDE DEF x
<1> QED
  BY <1>1, <1>2, <1>3, BecomeMoves

\* A thread that leaves is at rest.
LEMMA LeaveMoves ==
  ASSUME TypeOK, NEW t \in Thread, Leave(t)
  PROVE  Has(t, "idle", 0, Absent, {}, "absent")
<1>1. Has(t, IdleThread.pc, IdleThread.cur, IdleThread.copy, IdleThread.todo, IdleThread.outcome)
  BY IdleTyped, BecomeMoves DEF Leave
<1> QED
  BY <1>1 DEF IdleThread

\* A thread that goes to a place keeps what it has.
LEMMA GotoMoves ==
  ASSUME TypeOK, NEW t \in Thread, NEW pc \in Place, Goto(t, pc)
  PROVE  Has(t, pc, thread[t].cur, thread[t].copy, thread[t].todo, thread[t].outcome)
<1> DEFINE x == [thread[t] EXCEPT !.pc = pc]
<1>1. x \in ThreadState
  BY DEF TypeOK, ThreadState
<1>2. /\ x.pc = pc /\ x.cur = thread[t].cur /\ x.copy = thread[t].copy
      /\ x.todo = thread[t].todo /\ x.outcome = thread[t].outcome
  BY DEF TypeOK, ThreadState
<1>3. Become(t, x)
  BY DEF Goto
<1> HIDE DEF x
<1> QED
  BY <1>1, <1>2, <1>3, BecomeMoves

\* A thread that begins with a batch number, a copy or a list.
LEMMA BeginMoves ==
  ASSUME TypeOK, NEW t \in Thread, NEW pc \in Place, NEW cur \in Nat, NEW todo \in SUBSET Batch,
         NEW copy \in [Batch -> RowState]
  PROVE  /\ Become(t, [IdleThread EXCEPT !.pc = pc, !.cur = cur]) =>
              Has(t, pc, cur, Absent, {}, "absent")
         /\ Become(t, [IdleThread EXCEPT !.pc = pc, !.copy = copy]) =>
              Has(t, pc, 0, copy, {}, "absent")
         /\ Become(t, [IdleThread EXCEPT !.pc = pc, !.todo = todo]) =>
              Has(t, pc, 0, Absent, todo, "absent")
         /\ Become(t, [IdleThread EXCEPT !.pc = pc, !.cur = cur, !.todo = todo]) =>
              Has(t, pc, cur, Absent, todo, "absent")
<1> DEFINE a == [IdleThread EXCEPT !.pc = pc, !.cur = cur]
           b == [IdleThread EXCEPT !.pc = pc, !.copy = copy]
           c == [IdleThread EXCEPT !.pc = pc, !.todo = todo]
           d == [IdleThread EXCEPT !.pc = pc, !.cur = cur, !.todo = todo]
<1>1. a \in ThreadState /\ b \in ThreadState /\ c \in ThreadState /\ d \in ThreadState
  BY IdleTyped DEF ThreadState, IdleThread, RowState
<1>2. a.pc = pc /\ a.cur = cur /\ a.copy = Absent /\ a.todo = {} /\ a.outcome = "absent"
  BY DEF IdleThread
<1>3. b.pc = pc /\ b.cur = 0 /\ b.copy = copy /\ b.todo = {} /\ b.outcome = "absent"
  BY DEF IdleThread
<1>4. c.pc = pc /\ c.cur = 0 /\ c.copy = Absent /\ c.todo = todo /\ c.outcome = "absent"
  BY DEF IdleThread
<1>5. d.pc = pc /\ d.cur = cur /\ d.copy = Absent /\ d.todo = todo /\ d.outcome = "absent"
  BY DEF IdleThread
<1> HIDE DEF a, b, c, d
<1>6. /\ Become(t, a) => Has(t, pc, cur, Absent, {}, "absent")
      /\ Become(t, b) => Has(t, pc, 0, copy, {}, "absent")
  BY <1>1, <1>2, <1>3, BecomeMoves
<1>7. /\ Become(t, c) => Has(t, pc, 0, Absent, todo, "absent")
      /\ Become(t, d) => Has(t, pc, cur, Absent, todo, "absent")
  BY <1>1, <1>4, <1>5, BecomeMoves
<1> QED
  BY <1>6, <1>7 DEF a, b, c, d

\* After an upload a thread holds the outcome and a copy of state.json.
LEMMA SentMoves ==
  ASSUME TypeOK, NEW t \in Thread, NEW b \in Batch, NEW outcome \in RowState, Sent(t, b, outcome)
  PROVE  Has(t, "marking", b, row, thread[t].todo \ {b}, outcome)
<1> DEFINE x == [pc |-> "marking", cur |-> b, copy |-> row, outcome |-> outcome,
                 todo |-> thread[t].todo \ {b}]
<1>1. x \in ThreadState
  BY DEF TypeOK, ThreadState, Batch, Place
<1>2. Become(t, x)
  BY DEF Sent
<1>3. Has(t, x.pc, x.cur, x.copy, x.todo, x.outcome)
  BY <1>1, <1>2, BecomeMoves
<1> QED
  BY <1>3

\* The handler now has a copy of state.json as well.
LEMMA EnqueueReadMoves ==
  ASSUME TypeOK, EnqueueRead
  PROVE  Has("http", "noting", thread["http"].cur, row, thread["http"].todo, thread["http"].outcome)
<1> DEFINE x == [thread["http"] EXCEPT !.pc = "noting", !.copy = row]
<1>1. thread["http"] \in ThreadState
  BY DEF TypeOK, Thread
<1>2. x \in ThreadState
  BY <1>1 DEF TypeOK, ThreadState, Place
<1>3. /\ x.pc = "noting" /\ x.cur = thread["http"].cur /\ x.copy = row
      /\ x.todo = thread["http"].todo /\ x.outcome = thread["http"].outcome
  BY <1>1 DEF ThreadState
<1>4. Become("http", x)
  BY DEF EnqueueRead
<1> HIDE DEF x
<1> QED
  BY <1>2, <1>3, <1>4, BecomeMoves DEF Thread

\* The handler holds the batch it appends.
LEMMA AppendBeginMoves ==
  ASSUME TypeOK, NEW b \in Batch, AppendBegin(b)
  PROVE  Has("http", "appending", b, Absent, {}, "absent")
<1>1. "http" \in Thread /\ "appending" \in Place /\ b \in Nat
  BY DEF Thread, Place, Batch
<1>2. Become("http", [IdleThread EXCEPT !.pc = "appending", !.cur = b])
  BY DEF AppendBegin
<1> QED
  BY <1>1, <1>2, BeginMoves, IdleTyped

\* The handler goes on with its batch.
LEMMA AppendEndMoves ==
  ASSUME TypeOK, AppendEnd
  PROVE  Has("http", "accepted", thread["http"].cur, thread["http"].copy, thread["http"].todo, thread["http"].outcome)
<1>1. "http" \in Thread /\ "accepted" \in Place
  BY DEF Thread, Place
<1> QED
  BY <1>1, GotoMoves DEF AppendEnd

\* The handler is done, or goes on to list its chunk.
LEMMA EnqueueMoves ==
  ASSUME TypeOK, Enqueue
  PROVE  \/ Has("http", "idle", 0, Absent, {}, "absent")
         \/ Has("http", "queued", thread["http"].cur, thread["http"].copy, thread["http"].todo, thread["http"].outcome)
<1>1. "http" \in Thread /\ "queued" \in Place
  BY DEF Thread, Place
<1>2. Leave("http") \/ Goto("http", "queued")
  BY DEF Enqueue
<1> QED
  BY <1>1, <1>2, GotoMoves, LeaveMoves

\* The finalize route begins with the batch the browser named.
LEMMA FinalizeMoves ==
  ASSUME TypeOK, NEW b \in Batch, Finalize(b)
  PROVE  Has("http", "ending", b, Absent, {}, "absent")
<1>1. "http" \in Thread /\ "ending" \in Place /\ b \in Nat
  BY DEF Thread, Place, Batch
<1>2. Become("http", [IdleThread EXCEPT !.pc = "ending", !.cur = b])
  BY DEF Finalize
<1> QED
  BY <1>1, <1>2, BeginMoves, IdleTyped

\* A flush begins with a copy of state.json.
LEMMA RecoverReadMoves ==
  ASSUME TypeOK, NEW t \in Thread, RecoverRead(t)
  PROVE  Has(t, "listing", 0, row, {}, "absent")
<1>1. row \in [Batch -> RowState]
  BY DEF TypeOK
<1> QED
  BY <1>1, BeginMoves DEF RecoverRead, Place

\* A flush goes on with the chunks to send.
LEMMA RecoverWriteMoves ==
  ASSUME TypeOK, NEW t \in Thread, NEW waiting \in SUBSET Batch, RecoverWrite(t, waiting)
  PROVE  \E todo \in SUBSET Batch : Has(t, "sending", 0, Absent, todo, "absent")
<1> DEFINE found == Listed(thread[t].copy)
           todo == First({b \in entries : found[b] \in {"pending", "deferred"}} \ waiting)
<1>1. todo \in SUBSET Batch
  BY DEF First, TypeOK
<1>2. Become(t, [IdleThread EXCEPT !.pc = "sending", !.todo = todo])
  BY DEF RecoverWrite
<1> HIDE DEF todo
<1> QED
  BY <1>1, <1>2, BeginMoves, IdleTyped DEF Place

\* A flush goes on with the rest of its chunks.
LEMMA MarkWriteMoves ==
  ASSUME TypeOK, NEW t \in Thread, MarkWrite(t)
  PROVE  Has(t, "sending", 0, Absent, thread[t].todo, "absent")
<1>1. thread[t].todo \in SUBSET Batch
  BY DEF TypeOK, ThreadState
<1> QED
  BY <1>1, BeginMoves, IdleTyped DEF MarkWrite, Place

\* A submission prepares its payload, or posts the one it has.
LEMMA SubmitMoves ==
  ASSUME TypeOK, NEW t \in Thread, Submit(t)
  PROVE  Has(t, IF Unprepared THEN "closing" ELSE "posting", 0, Absent, {}, "absent")
BY EnterMoves DEF Submit, Place

\* A submission flushes next; the route is done.
LEMMA FinalizedMoves ==
  ASSUME TypeOK, NEW t \in Thread, Finalized(t)
  PROVE  Has(t, IF lock = t THEN "flushing" ELSE "idle", 0, Absent, {}, "absent")
BY EnterMoves, LeaveMoves DEF Finalized, Return, Place

\* The lock a call gives up when it ends.
Unlocked(t) == IF lock = t THEN "free" ELSE lock

\* What _prepare_payload does with each status of the session.
LEMMA ReadMoves ==
  ASSUME TypeOK, NEW t \in Thread, ReadSession(t)
  PROVE  /\ thread[t].pc \in {"closing", "reopened"}
         /\ \/ /\ local.status = "collecting" /\ lock' = lock /\ local' = local
               /\ Has(t, "ending", local.accepted, Absent, {}, "absent")
            \/ /\ local.status = "finalized" /\ lock' = lock /\ local' = local
               /\ Has(t, "flushing", 0, Absent, {}, "absent")
            \/ /\ local.status = "abandoned" /\ lock' = lock /\ local'.status = "collecting"
               /\ Has(t, "reopened", 0, Absent, {}, "absent")
            \/ /\ lock' = Unlocked(t) /\ local' = local
               /\ Has(t, "idle", 0, Absent, {}, "absent")
<1>1. local.accepted \in Nat
  BY DEF TypeOK, LocalRow
<1>2. {"ending", "flushing", "reopened"} \subseteq Place
  BY DEF Place
<1>3. [local EXCEPT !.status = "collecting"].status = "collecting"
  BY DEF TypeOK, LocalRow
<1>4. Abort(t) => lock' = Unlocked(t) /\ Has(t, "idle", 0, Absent, {}, "absent")
  BY LeaveMoves DEF Abort, Return, Unlocked
<1>5. thread[t].pc \in {"closing", "reopened"}
  BY DEF ReadSession, At
<1> QED
  BY <1>1, <1>2, <1>3, <1>4, <1>5, BeginMoves, EnterMoves, IdleTyped DEF ReadSession

\* A submission holds a new id and its references.
LEMMA GatherMoves ==
  ASSUME TypeOK, NEW t \in Thread, Gather(t)
  PROVE  Has(t, "saving", minted + 1, Absent, Delivered, "absent")
<1>1. minted + 1 \in Nat /\ Delivered \in SUBSET Batch
  BY DEF TypeOK, Delivered
<1> QED
  BY <1>1, BeginMoves, IdleTyped DEF Gather, Place

\* The steps around a post.
LEMMA PostMoves ==
  ASSUME TypeOK, NEW t \in Thread, Save(t) \/ PostLands(t) \/ PostFails(t)
  PROVE  /\ Save(t) => Has(t, "posting", 0, Absent, {}, "absent")
         /\ PostLands(t) => Has(t, "acknowledged", 0, Absent, {}, "absent")
         /\ PostFails(t) => Has(t, "failed", 0, Absent, {}, "absent")
BY EnterMoves DEF Save, PostLands, PostFails, Place

\* A chunk held as delivered is one the service has.
LEMMA SendMoves ==
  ASSUME TypeOK, NEW t \in Thread, SendLands(t) \/ SendFails(t)
  PROVE  \E b \in Batch, outcome \in RowState :
           /\ Has(t, "marking", b, row, thread[t].todo \ {b}, outcome)
           /\ outcome = "delivered" => b \in service'.stored
<1>1. CASE SendLands(t)
  <2>1. PICK b \in Batch : Sent(t, b, "delivered") /\ service' = [service EXCEPT !.stored = @ \cup {b}]
    BY <1>1 DEF SendLands
  <2>2. b \in service'.stored
    BY <2>1 DEF TypeOK, ServiceRow
  <2>3. Has(t, "marking", b, row, thread[t].todo \ {b}, "delivered")
    BY <2>1, SentMoves DEF RowState
  <2> QED
    BY <2>2, <2>3 DEF RowState
<1>2. CASE SendFails(t)
  <2>1. PICK b \in Batch, outcome \in Unsent : Sent(t, b, outcome)
    BY <1>2 DEF SendFails
  <2>2. outcome \in RowState /\ outcome # "delivered"
    BY DEF Unsent, RowState
  <2>3. Has(t, "marking", b, row, thread[t].todo \ {b}, outcome)
    BY <2>1, <2>2, SentMoves
  <2> QED
    BY <2>2, <2>3
<1> QED
  BY <1>1, <1>2

\* The two halves of finalize, in a submission or in the route.
LEMMA FinalizeMovesOn ==
  ASSUME TypeOK, NEW t \in Thread, FinalizeBegin(t) \/ FinalizeEnd(t)
  PROVE  /\ thread[t].pc = IF FinalizeBegin(t) THEN "ending" ELSE "finalizing"
         /\ \/ /\ FinalizeBegin(t) /\ local.status = "collecting"
               /\ local'.status = "finalizing" /\ lock' = lock
               /\ Has(t, "finalizing", thread[t].cur, thread[t].copy, thread[t].todo, thread[t].outcome)
            \/ /\ lock' = Unlocked(t) /\ (FinalizeBegin(t) => local' = local)
               /\ Has(t, "idle", 0, Absent, {}, "absent")
            \/ /\ lock = t /\ lock' = t /\ (FinalizeBegin(t) => local' = local)
               /\ local'.status = "finalized"
               /\ Has(t, "flushing", 0, Absent, {}, "absent")
<1>1. Finalized(t) =>
        \/ lock' = Unlocked(t) /\ Has(t, "idle", 0, Absent, {}, "absent")
        \/ lock = t /\ lock' = t /\ Has(t, "flushing", 0, Absent, {}, "absent")
  BY FinalizedMoves DEF Finalized, Return, Unlocked
<1>2. Abort(t) => lock' = Unlocked(t) /\ Has(t, "idle", 0, Absent, {}, "absent")
  BY LeaveMoves DEF Abort, Return, Unlocked
<1>3. \A s \in {"finalized", "finalizing"} : [local EXCEPT !.status = s].status = s
  BY DEF TypeOK, LocalRow
<1>4. FinalizeBegin(t) => thread[t].pc = "ending"
  BY DEF FinalizeBegin, At
<1>5. FinalizeEnd(t) => thread[t].pc = "finalizing"
  BY DEF FinalizeEnd, At
<1>6. CASE FinalizeBegin(t)
  <2>1. "finalizing" \in Place
    BY DEF Place
  <2> QED
    BY <1>1, <1>2, <1>3, <1>4, <1>6, <2>1, GotoMoves DEF FinalizeBegin
<1>7. CASE FinalizeEnd(t)
  BY <1>1, <1>2, <1>3, <1>4, <1>5, <1>7 DEF FinalizeEnd
<1> QED
  BY <1>6, <1>7

\* After the end of a process every thread is at rest; a new one begins with
\* a flush.
LEMMA RestartMoves ==
  ASSUME TypeOK, NEW t \in Thread, Crash \/ Start
  PROVE  /\ thread'[t].pc = IF Start /\ t = "outbox" THEN "flushing" ELSE "idle"
         /\ thread'[t].copy = Absent /\ lock' = "free"
<1>1. ~(Crash /\ Start)
  BY DEF Crash, Start
<1>2. CASE Crash
  BY <1>1, <1>2 DEF Crash, IdleThread
<1>3. CASE Start
  <2>1. thread'[t] = IF t = "outbox" THEN [IdleThread EXCEPT !.pc = "flushing"] ELSE IdleThread
    BY <1>3 DEF Start
  <2> QED
    BY <1>3, <2>1 DEF Start, IdleThread
<1> QED
  BY <1>2, <1>3

-----------------------------------------------------------------------------
(* Every step keeps the invariant *)

\* Single fields of the rows can be replaced.
LEMMA RowsTyped ==
  ASSUME TypeOK
  PROVE  /\ local.accepted \in 0..MaxBatch /\ local.events \in 0..MaxBatch
         /\ \A s \in {"collecting", "finalizing", "finalized", "abandoned"} :
              [local EXCEPT !.status = s] \in LocalRow
         /\ \A b \in Batch : /\ [local EXCEPT !.events = b] \in LocalRow
                             /\ [local EXCEPT !.accepted = b] \in LocalRow
                             /\ [service EXCEPT !.stored = @ \cup {b}] \in ServiceRow
         /\ \A n \in Nat : [service EXCEPT !.open = FALSE, !.briefs = Append(@, n)] \in ServiceRow
         /\ \A s \in {"pending_upload", "submitted"} : [submission EXCEPT !.status = s] \in SubmissionRow
         /\ submission.id \in Nat /\ submission.refs \subseteq Batch
<1>1. local \in LocalRow /\ service \in ServiceRow /\ submission \in SubmissionRow
  BY DEF TypeOK
<1>2. /\ local.accepted \in 0..MaxBatch /\ local.events \in 0..MaxBatch
      /\ \A s \in {"collecting", "finalizing", "finalized", "abandoned"} :
           [local EXCEPT !.status = s] \in LocalRow
  BY <1>1 DEF LocalRow
<1>3. ASSUME NEW b \in Batch
      PROVE  /\ [local EXCEPT !.events = b] \in LocalRow /\ [local EXCEPT !.accepted = b] \in LocalRow
  BY <1>1 DEF LocalRow, Batch
<1>4. ASSUME NEW b \in Batch
      PROVE  [service EXCEPT !.stored = @ \cup {b}] \in ServiceRow
  BY <1>1 DEF ServiceRow
<1>5. ASSUME NEW n \in Nat
      PROVE  [service EXCEPT !.open = FALSE, !.briefs = Append(@, n)] \in ServiceRow
  <2>1. Append(service.briefs, n) \in Seq(Nat)
    BY <1>1 DEF ServiceRow
  <2> QED
    BY <1>1, <2>1 DEF ServiceRow
<1>6. /\ \A s \in {"pending_upload", "submitted"} : [submission EXCEPT !.status = s] \in SubmissionRow
      /\ submission.id \in Nat /\ submission.refs \subseteq Batch
  BY <1>1 DEF SubmissionRow
<1> QED
  BY <1>2, <1>3, <1>4, <1>5, <1>6

\* What a thread has in its hands is typed.
LEMMA ThreadsTyped ==
  ASSUME TypeOK, NEW t \in Thread
  PROVE  /\ thread[t].copy \in [Batch -> RowState] /\ thread[t].cur \in Nat
         /\ thread[t].outcome \in RowState /\ thread[t].todo \in SUBSET Batch
BY DEF TypeOK, ThreadState

\* Every step keeps the types.
LEMMA TypeStep ==
  ASSUME TypeOK, Places, [Next]_vars
  PROVE  TypeOK'
<1>1. ASSUME NEW b \in Batch, AppendBegin(b) PROVE TypeOK'
  <2>1. thread' \in [Thread -> ThreadState]
    BY <1>1, AppendBeginMoves DEF AppendBegin, Has
  <2>2. local' \in LocalRow
    BY <1>1, RowsTyped DEF AppendBegin, TypeOK
  <2> QED
    BY <1>1, <2>1, <2>2 DEF AppendBegin, TypeOK
<1>2. ASSUME NEW b \in Batch, Finalize(b) PROVE TypeOK'
  BY <1>2, FinalizeMoves DEF Finalize, At, files, TypeOK, Has
<1>3. ASSUME NEW t \in Thread, Submit(t) PROVE TypeOK'
  BY <1>3, SubmitMoves DEF Submit, At, Settled, Unprepared, files, TypeOK, Has
<1>4. ASSUME AppendEnd PROVE TypeOK'
  <2>1. thread' \in [Thread -> ThreadState]
    BY <1>4, AppendEndMoves DEF AppendEnd, Has
  <2>2. thread["http"].cur \in Batch
    BY <1>4 DEF AppendEnd, At, Places, Thread
  <2>3. local' \in LocalRow
    BY <1>4, <2>2, RowsTyped DEF AppendEnd, TypeOK
  <2> QED
    BY <1>4, <2>1, <2>2, <2>3 DEF AppendEnd, TypeOK
<1>5. ASSUME Enqueue PROVE TypeOK'
  <2>1. thread' \in [Thread -> ThreadState]
    BY <1>5, EnqueueMoves DEF Enqueue, Has
  <2>2. thread["http"].cur \in Batch
    BY <1>5 DEF Enqueue, At, Places, Thread
  <2>3. entries' \subseteq Batch
    BY <1>5, <2>2 DEF Enqueue, TypeOK
  <2> QED
    BY <1>5, <2>1, <2>2, <2>3 DEF Enqueue, TypeOK
<1>6. ASSUME EnqueueRead PROVE TypeOK'
  BY <1>6, EnqueueReadMoves DEF EnqueueRead, At, files, TypeOK, Has
<1>7. ASSUME EnqueueWrite PROVE TypeOK'
  <2>1. thread' \in [Thread -> ThreadState]
    BY <1>7, LeaveMoves DEF EnqueueWrite, Thread, Has
  <2>2. row' \in [Batch -> RowState]
    BY <1>7, ThreadsTyped DEF EnqueueWrite, RowState, Thread
  <2> QED
    BY <1>7, <2>1, <2>2 DEF EnqueueWrite, TypeOK
<1>8. ASSUME NEW t \in Thread, RecoverRead(t) PROVE TypeOK'
  BY <1>8, RecoverReadMoves DEF RecoverRead, At, files, TypeOK, Has
<1>9. ASSUME NEW t \in Thread, NEW waiting \in SUBSET Batch, RecoverWrite(t, waiting) PROVE TypeOK'
  <2>1. thread' \in [Thread -> ThreadState]
    BY <1>9, RecoverWriteMoves DEF RecoverWrite, Has
  <2>2. row' \in [Batch -> RowState]
    BY <1>9, ThreadsTyped DEF RecoverWrite, Listed, RowState, TypeOK
  <2> QED
    BY <1>9, <2>1, <2>2 DEF RecoverWrite, TypeOK
<1>10. ASSUME NEW t \in Thread, SendLands(t) PROVE TypeOK'
  <2>1. thread' \in [Thread -> ThreadState]
    BY <1>10, SentMoves DEF SendLands, RowState, Has
  <2>2. service' \in ServiceRow
    BY <1>10, RowsTyped DEF SendLands
  <2> QED
    BY <1>10, <2>1, <2>2 DEF SendLands, TypeOK, files
<1>11. ASSUME NEW t \in Thread, SendFails(t) PROVE TypeOK'
  <2>1. thread' \in [Thread -> ThreadState]
    BY <1>11, SentMoves DEF SendFails, Unsent, RowState, Has
  <2>2. service' \in ServiceRow
    BY <1>11, RowsTyped DEF SendFails, Lost, TypeOK
  <2> QED
    BY <1>11, <2>1, <2>2 DEF SendFails, TypeOK, files
<1>12. ASSUME NEW t \in Thread, SendBreaks(t) PROVE TypeOK'
  <2>1. thread' \in [Thread -> ThreadState]
    BY <1>12, LeaveMoves DEF SendBreaks, Abort, Return, Has
  <2>2. service' \in ServiceRow
    BY <1>12, RowsTyped DEF SendBreaks, Lost, TypeOK
  <2>3. lock' \in Thread \cup {"free"} /\ phase' \in {"up", "down", "starting", "broken"}
    BY <1>12 DEF SendBreaks, Abort, Return, TypeOK
  <2> QED
    BY <1>12, <2>1, <2>2, <2>3 DEF SendBreaks, TypeOK, files
<1>13. ASSUME NEW t \in Thread, MarkWrite(t) PROVE TypeOK'
  <2>1. thread' \in [Thread -> ThreadState]
    BY <1>13, MarkWriteMoves DEF MarkWrite, Has
  <2>2. row' \in [Batch -> RowState]
    BY <1>13, ThreadsTyped DEF MarkWrite
  <2> QED
    BY <1>13, <2>1, <2>2 DEF MarkWrite, TypeOK
<1>14. ASSUME FlushEnd PROVE TypeOK'
  <2>1. thread' \in [Thread -> ThreadState]
    BY <1>14, LeaveMoves DEF FlushEnd, Thread, Has
  <2> QED
    BY <1>14, <2>1 DEF FlushEnd, TypeOK, files
<1>15. ASSUME NEW t \in Thread, ReadSession(t) PROVE TypeOK'
  <2>1. thread' \in [Thread -> ThreadState]
    BY <1>15, ReadMoves DEF ReadSession, Has
  <2>2. local' \in LocalRow
    BY <1>15, RowsTyped DEF ReadSession, TypeOK
  <2>3. lock' \in Thread \cup {"free"} /\ phase' \in {"up", "down", "starting", "broken"}
    BY <1>15 DEF ReadSession, Abort, Return, TypeOK
  <2> QED
    BY <1>15, <2>1, <2>2, <2>3 DEF ReadSession, TypeOK, files
<1>16. ASSUME NEW t \in Thread, FinalizeBegin(t) PROVE TypeOK'
  <2>1. "finalizing" \in Place
    BY DEF Place
  <2>2. thread' \in [Thread -> ThreadState]
    BY <1>16, <2>1, GotoMoves, FinalizedMoves, LeaveMoves DEF FinalizeBegin, Abort, Return, Has
  <2>3. local' \in LocalRow
    BY <1>16, RowsTyped DEF FinalizeBegin, TypeOK
  <2>4. lock' \in Thread \cup {"free"} /\ phase' \in {"up", "down", "starting", "broken"}
    BY <1>16 DEF FinalizeBegin, Finalized, Abort, Return, TypeOK
  <2> QED
    BY <1>16, <2>1, <2>2, <2>3, <2>4 DEF FinalizeBegin, TypeOK
<1>17. ASSUME NEW t \in Thread, FinalizeEnd(t) PROVE TypeOK'
  <2>1. thread' \in [Thread -> ThreadState]
    BY <1>17, FinalizedMoves, LeaveMoves DEF FinalizeEnd, Abort, Return, Has
  <2>2. local' \in LocalRow
    BY <1>17, RowsTyped DEF FinalizeEnd, TypeOK
  <2>3. lock' \in Thread \cup {"free"} /\ phase' \in {"up", "down", "starting", "broken"}
    BY <1>17 DEF FinalizeEnd, Finalized, Abort, Return, TypeOK
  <2> QED
    BY <1>17, <2>1, <2>2, <2>3 DEF FinalizeEnd, TypeOK, files
<1>18. ASSUME NEW t \in Thread, Gather(t) PROVE TypeOK'
  <2>1. thread' \in [Thread -> ThreadState]
    BY <1>18, GatherMoves DEF Gather, Has
  <2> QED
    BY <1>18, <2>1 DEF Gather, TypeOK, files
<1>19. ASSUME NEW t \in Thread, Save(t) PROVE TypeOK'
  <2>1. thread' \in [Thread -> ThreadState]
    BY <1>19, PostMoves DEF Save, Has
  <2>2. submission' \in SubmissionRow
    BY <1>19, ThreadsTyped DEF Save, SubmissionRow
  <2> QED
    BY <1>19, <2>1, <2>2 DEF Save, TypeOK
<1>20. ASSUME NEW t \in Thread, PostLands(t) PROVE TypeOK'
  <2>1. thread' \in [Thread -> ThreadState]
    BY <1>20, PostMoves DEF PostLands, Has
  <2>2. submission.id \in Nat
    BY DEF TypeOK, SubmissionRow
  <2>3. service' \in ServiceRow
    BY <1>20, <2>2, RowsTyped DEF PostLands, Receive, TypeOK
  <2> QED
    BY <1>20, <2>1, <2>2, <2>3 DEF PostLands, TypeOK, files
<1>21. ASSUME NEW t \in Thread, PostFails(t) PROVE TypeOK'
  <2>1. thread' \in [Thread -> ThreadState]
    BY <1>21, PostMoves DEF PostFails, Has
  <2>2. submission.id \in Nat
    BY DEF TypeOK, SubmissionRow
  <2>3. service' \in ServiceRow
    BY <1>21, <2>2, RowsTyped DEF PostFails, Receive, TypeOK
  <2> QED
    BY <1>21, <2>1, <2>2, <2>3 DEF PostFails, TypeOK, files
<1>22. ASSUME NEW t \in Thread, PostBreaks(t) PROVE TypeOK'
  <2>1. thread' \in [Thread -> ThreadState]
    BY <1>22, LeaveMoves DEF PostBreaks, Abort, Return, Has
  <2>2. submission.id \in Nat
    BY DEF TypeOK, SubmissionRow
  <2>3. service' \in ServiceRow
    BY <1>22, <2>2, RowsTyped DEF PostBreaks, Receive, TypeOK
  <2> QED
    BY <1>22, <2>1, <2>2, <2>3 DEF PostBreaks, TypeOK, files, Abort, Return
<1>23. ASSUME NEW t \in Thread, SaveReply(t) PROVE TypeOK'
  <2>1. thread' \in [Thread -> ThreadState]
    BY <1>23, LeaveMoves DEF SaveReply, Return, Has
  <2>2. submission' \in SubmissionRow
    BY <1>23, RowsTyped DEF SaveReply, Recorded, TypeOK
  <2>3. lock' \in Thread \cup {"free"} /\ phase' \in {"up", "down", "starting", "broken"}
    BY <1>23 DEF SaveReply, Return, TypeOK
  <2> QED
    BY <1>23, <2>1, <2>2, <2>3 DEF SaveReply, TypeOK, files
<1>24. ASSUME Abandon PROVE TypeOK'
  <2>1. local' \in LocalRow
    BY <1>24, RowsTyped DEF Abandon, TypeOK
  <2> QED
    BY <1>24, <2>1 DEF Abandon, TypeOK, files
<1>25. ASSUME Recover PROVE TypeOK'
  <2>1. local' \in LocalRow
    BY <1>25, RowsTyped DEF Recover, TypeOK
  <2> QED
    BY <1>25, <2>1 DEF Recover, TypeOK, files
<1>26. ASSUME CutoffPasses PROVE TypeOK'
  BY <1>26 DEF CutoffPasses, files, TypeOK, Has
<1>27. ASSUME ServiceCloses PROVE TypeOK'
  <2>1. service' \in ServiceRow
    BY <1>27, RowsTyped DEF ServiceCloses
  <2> QED
    BY <1>27, <2>1 DEF ServiceCloses, TypeOK, files
<1>28. ASSUME Crash PROVE TypeOK'
  BY <1>28, IdleTyped DEF Crash, files, TypeOK, Has
<1>29. ASSUME Start PROVE TypeOK'
  <2>1. [IdleThread EXCEPT !.pc = "flushing"] \in ThreadState
    BY IdleTyped DEF ThreadState, Place
  <2>2. thread' \in [Thread -> ThreadState]
    BY <1>29, <2>1, IdleTyped DEF Start
  <2>3. local' \in LocalRow
    BY <1>29, RowsTyped DEF Start, TypeOK
  <2> QED
    BY <1>29, <2>1, <2>2, <2>3 DEF Start, TypeOK
<1>30. ASSUME Started PROVE TypeOK'
  BY <1>30 DEF Started, At, Settled, files, TypeOK, Has
<1>31. CASE UNCHANGED vars
  BY <1>31 DEF vars, files, TypeOK, Has
<1> QED
  BY <1>1, <1>2, <1>3, <1>4, <1>5, <1>6, <1>7, <1>8, <1>9, <1>10, <1>11, <1>12, <1>13, <1>14, <1>15, <1>16, <1>17, <1>18, <1>19, <1>20, <1>21, <1>22, <1>23, <1>24, <1>25, <1>26, <1>27, <1>28, <1>29, <1>30, <1>31
     DEF Next, ThreadStep, FlushStep, SubmitStep, EnqueueStep

\* Every step keeps each thread to its own places.
LEMMA PlacesStep ==
  ASSUME TypeOK, Places, [Next]_vars
  PROVE  Places'
<1> USE DEF Places, Has, Others, Thread, Flushing, Enqueueing
<1>1. ASSUME NEW b \in Batch, AppendBegin(b) PROVE Places'
  BY ZenonT(40), <1>1, AppendBeginMoves DEF AppendBegin, At, StoreFree
<1>2. ASSUME NEW b \in Batch, Finalize(b) PROVE Places'
  BY <1>2, FinalizeMoves DEF Finalize, At, files
<1>3. ASSUME NEW t \in Thread, Submit(t) PROVE Places'
  BY <1>3, SubmitMoves DEF Submit, At, Settled, Unprepared, files
<1>4. ASSUME AppendEnd PROVE Places'
  BY <1>4, AppendEndMoves DEF AppendEnd, At
<1>5. ASSUME Enqueue PROVE Places'
  BY <1>5, EnqueueMoves DEF Enqueue, At
<1>6. ASSUME EnqueueRead PROVE Places'
  BY <1>6, EnqueueReadMoves DEF EnqueueRead, At, files
<1>7. ASSUME EnqueueWrite PROVE Places'
  BY <1>7, LeaveMoves DEF EnqueueWrite, At
<1>8. ASSUME NEW t \in Thread, RecoverRead(t) PROVE Places'
  BY <1>8, RecoverReadMoves DEF RecoverRead, At, files
<1>9. ASSUME NEW t \in Thread, NEW waiting \in SUBSET Batch, RecoverWrite(t, waiting) PROVE Places'
  <2>1. thread[t].pc = "listing"
    BY <1>9 DEF RecoverWrite, At
  <2>2. PICK todo \in SUBSET Batch : Has(t, "sending", 0, Absent, todo, "absent")
    BY <1>9, RecoverWriteMoves
  <2> QED
    BY <2>1, <2>2
<1>10. ASSUME NEW t \in Thread, SendLands(t) PROVE Places'
  BY ZenonT(40), <1>10, SendMoves DEF SendLands, Turn, At, files
<1>11. ASSUME NEW t \in Thread, SendFails(t) PROVE Places'
  BY <1>11, SendMoves DEF SendFails, Turn, At, Lost, Unsent, files
<1>12. ASSUME NEW t \in Thread, SendBreaks(t) PROVE Places'
  BY <1>12, LeaveMoves DEF SendBreaks, Turn, At, Lost, Abort, Return, files
<1>13. ASSUME NEW t \in Thread, MarkWrite(t) PROVE Places'
  BY <1>13, MarkWriteMoves DEF MarkWrite, At
<1>14. ASSUME FlushEnd PROVE Places'
  BY <1>14, LeaveMoves DEF FlushEnd, At, files
<1>15. ASSUME NEW t \in Thread, ReadSession(t) PROVE Places'
  BY <1>15, ReadMoves DEF ReadSession, At, StoreFree, Abort, Return
<1>16. ASSUME NEW t \in Thread, FinalizeBegin(t) PROVE Places'
  BY <1>16, FinalizeMovesOn DEF FinalizeBegin, At, StoreFree, Finalized, Abort, Return
<1>17. ASSUME NEW t \in Thread, FinalizeEnd(t) PROVE Places'
  BY <1>17, FinalizeMovesOn DEF FinalizeEnd, At, Finalized, Abort, Return
<1>18. ASSUME NEW t \in Thread, Gather(t) PROVE Places'
  BY <1>18, GatherMoves DEF Gather, At, Delivered, files
<1>19. ASSUME NEW t \in Thread, Save(t) PROVE Places'
  BY <1>19, PostMoves DEF Save, At
<1>20. ASSUME NEW t \in Thread, PostLands(t) PROVE Places'
  BY <1>20, PostMoves DEF PostLands, At, Receive, files
<1>21. ASSUME NEW t \in Thread, PostFails(t) PROVE Places'
  BY <1>21, PostMoves DEF PostFails, At, Receive, files
<1>22. ASSUME NEW t \in Thread, PostBreaks(t) PROVE Places'
  BY <1>22, LeaveMoves DEF PostBreaks, At, Receive, Abort, Return, files
<1>23. ASSUME NEW t \in Thread, SaveReply(t) PROVE Places'
  BY <1>23, LeaveMoves DEF SaveReply, At, Recorded, Return
<1>24. ASSUME Abandon PROVE Places'
  BY <1>24 DEF Abandon, StoreFree
<1>25. ASSUME Recover PROVE Places'
  BY <1>25 DEF Recover, At, StoreFree
<1>26. ASSUME CutoffPasses PROVE Places'
  BY <1>26 DEF CutoffPasses, files
<1>27. ASSUME ServiceCloses PROVE Places'
  BY <1>27 DEF ServiceCloses, files
<1>28. ASSUME Crash PROVE Places'
  BY <1>28, RestartMoves DEF Crash, files
<1>29. ASSUME Start PROVE Places'
  BY <1>29, RestartMoves DEF Start
<1>30. ASSUME Started PROVE Places'
  BY <1>30 DEF Started, At, Settled, files
<1>31. CASE UNCHANGED vars
  BY <1>31 DEF vars, files
<1> QED
  BY <1>1, <1>2, <1>3, <1>4, <1>5, <1>6, <1>7, <1>8, <1>9, <1>10, <1>11, <1>12, <1>13, <1>14, <1>15, <1>16, <1>17, <1>18, <1>19, <1>20, <1>21, <1>22, <1>23, <1>24, <1>25, <1>26, <1>27, <1>28, <1>29, <1>30, <1>31
     DEF Next, ThreadStep, FlushStep, SubmitStep, EnqueueStep

\* A submission keeps the coordinator's lock to itself.
LEMMA LockingStep ==
  ASSUME TypeOK, Places, Locking, [Next]_vars
  PROVE  Locking'
<1> USE DEF Locking, Has, Others, Thread, Flushing, Preparing, Posting
<1>1. ASSUME NEW b \in Batch, AppendBegin(b) PROVE Locking'
  BY <1>1, AppendBeginMoves DEF AppendBegin, At, StoreFree
<1>2. ASSUME NEW b \in Batch, Finalize(b) PROVE Locking'
  BY <1>2, FinalizeMoves DEF Finalize, At, files
<1>3. ASSUME NEW t \in Thread, Submit(t) PROVE Locking'
  BY <1>3, SubmitMoves DEF Submit, At, Settled, Unprepared, files
<1>4. ASSUME AppendEnd PROVE Locking'
  BY <1>4, AppendEndMoves DEF AppendEnd, At
<1>5. ASSUME Enqueue PROVE Locking'
  BY <1>5, EnqueueMoves DEF Enqueue, At
<1>6. ASSUME EnqueueRead PROVE Locking'
  BY <1>6, EnqueueReadMoves DEF EnqueueRead, At, files
<1>7. ASSUME EnqueueWrite PROVE Locking'
  BY <1>7, LeaveMoves DEF EnqueueWrite, At
<1>8. ASSUME NEW t \in Thread, RecoverRead(t) PROVE Locking'
  BY <1>8, RecoverReadMoves DEF RecoverRead, At, files
<1>9. ASSUME NEW t \in Thread, NEW waiting \in SUBSET Batch, RecoverWrite(t, waiting) PROVE Locking'
  <2>1. thread[t].pc = "listing"
    BY <1>9 DEF RecoverWrite, At
  <2>2. PICK todo \in SUBSET Batch : Has(t, "sending", 0, Absent, todo, "absent")
    BY <1>9, RecoverWriteMoves
  <2> QED
    BY <1>9, <2>1, <2>2 DEF RecoverWrite
<1>10. ASSUME NEW t \in Thread, SendLands(t) PROVE Locking'
  <2>1. thread[t].pc = "sending" /\ UNCHANGED lock
    BY <1>10 DEF SendLands, Turn, At
  <2>2. PICK b \in Batch, outcome \in RowState :
          Has(t, "marking", b, row, thread[t].todo \ {b}, outcome)
    BY <1>10, SendMoves
  <2> QED
    BY <2>1, <2>2
<1>11. ASSUME NEW t \in Thread, SendFails(t) PROVE Locking'
  BY <1>11, SendMoves DEF SendFails, Turn, At, Lost, Unsent, files
<1>12. ASSUME NEW t \in Thread, SendBreaks(t) PROVE Locking'
  BY <1>12, LeaveMoves DEF SendBreaks, Turn, At, Lost, Abort, Return, files
<1>13. ASSUME NEW t \in Thread, MarkWrite(t) PROVE Locking'
  BY ZenonT(40), <1>13, MarkWriteMoves DEF MarkWrite, At
<1>14. ASSUME FlushEnd PROVE Locking'
  BY <1>14, LeaveMoves DEF FlushEnd, At, files
<1>15. ASSUME NEW t \in Thread, ReadSession(t) PROVE Locking'
  BY <1>15, ReadMoves DEF Unlocked, Places
<1>16. ASSUME NEW t \in Thread, FinalizeBegin(t) PROVE Locking'
  BY <1>16, FinalizeMovesOn DEF Unlocked, Places
<1>17. ASSUME NEW t \in Thread, FinalizeEnd(t) PROVE Locking'
  BY <1>17, FinalizeMovesOn DEF Unlocked, Places
<1>18. ASSUME NEW t \in Thread, Gather(t) PROVE Locking'
  BY <1>18, GatherMoves DEF Gather, At, Delivered, files
<1>19. ASSUME NEW t \in Thread, Save(t) PROVE Locking'
  BY <1>19, PostMoves DEF Save, At
<1>20. ASSUME NEW t \in Thread, PostLands(t) PROVE Locking'
  BY <1>20, PostMoves DEF PostLands, At, Receive, files
<1>21. ASSUME NEW t \in Thread, PostFails(t) PROVE Locking'
  BY <1>21, PostMoves DEF PostFails, At, Receive, files
<1>22. ASSUME NEW t \in Thread, PostBreaks(t) PROVE Locking'
  BY <1>22, LeaveMoves DEF PostBreaks, At, Receive, Abort, Return, files
<1>23. ASSUME NEW t \in Thread, SaveReply(t) PROVE Locking'
  BY <1>23, LeaveMoves DEF SaveReply, At, Recorded, Return
<1>24. ASSUME Abandon PROVE Locking'
  BY <1>24 DEF Abandon, StoreFree
<1>25. ASSUME Recover PROVE Locking'
  BY <1>25 DEF Recover, At, StoreFree
<1>26. ASSUME CutoffPasses PROVE Locking'
  BY <1>26 DEF CutoffPasses, files
<1>27. ASSUME ServiceCloses PROVE Locking'
  BY <1>27 DEF ServiceCloses, files
<1>28. ASSUME Crash PROVE Locking'
  BY <1>28, RestartMoves DEF Crash, files
<1>29. ASSUME Start PROVE Locking'
  BY <1>29, RestartMoves DEF Start
<1>30. ASSUME Started PROVE Locking'
  BY <1>30 DEF Started, At, Settled, files
<1>31. CASE UNCHANGED vars
  BY <1>31 DEF vars, files
<1> QED
  BY <1>1, <1>2, <1>3, <1>4, <1>5, <1>6, <1>7, <1>8, <1>9, <1>10, <1>11, <1>12, <1>13, <1>14, <1>15, <1>16, <1>17, <1>18, <1>19, <1>20, <1>21, <1>22, <1>23, <1>24, <1>25, <1>26, <1>27, <1>28, <1>29, <1>30, <1>31
     DEF Next, ThreadStep, FlushStep, SubmitStep, EnqueueStep

\* The service never loses a chunk.
LEMMA StoredGrows ==
  ASSUME TypeOK, [Next]_vars
  PROVE  service.stored \subseteq service'.stored
<1>0. service \in ServiceRow
  BY DEF TypeOK
<1> USE DEF ServiceRow
<1>1. ASSUME NEW b \in Batch, AppendBegin(b) PROVE service.stored \subseteq service'.stored
  BY <1>1 DEF AppendBegin
<1>2. ASSUME NEW b \in Batch, Finalize(b) PROVE service.stored \subseteq service'.stored
  BY <1>2 DEF Finalize, files
<1>3. ASSUME NEW t \in Thread, Submit(t) PROVE service.stored \subseteq service'.stored
  BY <1>3 DEF Submit, files
<1>4. ASSUME AppendEnd PROVE service.stored \subseteq service'.stored
  BY <1>4 DEF AppendEnd
<1>5. ASSUME Enqueue PROVE service.stored \subseteq service'.stored
  BY <1>5 DEF Enqueue
<1>6. ASSUME EnqueueRead PROVE service.stored \subseteq service'.stored
  BY <1>6 DEF EnqueueRead, files
<1>7. ASSUME EnqueueWrite PROVE service.stored \subseteq service'.stored
  BY <1>7 DEF EnqueueWrite
<1>8. ASSUME NEW t \in Thread, RecoverRead(t) PROVE service.stored \subseteq service'.stored
  BY <1>8 DEF RecoverRead, files
<1>9. ASSUME NEW t \in Thread, NEW waiting \in SUBSET Batch, RecoverWrite(t, waiting) PROVE service.stored \subseteq service'.stored
  BY <1>9 DEF RecoverWrite
<1>10. ASSUME NEW t \in Thread, SendLands(t) PROVE service.stored \subseteq service'.stored
  BY <1>10, <1>0 DEF SendLands, files
<1>11. ASSUME NEW t \in Thread, SendFails(t) PROVE service.stored \subseteq service'.stored
  BY <1>11, <1>0 DEF SendFails, Lost, files
<1>12. ASSUME NEW t \in Thread, SendBreaks(t) PROVE service.stored \subseteq service'.stored
  BY <1>12, <1>0 DEF SendBreaks, Lost, Abort, Return, files
<1>13. ASSUME NEW t \in Thread, MarkWrite(t) PROVE service.stored \subseteq service'.stored
  BY <1>13 DEF MarkWrite
<1>14. ASSUME FlushEnd PROVE service.stored \subseteq service'.stored
  BY <1>14 DEF FlushEnd, files
<1>15. ASSUME NEW t \in Thread, ReadSession(t) PROVE service.stored \subseteq service'.stored
  BY <1>15 DEF ReadSession, Abort, Return
<1>16. ASSUME NEW t \in Thread, FinalizeBegin(t) PROVE service.stored \subseteq service'.stored
  BY <1>16 DEF FinalizeBegin, Abort, Return
<1>17. ASSUME NEW t \in Thread, FinalizeEnd(t) PROVE service.stored \subseteq service'.stored
  BY <1>17 DEF FinalizeEnd, Abort, Return
<1>18. ASSUME NEW t \in Thread, Gather(t) PROVE service.stored \subseteq service'.stored
  BY <1>18 DEF Gather, files
<1>19. ASSUME NEW t \in Thread, Save(t) PROVE service.stored \subseteq service'.stored
  BY <1>19 DEF Save
<1>20. ASSUME NEW t \in Thread, PostLands(t) PROVE service.stored \subseteq service'.stored
  BY <1>20, <1>0 DEF PostLands, Receive, files
<1>21. ASSUME NEW t \in Thread, PostFails(t) PROVE service.stored \subseteq service'.stored
  BY <1>21, <1>0 DEF PostFails, Receive, files
<1>22. ASSUME NEW t \in Thread, PostBreaks(t) PROVE service.stored \subseteq service'.stored
  BY <1>22, <1>0 DEF PostBreaks, Receive, Abort, Return, files
<1>23. ASSUME NEW t \in Thread, SaveReply(t) PROVE service.stored \subseteq service'.stored
  BY <1>23 DEF SaveReply, Return
<1>24. ASSUME Abandon PROVE service.stored \subseteq service'.stored
  BY <1>24 DEF Abandon
<1>25. ASSUME Recover PROVE service.stored \subseteq service'.stored
  BY <1>25 DEF Recover
<1>26. ASSUME CutoffPasses PROVE service.stored \subseteq service'.stored
  BY <1>26 DEF CutoffPasses, files
<1>27. ASSUME ServiceCloses PROVE service.stored \subseteq service'.stored
  BY <1>27, <1>0 DEF ServiceCloses, files
<1>28. ASSUME Crash PROVE service.stored \subseteq service'.stored
  BY <1>28 DEF Crash, files
<1>29. ASSUME Start PROVE service.stored \subseteq service'.stored
  BY <1>29 DEF Start
<1>30. ASSUME Started PROVE service.stored \subseteq service'.stored
  BY <1>30 DEF Started, files
<1>31. CASE UNCHANGED vars
  BY <1>31 DEF vars, files
<1> QED
  BY <1>1, <1>2, <1>3, <1>4, <1>5, <1>6, <1>7, <1>8, <1>9, <1>10, <1>11, <1>12, <1>13, <1>14, <1>15, <1>16, <1>17, <1>18, <1>19, <1>20, <1>21, <1>22, <1>23, <1>24, <1>25, <1>26, <1>27, <1>28, <1>29, <1>30, <1>31
     DEF Next, ThreadStep, FlushStep, SubmitStep, EnqueueStep

\* No stale copy of state.json brings in a receipt that was not given.
LEMMA EvidenceStep ==
  ASSUME TypeOK, Places, Evidence, [Next]_vars
  PROVE  Evidence'
<1> USE DEF Evidence, DeliveredIsStored, ReferencesAreStored, Has, Others
<1>0. service.stored \subseteq service'.stored /\ Absent \in [Batch -> RowState] /\ \A b \in Batch : Absent[b] = "absent"
  BY StoredGrows, IdleTyped DEF Absent
<1>1. ASSUME NEW b \in Batch, AppendBegin(b) PROVE Evidence'
  BY ZenonT(40), <1>1, AppendBeginMoves, <1>0 DEF AppendBegin, At, StoreFree
<1>2. ASSUME NEW b \in Batch, Finalize(b) PROVE Evidence'
  BY ZenonT(40), <1>2, FinalizeMoves, <1>0 DEF Finalize, At, files
<1>3. ASSUME NEW t \in Thread, Submit(t) PROVE Evidence'
  BY <1>3, SubmitMoves, <1>0 DEF Submit, At, Settled, Unprepared, files
<1>4. ASSUME AppendEnd PROVE Evidence'
  BY <1>4, AppendEndMoves, <1>0 DEF AppendEnd, At
<1>5. ASSUME Enqueue PROVE Evidence'
  BY <1>5, EnqueueMoves, <1>0 DEF Enqueue, At
<1>6. ASSUME EnqueueRead PROVE Evidence'
  BY <1>6, EnqueueReadMoves, <1>0 DEF EnqueueRead, At, files
<1>7. ASSUME EnqueueWrite PROVE Evidence'
  <2>1. /\ "http" \in Thread /\ thread["http"].copy \in [Batch -> RowState]
        /\ row' = [thread["http"].copy EXCEPT ![thread["http"].cur] = "pending"]
        /\ submission' = submission /\ service' = service
    BY <1>7, ThreadsTyped DEF EnqueueWrite, Thread
  <2>2. Has("http", "idle", 0, Absent, {}, "absent")
    BY <1>7, <2>1, LeaveMoves DEF EnqueueWrite
  <2>3. DeliveredIsStored'
    BY <2>1
  <2> QED
    BY <2>1, <2>2, <2>3, <1>0
<1>8. ASSUME NEW t \in Thread, RecoverRead(t) PROVE Evidence'
  BY <1>8, RecoverReadMoves, <1>0 DEF RecoverRead, At, files
<1>9. ASSUME NEW t \in Thread, NEW waiting \in SUBSET Batch, RecoverWrite(t, waiting) PROVE Evidence'
  <2>1. /\ thread[t].copy \in [Batch -> RowState]
        /\ row' \in {row, Listed(thread[t].copy)}
        /\ submission' = submission /\ service' = service
    BY <1>9, ThreadsTyped DEF RecoverWrite
  <2>2. \A b \in Batch : Listed(thread[t].copy)[b] \in {"pending", thread[t].copy[b]}
    BY DEF Listed
  <2>3. DeliveredIsStored'
    BY <2>1, <2>2
  <2>4. PICK todo \in SUBSET Batch : Has(t, "sending", 0, Absent, todo, "absent")
    BY <1>9, RecoverWriteMoves
  <2> QED
    BY <2>1, <2>3, <2>4, <1>0
<1>10. ASSUME NEW t \in Thread, SendLands(t) PROVE Evidence'
  <2>1. /\ row' = row /\ submission' = submission
    BY <1>10 DEF SendLands, files
  <2>2. PICK b \in Batch, outcome \in RowState :
          /\ Has(t, "marking", b, row, thread[t].todo \ {b}, outcome)
          /\ outcome = "delivered" => b \in service'.stored
    BY <1>10, SendMoves
  <2> QED
    BY <2>1, <2>2, <1>0
<1>11. ASSUME NEW t \in Thread, SendFails(t) PROVE Evidence'
  <2>1. /\ row' = row /\ submission' = submission
    BY <1>11 DEF SendFails, files
  <2>2. PICK b \in Batch, outcome \in RowState :
          /\ Has(t, "marking", b, row, thread[t].todo \ {b}, outcome)
          /\ outcome = "delivered" => b \in service'.stored
    BY <1>11, SendMoves
  <2> QED
    BY <2>1, <2>2, <1>0
<1>12. ASSUME NEW t \in Thread, SendBreaks(t) PROVE Evidence'
  BY <1>12, LeaveMoves, <1>0 DEF SendBreaks, Turn, At, Lost, Abort, Return, files
<1>13. ASSUME NEW t \in Thread, MarkWrite(t) PROVE Evidence'
  <2>1. /\ thread[t].copy \in [Batch -> RowState] /\ thread[t].pc = "marking"
        /\ row' = [thread[t].copy EXCEPT ![thread[t].cur] = thread[t].outcome]
        /\ submission' = submission /\ service' = service
    BY <1>13, ThreadsTyped DEF MarkWrite, At
  <2>2. Has(t, "sending", 0, Absent, thread[t].todo, "absent")
    BY <1>13, MarkWriteMoves
  <2>3. DeliveredIsStored'
    BY <2>1
  <2> QED
    BY <2>1, <2>2, <2>3, <1>0
<1>14. ASSUME FlushEnd PROVE Evidence'
  <2>1. /\ "outbox" \in Thread /\ row' = row /\ submission' = submission
    BY <1>14 DEF FlushEnd, files, Thread
  <2>2. Has("outbox", "idle", 0, Absent, {}, "absent")
    BY <1>14, <2>1, LeaveMoves DEF FlushEnd
  <2> QED
    BY <2>1, <2>2, <1>0
<1>15. ASSUME NEW t \in Thread, ReadSession(t) PROVE Evidence'
  BY <1>15, ReadMoves, <1>0 DEF ReadSession, At, StoreFree, Abort, Return
<1>16. ASSUME NEW t \in Thread, FinalizeBegin(t) PROVE Evidence'
  BY <1>16, FinalizeMovesOn, <1>0 DEF FinalizeBegin, At, StoreFree, Finalized, Abort, Return
<1>17. ASSUME NEW t \in Thread, FinalizeEnd(t) PROVE Evidence'
  BY <1>17, FinalizeMovesOn, <1>0 DEF FinalizeEnd, At, Finalized, Abort, Return
<1>18. ASSUME NEW t \in Thread, Gather(t) PROVE Evidence'
  <2>1. /\ row' = row /\ submission' = submission /\ service' = service
    BY <1>18 DEF Gather, files
  <2>2. Has(t, "saving", minted + 1, Absent, Delivered, "absent")
    BY <1>18, GatherMoves
  <2>3. Delivered \subseteq service.stored
    BY DEF Delivered, TypeOK
  <2> QED
    BY <2>1, <2>2, <2>3, <1>0
<1>19. ASSUME NEW t \in Thread, Save(t) PROVE Evidence'
  BY <1>19, PostMoves, <1>0 DEF Save, At
<1>20. ASSUME NEW t \in Thread, PostLands(t) PROVE Evidence'
  BY <1>20, PostMoves, <1>0 DEF PostLands, At, Receive, files
<1>21. ASSUME NEW t \in Thread, PostFails(t) PROVE Evidence'
  BY <1>21, PostMoves, <1>0 DEF PostFails, At, Receive, files
<1>22. ASSUME NEW t \in Thread, PostBreaks(t) PROVE Evidence'
  BY <1>22, LeaveMoves, <1>0 DEF PostBreaks, At, Receive, Abort, Return, files
<1>23. ASSUME NEW t \in Thread, SaveReply(t) PROVE Evidence'
  BY <1>23, LeaveMoves, <1>0 DEF SaveReply, At, Recorded, Return
<1>24. ASSUME Abandon PROVE Evidence'
  BY <1>24, <1>0 DEF Abandon, StoreFree
<1>25. ASSUME Recover PROVE Evidence'
  BY <1>25, <1>0 DEF Recover, At, StoreFree
<1>26. ASSUME CutoffPasses PROVE Evidence'
  BY <1>26, <1>0 DEF CutoffPasses, files
<1>27. ASSUME ServiceCloses PROVE Evidence'
  BY <1>27, <1>0 DEF ServiceCloses, files
<1>28. ASSUME Crash PROVE Evidence'
  BY <1>28, RestartMoves, <1>0 DEF Crash, files
<1>29. ASSUME Start PROVE Evidence'
  BY <1>29, RestartMoves, <1>0 DEF Start
<1>30. ASSUME Started PROVE Evidence'
  BY <1>30, <1>0 DEF Started, At, Settled, files
<1>31. CASE UNCHANGED vars
  BY <1>31 DEF vars, files
<1> QED
  BY <1>1, <1>2, <1>3, <1>4, <1>5, <1>6, <1>7, <1>8, <1>9, <1>10, <1>11, <1>12, <1>13, <1>14, <1>15, <1>16, <1>17, <1>18, <1>19, <1>20, <1>21, <1>22, <1>23, <1>24, <1>25, <1>26, <1>27, <1>28, <1>29, <1>30, <1>31
     DEF Next, ThreadStep, FlushStep, SubmitStep, EnqueueStep

\* A thread that only flushes leaves the session where it is.
LEMMA FlushKeeps ==
  ASSUME TypeOK, Locking, Stages, NEW t \in Thread, Others(t),
         local' = local, submission' = submission, lock' = lock,
         thread[t].pc \in Flushing \/ (t = "outbox" /\ thread[t].pc = "idle"),
         thread'[t].pc \in Flushing
  PROVE  Stages'
<1>1. lock = t => thread[t].pc \in Flushing
  BY DEF Locking
<1>2. \A pc \in Flushing : pc \notin Posting \cup {"appending", "finalizing", "saving"}
  BY DEF Flushing, Posting
<1> QED
  BY <1>1, <1>2 DEF Stages, Others

\* The session and its submission advance together.
LEMMA StagesStep ==
  ASSUME TypeOK, Places, Locking, Stages, [Next]_vars
  PROVE  Stages'
<1> USE DEF Stages, Has, Others, Thread, Flushing, Posting
<1>0. /\ \A b \in Batch : /\ [local EXCEPT !.events = b].status = local.status
                          /\ [local EXCEPT !.accepted = b].status = local.status
      /\ \A s \in STRING : /\ [local EXCEPT !.status = s].status = s
                           /\ [submission EXCEPT !.status = s].status = s
  BY DEF TypeOK, LocalRow, SubmissionRow
<1>1. ASSUME NEW b \in Batch, AppendBegin(b) PROVE Stages'
  BY ZenonT(40), <1>1, AppendBeginMoves, <1>0 DEF AppendBegin, At, StoreFree
<1>2. ASSUME NEW b \in Batch, Finalize(b) PROVE Stages'
  <2>1. /\ "http" \in Thread /\ thread["http"].pc = "idle"
        /\ submission' = submission /\ local' = local /\ lock' = lock
    BY <1>2 DEF Finalize, files, At
  <2>2. Has("http", "ending", b, Absent, {}, "absent")
    BY <1>2, FinalizeMoves
  <2>3. lock # "http"
    BY <2>1 DEF Locking, Preparing
  <2> QED
    BY <2>1, <2>2, <2>3
<1>3. ASSUME NEW t \in Thread, Submit(t) PROVE Stages'
  <2>1. /\ lock = "free" /\ lock' = t /\ submission.status # "submitted"
        /\ submission' = submission /\ local' = local
    BY <1>3 DEF Submit, files, Settled
  <2>2. Has(t, IF submission.status = "absent" THEN "closing" ELSE "posting", 0, Absent, {}, "absent")
    BY <1>3, SubmitMoves DEF Unprepared
  <2>3. submission.status \in {"absent", "submitting", "pending_upload", "submitted"}
    BY DEF TypeOK, SubmissionRow
  <2> QED
    BY <2>1, <2>2, <2>3
<1>4. ASSUME AppendEnd PROVE Stages'
  BY <1>4, AppendEndMoves, <1>0 DEF AppendEnd, At
<1>5. ASSUME Enqueue PROVE Stages'
  BY <1>5, EnqueueMoves, <1>0 DEF Enqueue, At
<1>6. ASSUME EnqueueRead PROVE Stages'
  BY <1>6, EnqueueReadMoves, <1>0 DEF EnqueueRead, At, files
<1>7. ASSUME EnqueueWrite PROVE Stages'
  BY <1>7, LeaveMoves, <1>0 DEF EnqueueWrite, At
<1>8. ASSUME NEW t \in Thread, RecoverRead(t) PROVE Stages'
  <2>1. /\ submission' = submission /\ local' = local /\ lock' = lock
        /\ thread[t].pc \in Flushing \/ (t = "outbox" /\ thread[t].pc = "idle")
    BY <1>8 DEF RecoverRead, At, files
  <2>2. Others(t) /\ thread'[t].pc \in Flushing
    BY <1>8, RecoverReadMoves
  <2> QED
    BY <2>1, <2>2, FlushKeeps
<1>9. ASSUME NEW t \in Thread, NEW waiting \in SUBSET Batch, RecoverWrite(t, waiting) PROVE Stages'
  <2>1. /\ submission' = submission /\ local' = local /\ lock' = lock
        /\ thread[t].pc \in Flushing \/ (t = "outbox" /\ thread[t].pc = "idle")
    BY <1>9 DEF RecoverWrite, At
  <2>2. Others(t) /\ thread'[t].pc \in Flushing
    BY <1>9, RecoverWriteMoves
  <2> QED
    BY <2>1, <2>2, FlushKeeps
<1>10. ASSUME NEW t \in Thread, SendLands(t) PROVE Stages'
  <2>1. /\ submission' = submission /\ local' = local /\ lock' = lock
        /\ thread[t].pc \in Flushing \/ (t = "outbox" /\ thread[t].pc = "idle")
    BY <1>10 DEF SendLands, Turn, At, files
  <2>2. Others(t) /\ thread'[t].pc \in Flushing
    BY <1>10, SendMoves
  <2> QED
    BY <2>1, <2>2, FlushKeeps
<1>11. ASSUME NEW t \in Thread, SendFails(t) PROVE Stages'
  <2>1. /\ submission' = submission /\ local' = local /\ lock' = lock
        /\ thread[t].pc \in Flushing \/ (t = "outbox" /\ thread[t].pc = "idle")
    BY <1>11 DEF SendFails, Turn, At, files
  <2>2. Others(t) /\ thread'[t].pc \in Flushing
    BY <1>11, SendMoves
  <2> QED
    BY <2>1, <2>2, FlushKeeps
<1>12. ASSUME NEW t \in Thread, SendBreaks(t) PROVE Stages'
  BY <1>12, LeaveMoves, <1>0 DEF SendBreaks, Turn, At, Lost, Abort, Return, files
<1>13. ASSUME NEW t \in Thread, MarkWrite(t) PROVE Stages'
  <2>1. /\ submission' = submission /\ local' = local /\ lock' = lock
        /\ thread[t].pc \in Flushing \/ (t = "outbox" /\ thread[t].pc = "idle")
    BY <1>13 DEF MarkWrite, At
  <2>2. Others(t) /\ thread'[t].pc \in Flushing
    BY <1>13, MarkWriteMoves
  <2> QED
    BY <2>1, <2>2, FlushKeeps
<1>14. ASSUME FlushEnd PROVE Stages'
  BY <1>14, LeaveMoves, <1>0 DEF FlushEnd, At, files
<1>15. ASSUME NEW t \in Thread, ReadSession(t) PROVE Stages'
  BY <1>15, ReadMoves, <1>0 DEF ReadSession, At, StoreFree, Abort, Return
<1>16. ASSUME NEW t \in Thread, FinalizeBegin(t) PROVE Stages'
  BY <1>16, FinalizeMovesOn, <1>0 DEF FinalizeBegin, At, StoreFree, Finalized, Abort, Return
<1>17. ASSUME NEW t \in Thread, FinalizeEnd(t) PROVE Stages'
  BY <1>17, FinalizeMovesOn, <1>0 DEF FinalizeEnd, At, Finalized, Abort, Return
<1>18. ASSUME NEW t \in Thread, Gather(t) PROVE Stages'
  BY <1>18, GatherMoves, <1>0 DEF Gather, At, Delivered, files
<1>19. ASSUME NEW t \in Thread, Save(t) PROVE Stages'
  <2>1. /\ submission'.status = "submitting" /\ local' = local /\ lock' = lock
        /\ thread[t].pc = "saving"
    BY <1>19 DEF Save, At
  <2>2. lock = t /\ local.status = "finalized"
    BY <2>1 DEF Locking, Preparing
  <2>3. Has(t, "posting", 0, Absent, {}, "absent")
    BY <1>19, PostMoves
  <2>4. \A u \in Thread : thread[u].pc \in Posting => u = t
    BY <2>2 DEF Locking
  <2> QED
    BY <2>1, <2>2, <2>3, <2>4
<1>20. ASSUME NEW t \in Thread, PostLands(t) PROVE Stages'
  BY <1>20, PostMoves, <1>0 DEF PostLands, At, Receive, files
<1>21. ASSUME NEW t \in Thread, PostFails(t) PROVE Stages'
  BY <1>21, PostMoves, <1>0 DEF PostFails, At, Receive, files
<1>22. ASSUME NEW t \in Thread, PostBreaks(t) PROVE Stages'
  BY <1>22, LeaveMoves, <1>0 DEF PostBreaks, At, Receive, Abort, Return, files
<1>23. ASSUME NEW t \in Thread, SaveReply(t) PROVE Stages'
  <2>1. /\ submission'.status \in {"submitted", "pending_upload"} /\ local' = local
        /\ thread[t].pc \in Posting /\ lock' = Unlocked(t)
    BY <1>23, <1>0 DEF SaveReply, At, Recorded, Return, Unlocked
  <2>2. lock = t /\ local.status = "finalized" /\ lock' = "free"
    BY <2>1 DEF Locking, Unlocked
  <2>3. Has(t, "idle", 0, Absent, {}, "absent")
    BY <1>23, LeaveMoves DEF SaveReply, Return
  <2>4. \A u \in Thread : thread[u].pc \in Posting => u = t
    BY <2>2 DEF Locking
  <2>5. lock' \notin Thread
    BY <2>2
  <2> QED
    BY <2>1, <2>2, <2>3, <2>4, <2>5
<1>24. ASSUME Abandon PROVE Stages'
  BY <1>24, <1>0 DEF Abandon, StoreFree
<1>25. ASSUME Recover PROVE Stages'
  BY <1>25, <1>0 DEF Recover, At, StoreFree
<1>26. ASSUME CutoffPasses PROVE Stages'
  BY <1>26, <1>0 DEF CutoffPasses, files
<1>27. ASSUME ServiceCloses PROVE Stages'
  BY <1>27, <1>0 DEF ServiceCloses, files
<1>28. ASSUME Crash PROVE Stages'
  BY <1>28, RestartMoves, <1>0 DEF Crash, files
<1>29. ASSUME Start PROVE Stages'
  BY <1>29, RestartMoves, <1>0 DEF Start
<1>30. ASSUME Started PROVE Stages'
  BY <1>30, <1>0 DEF Started, At, Settled, files
<1>31. CASE UNCHANGED vars
  BY <1>31 DEF vars, files
<1> QED
  BY <1>1, <1>2, <1>3, <1>4, <1>5, <1>6, <1>7, <1>8, <1>9, <1>10, <1>11, <1>12, <1>13, <1>14, <1>15, <1>16, <1>17, <1>18, <1>19, <1>20, <1>21, <1>22, <1>23, <1>24, <1>25, <1>26, <1>27, <1>28, <1>29, <1>30, <1>31
     DEF Next, ThreadStep, FlushStep, SubmitStep, EnqueueStep

\* What an action that sends no brief has to keep.
LEMMA BriefsKept ==
  ASSUME Briefs, submission' = submission, service'.briefs = service.briefs,
         \A t \in Thread :
           /\ thread'[t].pc = "acknowledged" => thread[t].pc = "acknowledged"
           /\ thread'[t].pc = "saving" => thread'[t].cur # 0
  PROVE  Briefs'
BY DEF Briefs, OnePluginRevision, SubmittedIsReceived, Ids

\* What appending a revision does to the briefs.
LEMMA BriefAppended ==
  ASSUME TypeOK, NEW n \in Nat,
         service' = [service EXCEPT !.open = FALSE, !.briefs = Append(@, n)]
  PROVE  /\ Len(service'.briefs) = Len(service.briefs) + 1 /\ Len(service.briefs) \in Nat
         /\ service'.briefs[Len(service.briefs) + 1] = n
         /\ \A i \in 1..Len(service.briefs) : service'.briefs[i] = service.briefs[i]
         /\ Ids' = Ids \cup {n}
<1>1. service.briefs \in Seq(Nat) /\ service'.briefs = Append(service.briefs, n)
  BY DEF TypeOK, ServiceRow
<1>2. /\ Len(service'.briefs) = Len(service.briefs) + 1 /\ Len(service.briefs) \in Nat
      /\ service'.briefs[Len(service.briefs) + 1] = n
      /\ \A i \in 1..Len(service.briefs) : service'.briefs[i] = service.briefs[i]
  BY <1>1
<1>3. Ids' = Ids \cup {n}
  <2>1. Ids' = {service'.briefs[i] : i \in 1..(Len(service.briefs) + 1)}
    BY <1>2 DEF Ids
  <2>2. \A i \in 1..(Len(service.briefs) + 1) : i \in 1..Len(service.briefs) \/ i = Len(service.briefs) + 1
    BY <1>2
  <2>3. Len(service.briefs) + 1 \in 1..(Len(service.briefs) + 1)
        /\ 1..Len(service.briefs) \subseteq 1..(Len(service.briefs) + 1)
    BY <1>2
  <2> QED
    BY <1>2, <2>1, <2>2, <2>3 DEF Ids
<1> QED
  BY <1>2, <1>3

\* The brief of a submission is received once, whatever is sent again.
LEMMA ReceiveOnce ==
  ASSUME TypeOK, Briefs, submission.status # "absent", submission' = submission,
         service' = service \/ Receive,
         \A t \in Thread :
           /\ thread'[t].pc = "acknowledged" => thread[t].pc = "acknowledged" \/ Receive
           /\ thread'[t].pc # "saving" \/ thread'[t] = thread[t]
  PROVE  Briefs'
<1>1. CASE submission.id \in Ids \/ ~Receive
  <2>1. service' = service
    BY <1>1 DEF Receive
  <2>2. Ids' = Ids
    BY <2>1 DEF Ids
  <2>3. \A t \in Thread : thread'[t].pc = "acknowledged" => submission.id \in Ids
    BY <1>1 DEF Briefs
  <2> QED
    BY <2>1, <2>2, <2>3 DEF Briefs, OnePluginRevision, SubmittedIsReceived
<1>2. CASE submission.id \notin Ids /\ Receive
  <2>1. submission.id \in Nat
    BY RowsTyped
  <2>2. service' = [service EXCEPT !.open = FALSE, !.briefs = Append(@, submission.id)]
    BY <1>2 DEF Receive
  <2>3. /\ Len(service'.briefs) = Len(service.briefs) + 1 /\ Len(service.briefs) \in Nat
        /\ service'.briefs[Len(service.briefs) + 1] = submission.id
        /\ \A i \in 1..Len(service.briefs) : service'.briefs[i] = service.briefs[i]
        /\ Ids' = Ids \cup {submission.id}
    BY <2>1, <2>2, BriefAppended
  <2>4. \A i \in 1..Len(service.briefs) : service.briefs[i] = 0
    BY <1>2 DEF Briefs, Ids
  <2>5. \A i \in 1..Len(service'.briefs) :
          service'.briefs[i] # 0 => i = Len(service.briefs) + 1 /\ service'.briefs[i] = submission.id
    BY <2>3, <2>4
  <2>6. OnePluginRevision'
    BY <2>5 DEF OnePluginRevision
  <2> QED
    BY <2>3, <2>5, <2>6 DEF Briefs, SubmittedIsReceived
<1> QED
  BY <1>1, <1>2

\* Every step keeps the plugin's brief the one the state file names.
LEMMA BriefsStep ==
  ASSUME TypeOK, Places, Locking, Stages, Briefs, [Next]_vars
  PROVE  Briefs'
<1> USE DEF Has, Others
<1>0. /\ \A b \in Batch : [service EXCEPT !.stored = @ \cup {b}].briefs = service.briefs
      /\ \A s \in STRING : /\ [submission EXCEPT !.status = s].status = s
                           /\ [submission EXCEPT !.status = s].id = submission.id
      /\ \A t \in Thread : thread[t].pc = "saving" => thread[t].cur # 0
  BY DEF TypeOK, ServiceRow, SubmissionRow, Briefs
<1>1. ASSUME NEW b \in Batch, AppendBegin(b) PROVE Briefs'
  BY <1>1, AppendBeginMoves, <1>0, BriefsKept DEF AppendBegin, At, StoreFree
<1>2. ASSUME NEW b \in Batch, Finalize(b) PROVE Briefs'
  BY <1>2, FinalizeMoves, <1>0, BriefsKept DEF Finalize, At, files
<1>3. ASSUME NEW t \in Thread, Submit(t) PROVE Briefs'
  BY <1>3, SubmitMoves, <1>0, BriefsKept DEF Submit, At, Settled, Unprepared, files
<1>4. ASSUME AppendEnd PROVE Briefs'
  BY <1>4, AppendEndMoves, <1>0, BriefsKept DEF AppendEnd, At
<1>5. ASSUME Enqueue PROVE Briefs'
  BY <1>5, EnqueueMoves, <1>0, BriefsKept DEF Enqueue, At
<1>6. ASSUME EnqueueRead PROVE Briefs'
  BY <1>6, EnqueueReadMoves, <1>0, BriefsKept DEF EnqueueRead, At, files
<1>7. ASSUME EnqueueWrite PROVE Briefs'
  <2>1. submission' = submission /\ service'.briefs = service.briefs /\ "http" \in Thread
    BY <1>7, <1>0 DEF EnqueueWrite, Thread
  <2>2. Others("http") /\ thread'["http"].pc \notin {"acknowledged", "saving"}
    BY <1>7, <2>1, LeaveMoves DEF EnqueueWrite
  <2> QED
    BY <2>1, <2>2, <1>0, BriefsKept
<1>8. ASSUME NEW t \in Thread, RecoverRead(t) PROVE Briefs'
  BY <1>8, RecoverReadMoves, <1>0, BriefsKept DEF RecoverRead, At, files
<1>9. ASSUME NEW t \in Thread, NEW waiting \in SUBSET Batch, RecoverWrite(t, waiting) PROVE Briefs'
  <2>1. submission' = submission /\ service'.briefs = service.briefs
    BY <1>9, <1>0 DEF RecoverWrite
  <2>2. Others(t) /\ thread'[t].pc \notin {"acknowledged", "saving"}
    BY <1>9, RecoverWriteMoves
  <2> QED
    BY <2>1, <2>2, <1>0, BriefsKept
<1>10. ASSUME NEW t \in Thread, SendLands(t) PROVE Briefs'
  <2>1. submission' = submission /\ service'.briefs = service.briefs
    BY <1>10, <1>0 DEF SendLands, files
  <2>2. Others(t) /\ thread'[t].pc \notin {"acknowledged", "saving"}
    BY <1>10, SendMoves
  <2> QED
    BY <2>1, <2>2, <1>0, BriefsKept
<1>11. ASSUME NEW t \in Thread, SendFails(t) PROVE Briefs'
  <2>1. submission' = submission /\ service'.briefs = service.briefs
    BY <1>11, <1>0 DEF SendFails, Lost, files
  <2>2. Others(t) /\ thread'[t].pc \notin {"acknowledged", "saving"}
    BY <1>11, SendMoves
  <2> QED
    BY <2>1, <2>2, <1>0, BriefsKept
<1>12. ASSUME NEW t \in Thread, SendBreaks(t) PROVE Briefs'
  <2>1. submission' = submission /\ service'.briefs = service.briefs
    BY <1>12, <1>0 DEF SendBreaks, Lost, files
  <2>2. Others(t) /\ thread'[t].pc \notin {"acknowledged", "saving"}
    BY <1>12, LeaveMoves DEF SendBreaks, Abort, Return
  <2> QED
    BY <2>1, <2>2, <1>0, BriefsKept
<1>13. ASSUME NEW t \in Thread, MarkWrite(t) PROVE Briefs'
  BY <1>13, MarkWriteMoves, <1>0, BriefsKept DEF MarkWrite, At
<1>14. ASSUME FlushEnd PROVE Briefs'
  <2>1. submission' = submission /\ service'.briefs = service.briefs /\ "outbox" \in Thread
    BY <1>14, <1>0 DEF FlushEnd, files, Thread
  <2>2. Others("outbox") /\ thread'["outbox"].pc \notin {"acknowledged", "saving"}
    BY <1>14, <2>1, LeaveMoves DEF FlushEnd
  <2> QED
    BY <2>1, <2>2, <1>0, BriefsKept
<1>15. ASSUME NEW t \in Thread, ReadSession(t) PROVE Briefs'
  BY <1>15, ReadMoves, <1>0, BriefsKept DEF ReadSession, At, StoreFree, Abort, Return
<1>16. ASSUME NEW t \in Thread, FinalizeBegin(t) PROVE Briefs'
  BY <1>16, FinalizeMovesOn, <1>0, BriefsKept DEF FinalizeBegin, At, StoreFree, Finalized, Abort, Return
<1>17. ASSUME NEW t \in Thread, FinalizeEnd(t) PROVE Briefs'
  BY <1>17, FinalizeMovesOn, <1>0, BriefsKept DEF FinalizeEnd, At, Finalized, Abort, Return
<1>18. ASSUME NEW t \in Thread, Gather(t) PROVE Briefs'
  <2>1. submission' = submission /\ service' = service
    BY <1>18 DEF Gather, files
  <2>2. Has(t, "saving", minted + 1, Absent, Delivered, "absent") /\ minted + 1 # 0
    BY <1>18, GatherMoves DEF TypeOK
  <2> QED
    BY <2>1, <2>2, <1>0, BriefsKept
<1>19. ASSUME NEW t \in Thread, Save(t) PROVE Briefs'
  <2>1. /\ submission' = [status |-> "submitting", id |-> thread[t].cur, refs |-> thread[t].todo]
        /\ service' = service /\ thread[t].pc = "saving"
    BY <1>19 DEF Save, At
  <2>2. lock = t /\ submission.status = "absent" /\ submission'.id # 0
    BY <2>1, <1>0 DEF Locking, Stages, Preparing, Posting
  <2>3. Has(t, "posting", 0, Absent, {}, "absent")
    BY <1>19, PostMoves
  <2>4. \A u \in Thread : thread'[u].pc # "acknowledged"
    BY <2>2, <2>3 DEF Locking, Posting
  <2>5. \A i \in 1..Len(service.briefs) : service.briefs[i] = 0
    BY <2>2 DEF Briefs
  <2>6. submission'.status = "submitting" /\ OnePluginRevision'
    BY <2>1, <2>5 DEF OnePluginRevision
  <2>7. \A i \in 1..Len(service'.briefs) : service'.briefs[i] = 0
    BY <2>1, <2>5
  <2>8. \A u \in Thread : thread'[u].pc = "saving" => thread'[u].cur # 0
    BY <2>3, <1>0
  <2> QED
    BY <2>2, <2>4, <2>6, <2>7, <2>8 DEF Briefs, SubmittedIsReceived
<1>20. ASSUME NEW t \in Thread, PostLands(t) PROVE Briefs'
  <2>1. /\ submission' = submission /\ thread[t].pc = "posting"
        /\ Receive
    BY <1>20 DEF PostLands, At, files
  <2>2. submission.status # "absent"
    BY <2>1 DEF Stages, Posting
  <2>3. Others(t) /\ thread'[t].pc = "acknowledged"
    BY <1>20, PostMoves
  <2> QED
    BY <2>1, <2>2, <2>3, ReceiveOnce
<1>21. ASSUME NEW t \in Thread, PostFails(t) PROVE Briefs'
  <2>1. /\ submission' = submission /\ thread[t].pc = "posting"
        /\ service' = service \/ Receive
    BY <1>21 DEF PostFails, At, files
  <2>2. submission.status # "absent"
    BY <2>1 DEF Stages, Posting
  <2>3. Others(t) /\ thread'[t].pc = "failed"
    BY <1>21, PostMoves
  <2> QED
    BY <2>1, <2>2, <2>3, ReceiveOnce
<1>22. ASSUME NEW t \in Thread, PostBreaks(t) PROVE Briefs'
  <2>1. /\ submission' = submission /\ thread[t].pc = "posting"
        /\ service' = service \/ Receive
    BY <1>22 DEF PostBreaks, At, files
  <2>2. submission.status # "absent"
    BY <2>1 DEF Stages, Posting
  <2>3. Others(t) /\ thread'[t].pc = "idle"
    BY <1>22, LeaveMoves DEF PostBreaks, Abort, Return
  <2> QED
    BY <2>1, <2>2, <2>3, ReceiveOnce
<1>23. ASSUME NEW t \in Thread, SaveReply(t) PROVE Briefs'
  <2>1. /\ submission' = [submission EXCEPT !.status = IF thread[t].pc = "failed" THEN "pending_upload" ELSE "submitted"]
        /\ service' = service /\ thread[t].pc \in {"acknowledged", "failed"}
    BY <1>23 DEF SaveReply, At, Recorded
  <2>2. Others(t) /\ thread'[t].pc = "idle"
    BY <1>23, LeaveMoves DEF SaveReply, Return
  <2>3. submission.status # "absent"
    BY <2>1 DEF Stages, Posting
  <2>4. /\ submission'.id = submission.id /\ submission'.status # "absent"
        /\ submission'.status = "submitted" => thread[t].pc = "acknowledged"
    BY <2>1, <1>0
  <2>5. Ids' = Ids /\ OnePluginRevision'
    BY <2>1 DEF Ids, Briefs, OnePluginRevision
  <2>6. SubmittedIsReceived'
    BY <2>4, <2>5 DEF Briefs, SubmittedIsReceived
  <2> QED
    BY <2>1, <2>2, <2>3, <2>4, <2>5, <2>6, <1>0 DEF Briefs
<1>24. ASSUME Abandon PROVE Briefs'
  BY <1>24, <1>0, BriefsKept DEF Abandon, StoreFree
<1>25. ASSUME Recover PROVE Briefs'
  BY <1>25, <1>0, BriefsKept DEF Recover, At, StoreFree
<1>26. ASSUME CutoffPasses PROVE Briefs'
  BY <1>26, <1>0, BriefsKept DEF CutoffPasses, files
<1>27. ASSUME ServiceCloses PROVE Briefs'
  <2>1. /\ submission' = submission /\ thread' = thread
        /\ service' = [service EXCEPT !.open = FALSE, !.briefs = Append(@, 0)]
    BY <1>27 DEF ServiceCloses, files
  <2>2. /\ Len(service'.briefs) = Len(service.briefs) + 1 /\ Len(service.briefs) \in Nat
        /\ service'.briefs[Len(service.briefs) + 1] = 0
        /\ \A i \in 1..Len(service.briefs) : service'.briefs[i] = service.briefs[i]
        /\ Ids' = Ids \cup {0}
    BY <2>1, BriefAppended
  <2>3. \A i \in 1..Len(service'.briefs) :
          service'.briefs[i] # 0 => i \in 1..Len(service.briefs) /\ service'.briefs[i] = service.briefs[i]
    BY <2>2
  <2>4. OnePluginRevision'
    BY <2>3 DEF Briefs, OnePluginRevision
  <2> QED
    BY <2>1, <2>2, <2>3, <2>4 DEF Briefs, SubmittedIsReceived
<1>28. ASSUME Crash PROVE Briefs'
  BY <1>28, RestartMoves, <1>0, BriefsKept DEF Crash, files
<1>29. ASSUME Start PROVE Briefs'
  BY <1>29, RestartMoves, <1>0, BriefsKept DEF Start
<1>30. ASSUME Started PROVE Briefs'
  BY <1>30, <1>0, BriefsKept DEF Started, At, Settled, files
<1>31. CASE UNCHANGED vars
  BY <1>31 DEF vars, files, Briefs, OnePluginRevision, SubmittedIsReceived, Ids
<1> QED
  BY <1>1, <1>2, <1>3, <1>4, <1>5, <1>6, <1>7, <1>8, <1>9, <1>10, <1>11, <1>12, <1>13, <1>14, <1>15, <1>16, <1>17, <1>18, <1>19, <1>20, <1>21, <1>22, <1>23, <1>24, <1>25, <1>26, <1>27, <1>28, <1>29, <1>30, <1>31
     DEF Next, ThreadStep, FlushStep, SubmitStep, EnqueueStep

-----------------------------------------------------------------------------
(* Theorems *)

\* The invariant holds at the start.
LEMMA InitIInv == Init => IInv
<1> SUFFICES ASSUME Init PROVE IInv
  OBVIOUS
<1>1. /\ \A t \in Thread : thread[t] = IdleThread
      /\ IdleThread \in ThreadState /\ Absent \in [Batch -> RowState]
      /\ \A b \in Batch : Absent[b] = "absent"
  BY IdleTyped DEF Init, Absent
<1>2. \A t \in Thread : thread[t].pc = "idle" /\ thread[t].copy = Absent
  BY <1>1 DEF IdleThread
<1>3. TypeOK
  <2>1. thread \in [Thread -> ThreadState]
    BY <1>1 DEF Init
  <2>2. service \in ServiceRow /\ submission \in SubmissionRow /\ local \in LocalRow
    BY DEF Init, ServiceRow, SubmissionRow, NoSubmission, LocalRow
  <2>3. crashes \in 0..MaxCrash /\ minted \in Nat
    BY DEF Init
  <2>4. entries \subseteq Batch /\ row \in [Batch -> RowState]
    BY <1>1 DEF Init
  <2>5. /\ phase \in {"up", "down", "starting", "broken"} /\ due \in BOOLEAN
        /\ lock \in Thread \cup {"free"}
    BY DEF Init
  <2> QED
    BY <2>1, <2>2, <2>3, <2>4, <2>5 DEF TypeOK
<1>4. Places
  BY <1>2 DEF Places, Thread, Enqueueing
<1>5. Locking
  BY <1>2 DEF Locking, Init, Preparing, Posting, Flushing, Thread
<1>6. Evidence
  BY <1>1, <1>2 DEF Evidence, Init, NoSubmission, DeliveredIsStored, ReferencesAreStored
<1>7. Stages
  BY <1>2 DEF Stages, Init, NoSubmission, Posting, Flushing, Thread
<1>8. Briefs
  BY <1>2 DEF Briefs, Init, NoSubmission, OnePluginRevision, SubmittedIsReceived, Ids
<1> QED
  BY <1>3, <1>4, <1>5, <1>6, <1>7, <1>8 DEF IInv

\* The places of the threads, who holds the lock, what is known to be stored
\* and how far the submission is agree in every reachable state.
THEOREM Invariant == Spec => []IInv
<1>1. IInv /\ [Next]_vars => IInv'
  BY TypeStep, PlacesStep, LockingStep, EvidenceStep, StagesStep, BriefsStep DEF IInv
<1> QED
  BY InitIInv, <1>1, PTL DEF Spec

\* Every file, thread and service row keeps its type.
THEOREM TypeCorrect == Spec => []TypeOK
<1>1. IInv => TypeOK
  BY DEF IInv
<1> QED
  BY Invariant, <1>1, PTL

\* A chunk is marked delivered only when the service holds it, for any number
\* of batches and however the writers of state.json overlap.
THEOREM DeliveredStaysStored == Spec => []DeliveredIsStored
<1>1. IInv => DeliveredIsStored
  BY DEF IInv, Evidence
<1> QED
  BY Invariant, <1>1, PTL

\* The service never refuses the durable payload for its references.
THEOREM ReferencesStayStored == Spec => []ReferencesAreStored
<1>1. IInv => ReferencesAreStored
  BY DEF IInv, Evidence
<1> QED
  BY Invariant, <1>1, PTL

\* However many triggers, retries, lost replies and crashes there are, the
\* plugin adds at most one revision to the logical brief.
THEOREM OneRevisionOnly == Spec => []OnePluginRevision
<1>1. IInv => OnePluginRevision
  BY DEF IInv, Briefs
<1> QED
  BY Invariant, <1>1, PTL

\* A submission shown as "submitted" has been received.
THEOREM SubmittedWasReceived == Spec => []SubmittedIsReceived
<1>1. IInv => SubmittedIsReceived
  BY DEF IInv, Briefs
<1> QED
  BY Invariant, <1>1, PTL

-----------------------------------------------------------------------------
(* A durable payload never changes *)

Fixed ==
  submission.status # "absent" =>
    local' = local /\ submission'.id = submission.id /\ submission'.refs = submission.refs

\* No step changes what a durable submission was prepared from.
LEMMA SubmissionStep ==
  ASSUME TypeOK, Locking, Stages, [Next]_vars
  PROVE  Fixed
<1> USE DEF Fixed
<1>0. \A s \in STRING : /\ [submission EXCEPT !.status = s].id = submission.id
                        /\ [submission EXCEPT !.status = s].refs = submission.refs
  BY DEF TypeOK, SubmissionRow
<1>s. /\ submission.status # "absent" => local.status = "finalized"
      /\ \A t \in Thread : /\ thread[t].pc = "appending" => local.status = "collecting"
                           /\ thread[t].pc = "finalizing" => local.status = "finalizing"
                           /\ thread[t].pc = "saving" => submission.status = "absent"
  BY DEF Locking, Stages, Preparing, Posting
<1>1. ASSUME NEW b \in Batch, AppendBegin(b) PROVE Fixed
  BY <1>1, <1>0, <1>s DEF AppendBegin, At
<1>2. ASSUME NEW b \in Batch, Finalize(b) PROVE Fixed
  BY <1>2, <1>0, <1>s DEF Finalize, At, files
<1>3. ASSUME NEW t \in Thread, Submit(t) PROVE Fixed
  BY <1>3, <1>0, <1>s DEF Submit, At, files
<1>4. ASSUME AppendEnd PROVE Fixed
  <2>1. thread["http"].pc = "appending" /\ "http" \in Thread
    BY <1>4 DEF AppendEnd, At, Thread
  <2> QED
    BY <1>4, <1>s, <2>1
<1>5. ASSUME Enqueue PROVE Fixed
  BY <1>5, <1>0, <1>s DEF Enqueue, At
<1>6. ASSUME EnqueueRead PROVE Fixed
  BY <1>6, <1>0, <1>s DEF EnqueueRead, At, files
<1>7. ASSUME EnqueueWrite PROVE Fixed
  BY <1>7, <1>0, <1>s DEF EnqueueWrite, At
<1>8. ASSUME NEW t \in Thread, RecoverRead(t) PROVE Fixed
  BY <1>8, <1>0, <1>s DEF RecoverRead, At, files
<1>9. ASSUME NEW t \in Thread, NEW waiting \in SUBSET Batch, RecoverWrite(t, waiting) PROVE Fixed
  BY <1>9, <1>0, <1>s DEF RecoverWrite, At
<1>10. ASSUME NEW t \in Thread, SendLands(t) PROVE Fixed
  BY <1>10, <1>0, <1>s DEF SendLands, At, files
<1>11. ASSUME NEW t \in Thread, SendFails(t) PROVE Fixed
  BY <1>11, <1>0, <1>s DEF SendFails, At, files
<1>12. ASSUME NEW t \in Thread, SendBreaks(t) PROVE Fixed
  BY <1>12, <1>0, <1>s DEF SendBreaks, At, files
<1>13. ASSUME NEW t \in Thread, MarkWrite(t) PROVE Fixed
  BY <1>13, <1>0, <1>s DEF MarkWrite, At
<1>14. ASSUME FlushEnd PROVE Fixed
  BY <1>14, <1>0, <1>s DEF FlushEnd, At, files
<1>15. ASSUME NEW t \in Thread, ReadSession(t) PROVE Fixed
  BY <1>15, <1>0, <1>s DEF ReadSession, At
<1>16. ASSUME NEW t \in Thread, FinalizeBegin(t) PROVE Fixed
  BY <1>16, <1>0, <1>s DEF FinalizeBegin, At
<1>17. ASSUME NEW t \in Thread, FinalizeEnd(t) PROVE Fixed
  <2>1. thread[t].pc = "finalizing"
    BY <1>17 DEF FinalizeEnd, At, Thread
  <2> QED
    BY <1>17, <1>s, <2>1
<1>18. ASSUME NEW t \in Thread, Gather(t) PROVE Fixed
  BY <1>18, <1>0, <1>s DEF Gather, At, files
<1>19. ASSUME NEW t \in Thread, Save(t) PROVE Fixed
  <2>1. thread[t].pc = "saving"
    BY <1>19 DEF Save, At, Thread
  <2> QED
    BY <1>19, <1>s, <2>1
<1>20. ASSUME NEW t \in Thread, PostLands(t) PROVE Fixed
  BY <1>20, <1>0, <1>s DEF PostLands, At, files
<1>21. ASSUME NEW t \in Thread, PostFails(t) PROVE Fixed
  BY <1>21, <1>0, <1>s DEF PostFails, At, files
<1>22. ASSUME NEW t \in Thread, PostBreaks(t) PROVE Fixed
  BY <1>22, <1>0, <1>s DEF PostBreaks, At, files
<1>23. ASSUME NEW t \in Thread, SaveReply(t) PROVE Fixed
  BY <1>23, <1>0, <1>s DEF SaveReply, At, Recorded
<1>24. ASSUME Abandon PROVE Fixed
  BY <1>24, <1>0, <1>s DEF Abandon
<1>25. ASSUME Recover PROVE Fixed
  BY <1>25, <1>0, <1>s DEF Recover, At
<1>26. ASSUME CutoffPasses PROVE Fixed
  BY <1>26, <1>0, <1>s DEF CutoffPasses, files
<1>27. ASSUME ServiceCloses PROVE Fixed
  BY <1>27, <1>0, <1>s DEF ServiceCloses, files
<1>28. ASSUME Crash PROVE Fixed
  BY <1>28, <1>0, <1>s DEF Crash, files
<1>29. ASSUME Start PROVE Fixed
  BY <1>29, <1>0, <1>s DEF Start
<1>30. ASSUME Started PROVE Fixed
  BY <1>30, <1>0, <1>s DEF Started, At, files
<1>31. CASE UNCHANGED vars
  BY <1>31 DEF vars, files
<1> QED
  BY <1>1, <1>2, <1>3, <1>4, <1>5, <1>6, <1>7, <1>8, <1>9, <1>10, <1>11, <1>12, <1>13, <1>14, <1>15, <1>16, <1>17, <1>18, <1>19, <1>20, <1>21, <1>22, <1>23, <1>24, <1>25, <1>26, <1>27, <1>28, <1>29, <1>30, <1>31
     DEF Next, ThreadStep, FlushStep, SubmitStep, EnqueueStep

\* Once the payload is durable, no step of any thread, no crash and no
\* recovery changes the session, the submission's id or its references.
THEOREM PayloadStaysFixed == Spec => SubmissionIsFixed
<1>1. IInv /\ [Next]_vars =>
        [submission.status # "absent" =>
           /\ local.status = "finalized" /\ local' = local
           /\ submission'.id = submission.id /\ submission'.refs = submission.refs]_vars
  BY SubmissionStep DEF IInv, Stages, Fixed
<1> QED
  BY Invariant, <1>1, PTL DEF Spec, SubmissionIsFixed

=============================================================================
