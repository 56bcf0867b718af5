----------------------------- MODULE SegmentUpload -----------------------------
(***************************************************************************)
(* One monitored session between a JupyterLab page and the session store   *)
(* of the Jupyter server: the page numbers the segments it records, keeps  *)
(* them in IndexedDB, uploads them in batches and finalizes the session;   *)
(* the store journals a batch, appends its events to the stream, writes a  *)
(* receipt and then session.json.                                          *)
(*                                                                         *)
(* The page may be reloaded at any time and keeps only IndexedDB and       *)
(* localStorage; a request may be lost, its reply may be lost, and it may  *)
(* arrive after the page gave it up; the server may die, or its disk may   *)
(* be full, between any two bytes it writes.  A handler of the server runs *)
(* to its end before the next one starts.  A segment is known by the       *)
(* number of segments recorded before it, plus one.  Timers are left open: *)
(* a flush may start, and the janitor may find the session stale, at any   *)
(* time, since the window's blur flushes too.                              *)
(***************************************************************************)
EXTENDS Integers, Sequences, FiniteSets, Functions, SequencesExt

CONSTANTS
  Modes,        \* "local": a teacher's page; "student": one in a classroom
  MaxSegment,   \* segments recorded
  MaxBatchSize, \* segments of one batch
  QueueLimit,   \* segments the page holds before it stops to record
  Attempts,     \* sends of one batch before it is given up
  MaxReload,
  MaxTrouble    \* connections and writes that fail, appends cut, abandonments

ASSUME BoundsAssumption ==
  /\ Modes \subseteq {"local", "student"}
  /\ {MaxSegment, MaxReload, MaxTrouble} \subseteq Nat
  /\ {MaxBatchSize, QueueLimit, Attempts} \subseteq Nat \ {0}

Number == 1..MaxSegment
Segment == 1..MaxSegment

VARIABLES
  mode,     \* how this page was opened
  page,     \* the memory of the page
  rows,     \* IndexedDB: the segment under each session_seq, or 0
  stored,   \* localStorage names the session
  net,      \* requests under way
  store,    \* the session's directory
  outbox,   \* ranges of the stream queued for the classroom
  recorded, \* segments recorded so far
  minted,   \* segment ids drawn so far
  kept,     \* <<number, segment>> written to IndexedDB so far
  confirmed,\* <<number, segment>> the page let go after a receipt
  ahead,    \* a batch was cut that held a segment not yet in IndexedDB
  troubles  \* troubles so far

vars == <<mode, page, rows, stored, net, store, outbox, recorded, minted, kept, confirmed, ahead, troubles>>
history == <<mode, recorded, minted, kept, confirmed, ahead>>

NoBatch == [id |-> 0, first |-> 0, what |-> <<>>]
LastOf(b) == b.first + Len(b.what) - 1

\* A page that holds no session.  life: how often it was reloaded; last and
\* server: lastSequence and lastServerSequence; writes: the durable appends under
\* way, in their order; broken: one of them failed; awaited: how many of them the
\* flush still waits for.
Closed(life) ==
  [state |-> "closed", life |-> life, queue |-> <<>>, last |-> 0, server |-> 0,
   pending |-> NoBatch, accepting |-> FALSE, overflow |-> FALSE,
   writes |-> <<>>, broken |-> FALSE, flush |-> "none", awaited |-> 0, tries |-> 0,
   stop |-> "none", was |-> FALSE]

\* last: last_contiguous_sequence; tail: what follows the last line of the stream.
NoSession ==
  [status |-> "absent", last |-> 0, raw |-> <<>>, tail |-> "none",
   journals |-> {}, receipts |-> {}]

\* SessionStore.start.
NewSession == [NoSession EXCEPT !.status = "collecting"]

Init ==
  /\ mode \in Modes
  /\ page = Closed(0) /\ rows = [n \in Number |-> 0] /\ stored = FALSE
  /\ net = {} /\ store = NoSession /\ outbox = {}
  /\ recorded = 0 /\ minted = 0 /\ kept = {} /\ confirmed = {} /\ ahead = FALSE
  /\ troubles = 0

Trouble == troubles < MaxTrouble /\ troubles' = troubles + 1
Active == page.state = "active"
FirstQueued == page.last - Len(page.queue) + 1

\* Confirmed rows are removed in the background; a removal that fails, or that a
\* reload overtakes, is not tried again and not missed.
Removed(rest) == (rows' = rest /\ UNCHANGED troubles) \/ (rows' = rows /\ rest # rows /\ Trouble)
RemoveThrough(n) == [k \in Number |-> IF k <= n THEN 0 ELSE rows[k]]

-----------------------------------------------------------------------------
(* The page takes up a session: startBehaviorCapture, restoreStoredSession *)

\* A new session: the server creates it, localStorage names it.  When it cannot
\* be named, the page takes it back with an abandonment that may be lost.
Start ==
  /\ mode = "local" /\ page.state = "closed" /\ ~stored /\ store.status = "absent"
  /\ \/ /\ store' = NewSession
        /\ stored' = TRUE
        /\ page' = [page EXCEPT !.state = "active", !.accepting = TRUE]
        /\ UNCHANGED troubles
     \/ /\ Trouble
        /\ store' \in {NewSession, [NewSession EXCEPT !.status = "abandoned"]}
        /\ UNCHANGED <<stored, page>>
  /\ UNCHANGED <<rows, net, outbox, history>>

\* getStoredActiveSession: the page learns what the server has; a session that is
\* over is forgotten, one that is finalizing only announced.
ReadSession ==
  /\ mode = "local" /\ page.state = "closed" /\ stored
  /\ CASE store.status = "collecting" ->
            page' = [page EXCEPT !.state = "resuming", !.last = store.last, !.server = store.last]
            /\ UNCHANGED stored
       [] store.status \in {"finalized", "abandoned"} ->
            page' = [page EXCEPT !.state = "over"] /\ stored' = FALSE
       [] OTHER -> page' = [page EXCEPT !.state = "over"] /\ UNCHANGED stored
  /\ UNCHANGED <<rows, net, store, outbox, history, troubles>>

\* bootstrap_platform_session: the classroom's one session is created or found; one
\* that is over stays so.
Bootstrap ==
  /\ mode = "student" /\ page.state = "closed"
  /\ IF store.status \in {"absent", "collecting"}
       THEN /\ store' = IF store.status = "absent" THEN NewSession ELSE store
            /\ page' = [page EXCEPT !.state = "resuming", !.last = store.last, !.server = store.last]
            /\ stored' = TRUE
       ELSE page' = [page EXCEPT !.state = "over"] /\ UNCHANGED <<store, stored>>
  /\ UNCHANGED <<rows, net, outbox, history, troubles>>

\* The rows after what the server had, and whether they continue it.
Remaining == {n \in Number : n > page.server /\ rows[n] # 0}
Continuous == Remaining = page.server + 1 .. page.server + Cardinality(Remaining)

\* resume queues the rows the server has not confirmed and drops the others; rows
\* it cannot read, or that leave a gap, end the page's session.
Resume ==
  /\ page.state = "resuming"
  /\ \/ /\ Continuous
        /\ LET n == Cardinality(Remaining) IN
           page' = [page EXCEPT !.state = "active", !.accepting = TRUE,
                                !.last = page.server + n,
                                !.queue = [i \in 1..n |-> rows[page.server + i]]]
        /\ Removed(RemoveThrough(page.server))
        /\ UNCHANGED stored
     \/ /\ IF Continuous THEN Trouble ELSE UNCHANGED troubles
        /\ page' = [Closed(page.life) EXCEPT !.state = "failed"]
        /\ stored' = (stored /\ mode = "local")
        /\ UNCHANGED rows
  /\ UNCHANGED <<net, store, outbox, history>>

Reload ==
  /\ page.state # "closed"
  /\ page.life < MaxReload
  /\ page' = Closed(page.life + 1)
  /\ UNCHANGED <<rows, stored, net, store, outbox, history, troubles>>

-----------------------------------------------------------------------------
(* Recording: enqueue and the chain of durable appends *)

\* A full queue stops the recording for good.
Overflow ==
  /\ Active /\ page.accepting
  /\ Len(page.queue) >= QueueLimit
  /\ page' = [page EXCEPT !.accepting = FALSE, !.overflow = TRUE]
  /\ UNCHANGED <<rows, stored, net, store, outbox, history, troubles>>

\* The segment is numbered, queued and given to the chain of durable appends; a
\* chain that has failed rejects it and stops the recording.
Enqueue ==
  /\ Active /\ page.accepting
  /\ Len(page.queue) < QueueLimit
  /\ recorded < MaxSegment
  /\ recorded' = recorded + 1
  /\ page' = [page EXCEPT !.queue = Append(@, recorded + 1), !.last = @ + 1,
                          !.accepting = ~page.broken,
                          !.writes = IF page.broken THEN @
                                     ELSE Append(@, <<page.last + 1, recorded + 1>>)]
  /\ UNCHANGED <<mode, rows, stored, net, store, outbox, minted, kept, confirmed, ahead, troubles>>

Settled == IF page.awaited > 0 THEN page.awaited - 1 ELSE 0

\* IndexedDbDurableSegmentStore.append: a new row, or the same again.
AppendRow ==
  /\ page.writes # <<>>
  /\ LET n == Head(page.writes)[1]  c == Head(page.writes)[2] IN
     /\ rows[n] \in {0, c}
     /\ rows' = [rows EXCEPT ![n] = c]
     /\ kept' = kept \cup {<<n, c>>}
  /\ page' = [page EXCEPT !.writes = Tail(@), !.awaited = Settled]
  /\ UNCHANGED <<mode, stored, net, store, outbox, recorded, minted, confirmed, ahead, troubles>>

\* A flush that waits for the chain, and a stop that waits for the flush, end when
\* the chain fails; the failure of an append is not undone by the stop.
Reject(p) ==
  IF p.flush = "waiting" /\ p.awaited > 0
    THEN [p EXCEPT !.flush = "none", !.awaited = 0, !.stop = "none", !.was = FALSE]
    ELSE p

\* An append fails, by itself or because the row has another content: the chain
\* fails with all that follows, and recording stops.
AppendRowFails ==
  /\ page.writes # <<>>
  /\ IF rows[Head(page.writes)[1]] \in {0, Head(page.writes)[2]}
       THEN Trouble ELSE UNCHANGED troubles
  /\ page' = Reject([page EXCEPT !.writes = <<>>, !.broken = TRUE, !.accepting = FALSE])
  /\ UNCHANGED <<rows, stored, net, store, outbox, history>>

-----------------------------------------------------------------------------
(* Uploading: flush, uploadNextBatch, sendWithBoundedRetry *)

\* Every segment of the batch has its row.
Written(what) == \A i \in 1..Len(what) : <<FirstQueued + i - 1, what[i]>> \in kept

\* A flush begins, on its own or inside a stop, and waits for the appends given to
\* the chain so far.
Flush ==
  /\ Active /\ page.flush = "none"
  /\ page.queue # <<>> \/ page.pending # NoBatch
  /\ page' = [page EXCEPT !.flush = "waiting", !.awaited = Len(page.writes)]
  /\ UNCHANGED <<rows, stored, net, store, outbox, history, troubles>>

\* The chain had failed before the flush began.
FlushRejected ==
  /\ page.flush = "waiting" /\ page.broken
  /\ page' = [page EXCEPT !.flush = "none", !.awaited = 0, !.stop = "none", !.was = FALSE]
  /\ UNCHANGED <<rows, stored, net, store, outbox, history, troubles>>

\* createPendingBatch cuts the batch from the queue as it is by now; a batch that
\* was cut before is kept as it was.
CreateBatch ==
  /\ page.flush = "waiting" /\ page.awaited = 0 /\ ~page.broken
  /\ LET what == SubSeq(page.queue, 1, IF Len(page.queue) < MaxBatchSize THEN Len(page.queue) ELSE MaxBatchSize)
     IN  IF page.pending = NoBatch
           THEN /\ minted' = minted + 1
                /\ ahead' = (ahead \/ ~Written(what))
                /\ page' = [page EXCEPT !.flush = "ready",
                              !.pending = [id |-> minted + 1, first |-> FirstQueued, what |-> what]]
           ELSE /\ page' = [page EXCEPT !.flush = "ready"]
                /\ UNCHANGED <<minted, ahead>>
  /\ UNCHANGED <<mode, rows, stored, net, store, outbox, recorded, kept, confirmed, troubles>>

AppendRequest ==
  [kind |-> "append", life |-> page.life, try |-> page.tries, batch |-> page.pending, last |-> 0]
FinalizeRequest ==
  [kind |-> "finalize", life |-> page.life, try |-> 0, batch |-> NoBatch, last |-> page.last]

\* The rows of a batch go when it is sent.
Send_Slip ==
  /\ page.flush = "ready"
  /\ net' = net \cup {AppendRequest}
  /\ page' = [page EXCEPT !.flush = "sent"]
  /\ rows' = RemoveThrough(LastOf(page.pending))
  /\ UNCHANGED <<stored, store, outbox, history, troubles>>

Send ==
  /\ page.flush = "ready"
  /\ net' = net \cup {AppendRequest}
  /\ page' = [page EXCEPT !.flush = "sent"]
  /\ UNCHANGED <<rows, stored, store, outbox, history, troubles>>

\* An attempt failed: once more, or the flush and the stop around it are over.
\* The stop gives back what it took, unless the queue had overflowed.
StopFails(p) ==
  IF p.stop = "none" THEN p
  ELSE [p EXCEPT !.stop = "none", !.was = FALSE, !.accepting = IF p.overflow THEN @ ELSE p.was]
AttemptFails(p, again) ==
  IF again /\ p.tries + 1 < Attempts
    THEN [p EXCEPT !.flush = "ready", !.tries = @ + 1]
    ELSE StopFails([p EXCEPT !.flush = "none", !.tries = 0])

\* The answer to m still matters to the page.
Awaits(m) ==
  /\ m.life = page.life
  /\ \/ m.kind = "append" /\ page.flush = "sent" /\ m.batch = page.pending /\ m.try = page.tries
     \/ m.kind = "finalize" /\ page.stop = "finalizing"

Failed(m, again) ==
  IF ~Awaits(m) THEN page
  ELSE IF m.kind = "append" THEN AttemptFails(page, again) ELSE StopFails(page)

\* The connection fails: the request may be gone, or still on its way.
Disconnect(m) ==
  /\ m \in net
  /\ Trouble
  /\ page' = Failed(m, TRUE)
  /\ net' \in {net, net \ {m}}
  /\ UNCHANGED <<rows, stored, store, outbox, history>>

-----------------------------------------------------------------------------
(* The session store: append_batch and finalize *)

\* _read_events_locked drops a torn last line; a whole line without its newline,
\* "bare", it refuses for good.
Readable(s) == s.tail # "bare"
Truncated(s) == IF Readable(s) THEN [s EXCEPT !.tail = "none"] ELSE s

\* A batch is taken whatever part of it the stream has.
Fits_Slip(raw, b) == Len(raw) >= b.first - 1

\* The stream says what the batch says, all of it or as far as it goes.
Holds(raw, b) == LastOf(b) <= Len(raw) /\ SubSeq(raw, b.first, LastOf(b)) = b.what
Fits(raw, b) ==
  /\ Len(raw) \in b.first - 1 .. LastOf(b)
  /\ \A n \in b.first..Len(raw) : raw[n] = b.what[n - b.first + 1]

\* A batch with a receipt is answered again, one with a journal is taken up where
\* it stopped, a new one must continue what session.json counts.
HasReceipt(s, b) == b.id \in s.receipts
MayAppend(s, b) == b \in s.journals \/ b.first = s.last + 1
Accepts(s, b) ==
  /\ s.status = "collecting" /\ Readable(s)
  /\ IF HasReceipt(s, b) THEN Holds(s.raw, b) ELSE MayAppend(s, b) /\ Fits(s.raw, b)

\* All events of the batch are appended.
Missing_Slip(s, b) == b.what

\* Only the events the stream does not have yet are appended.
Missing(s, b) == SubSeq(b.what, Len(s.raw) - b.first + 2, Len(b.what))
Journalled(s, b) == [s EXCEPT !.journals = @ \cup {b}]
WithEvents(s, b, k, tail) ==
  [Journalled(s, b) EXCEPT !.raw = @ \o SubSeq(Missing(s, b), 1, k), !.tail = tail]
WithReceipt(s, b) ==
  [WithEvents(s, b, Len(Missing(s, b)), "none") EXCEPT !.receipts = @ \cup {b.id}]

Appended(s, b) ==
  IF HasReceipt(s, b) THEN [Truncated(s) EXCEPT !.last = IF @ < LastOf(b) THEN LastOf(b) ELSE @]
  ELSE [WithReceipt(s, b) EXCEPT !.last = LastOf(b)]

\* A refused batch may leave its journal, and the torn line is gone.
Refused(s, b) ==
  IF s.status # "collecting" THEN s
  ELSE IF HasReceipt(s, b) THEN Truncated(s)
  ELSE IF MayAppend(s, b) THEN Truncated(Journalled(s, b))
  ELSE s

\* A state conflict and a gap are final, an internal error is tried again.
Retryable(s, b) ==
  s.status = "collecting" /\ (HasReceipt(s, b) \/ MayAppend(s, b) \/ b.first <= s.last)

\* What an append leaves when it stops before its end: the journal, some of the
\* events and a piece of the next, all of them, the receipt.
AppendCuts(s, b) ==
  IF HasReceipt(s, b) THEN {Truncated(s)}
  ELSE LET n == Len(Missing(s, b)) IN
       {Journalled(s, b), WithReceipt(s, b)}
         \cup {WithEvents(s, b, k, "none") : k \in 0..n}
         \cup {WithEvents(s, b, k, t) : k \in 0..n - 1, t \in {"torn", "bare"}}

CanFinalize(s, last) ==
  \/ s.status = "finalized" /\ s.last = last
  \/ s.status = "collecting" /\ Readable(s) /\ Len(s.raw) = last /\ s.last = last

Finalized(s) == IF s.status = "finalized" THEN s ELSE [Truncated(s) EXCEPT !.status = "finalized"]

-----------------------------------------------------------------------------
(* Requests answered *)

Pairs(b) == {<<b.first + i - 1, b.what[i]>> : i \in 1..Len(b.what)}

\* The reply is validated, the batch leaves the queue, and the rows it covers
\* leave IndexedDB, unless that fails.
ReceiveAppend(m) ==
  IF Awaits(m)
    THEN /\ page' = [page EXCEPT !.queue = SubSeq(@, Len(m.batch.what) + 1, Len(@)),
                                 !.server = LastOf(m.batch), !.pending = NoBatch, !.flush = "none", !.tries = 0]
         /\ Removed(RemoveThrough(LastOf(m.batch)))
         /\ confirmed' = confirmed \cup Pairs(m.batch)
    ELSE UNCHANGED <<page, rows, confirmed, troubles>>

\* _enqueue_classroom_evidence: one chunk per accepted batch.
QueuedEvidence(b) ==
  IF mode = "student" THEN outbox \cup {<<b.first, LastOf(b)>>} ELSE outbox

\* SessionSegmentsRouteHandler: the batch is appended, then queued for the
\* classroom; a queue that cannot be written makes the page send again.
ServeAppend(m) ==
  /\ m \in net /\ m.kind = "append" /\ Accepts(store, m.batch)
  /\ store' = Appended(store, m.batch)
  /\ net' = net \ {m}
  /\ \/ outbox' = QueuedEvidence(m.batch)
        /\ \/ ReceiveAppend(m)
           \/ Trouble /\ page' = Failed(m, TRUE) /\ UNCHANGED <<rows, confirmed>>
     \/ /\ mode = "student" /\ Trouble /\ page' = Failed(m, TRUE)
        /\ UNCHANGED <<outbox, rows, confirmed>>
  /\ UNCHANGED <<mode, stored, recorded, minted, kept, ahead>>

RefuseAppend(m) ==
  /\ m \in net /\ m.kind = "append" /\ ~Accepts(store, m.batch)
  /\ store' = Refused(store, m.batch)
  /\ page' = Failed(m, Retryable(store, m.batch))
  /\ net' = net \ {m}
  /\ UNCHANGED <<rows, stored, outbox, history, troubles>>

CutAppend(m) ==
  /\ m \in net /\ m.kind = "append" /\ Accepts(store, m.batch)
  /\ Trouble
  /\ store' \in AppendCuts(store, m.batch)
  /\ page' = Failed(m, TRUE)
  /\ net' = net \ {m}
  /\ UNCHANGED <<rows, stored, outbox, history>>

\* finalize: recording pauses and the queue is drained first.
Stop ==
  /\ Active /\ page.stop = "none"
  /\ page' = [page EXCEPT !.stop = "draining", !.was = page.accepting, !.accepting = FALSE]
  /\ UNCHANGED <<rows, stored, net, store, outbox, history, troubles>>

SendFinalize ==
  /\ page.stop = "draining" /\ page.flush = "none"
  /\ page.queue = <<>> /\ page.pending = NoBatch
  /\ page' = [page EXCEPT !.stop = "finalizing"]
  /\ net' = net \cup {FinalizeRequest}
  /\ UNCHANGED <<rows, stored, store, outbox, history, troubles>>

ServeFinalize(m) ==
  /\ m \in net /\ m.kind = "finalize" /\ CanFinalize(store, m.last)
  /\ store' = Finalized(store)
  /\ net' = net \ {m}
  /\ IF Awaits(m)
       THEN \/ /\ page' = [page EXCEPT !.state = "finalized", !.stop = "none", !.server = m.last]
               /\ Removed([n \in Number |-> 0])
               /\ stored' = FALSE
            \/ Trouble /\ page' = Failed(m, TRUE) /\ UNCHANGED <<rows, stored>>
       ELSE UNCHANGED <<page, rows, stored, troubles>>
  /\ UNCHANGED <<outbox, history>>

\* A refused finalization puts the session back to collecting.
RefuseFinalize(m) ==
  /\ m \in net /\ m.kind = "finalize" /\ ~CanFinalize(store, m.last)
  /\ store' = IF store.status = "collecting" THEN Truncated(store) ELSE store
  /\ page' = Failed(m, FALSE)
  /\ net' = net \ {m}
  /\ UNCHANGED <<rows, stored, outbox, history, troubles>>

\* One that is cut leaves it finalizing.
CutFinalize(m) ==
  /\ m \in net /\ m.kind = "finalize" /\ store.status = "collecting"
  /\ Trouble
  /\ store' \in {[s EXCEPT !.status = "finalizing"] : s \in {store, Truncated(store)}}
  /\ page' = Failed(m, TRUE)
  /\ net' = net \ {m}
  /\ UNCHANGED <<rows, stored, outbox, history>>

-----------------------------------------------------------------------------
(* Abandonment and recovery *)

\* The janitor reads the receipts first, and the stream if there are any.
AbandonStale ==
  /\ Trouble
  /\ store.status = "collecting" /\ (store.receipts = {} \/ Readable(store))
  /\ store' = [(IF store.receipts = {} THEN store ELSE Truncated(store)) EXCEPT !.status = "abandoned"]
  /\ UNCHANGED <<page, rows, stored, net, outbox, history>>

\* The page offers to give up a session it could not resume.
AbandonPending ==
  /\ mode = "local" /\ page.state = "failed" /\ store.status = "collecting"
  /\ store' = [store EXCEPT !.status = "abandoned"]
  /\ page' = [page EXCEPT !.state = "over"] /\ stored' = FALSE
  /\ UNCHANGED <<rows, net, outbox, history, troubles>>

\* At the cutoff the server closes a student's session with what it has.
Deadline ==
  /\ mode = "student" /\ CanFinalize(store, store.last)
  /\ store.status = "collecting"
  /\ store' = Finalized(store)
  /\ UNCHANGED <<page, rows, stored, net, outbox, history, troubles>>

\* An operator takes an abandoned or half finalized session back.
Recover ==
  /\ Trouble
  /\ store.status \in {"abandoned", "finalizing"}
  /\ store' = [store EXCEPT !.status = "collecting"]
  /\ UNCHANGED <<page, rows, stored, net, outbox, history>>

PageStep ==
  \/ Start \/ ReadSession \/ Bootstrap \/ Resume \/ Reload
  \/ Overflow \/ Enqueue \/ AppendRow \/ AppendRowFails
  \/ Flush \/ FlushRejected \/ CreateBatch \/ Send \/ Stop \/ SendFinalize

Next ==
  \/ PageStep
  \/ \E m \in net :
       \/ Disconnect(m)
       \/ ServeAppend(m) \/ RefuseAppend(m) \/ CutAppend(m)
       \/ ServeFinalize(m) \/ RefuseFinalize(m) \/ CutFinalize(m)
  \/ AbandonStale \/ AbandonPending \/ Deadline \/ Recover

Spec == Init /\ [][Next]_vars

-----------------------------------------------------------------------------
(* Properties *)

Batches == [id : Nat, first : Nat, what : Seq(Segment)]

\* The shape of the state.
TypeOK ==
  /\ mode \in Modes
  /\ page.state \in {"closed", "resuming", "active", "failed", "over", "finalized"}
  /\ page.queue \in Seq(Segment) /\ page.last \in Nat /\ page.server \in 0..page.last
  /\ page.pending \in Batches
  /\ Len(page.queue) <= page.last /\ page.pending # NoBatch => IsPrefix(page.pending.what, page.queue)
  /\ page.awaited \in 0..Len(page.writes)
  /\ rows \in [Number -> 0..MaxSegment] /\ stored \in BOOLEAN
  /\ store.status \in {"absent", "collecting", "finalizing", "finalized", "abandoned"}
  /\ store.raw \in Seq(Segment) /\ store.last \in Nat /\ store.tail \in {"none", "torn", "bare"}
  /\ \A b \in store.journals : b \in Batches
  /\ minted \in Nat /\ recorded \in 0..MaxSegment

\* A segment is in the stream once, and in the order it was recorded, whatever
\* was sent twice, cut and resumed.
StreamInOrder ==
  \A i, k \in DOMAIN store.raw : i < k => store.raw[i] < store.raw[k]

\* What the page let go after a receipt is in the stream at its number for good,
\* and session.json counts it.
ReceiptsHold ==
  /\ page.server <= store.last
  /\ \A p \in confirmed : p[1] <= store.last /\ store.raw[p[1]] = p[2]

\* The stream and the receipts tell one story.
StreamHoldsReceipts == StreamInOrder /\ ReceiptsHold

\* As long as no batch outran IndexedDB and the stream can be read, a page that is
\* reloaded can go on: the rows after the count of session.json continue it, and
\* they begin with what an unfinished append has left in the stream.
ReloadRecovers ==
  store.status = "collecting" /\ Readable(store) /\ ~ahead =>
    LET rest == {n \in Number : n > store.last /\ rows[n] # 0} IN
    /\ rest = store.last + 1 .. store.last + Cardinality(rest)
    /\ Len(store.raw) - store.last \in 0..MaxBatchSize
    /\ \A n \in store.last + 1 .. Len(store.raw) : rows[n] = store.raw[n]

\* A segment that reached IndexedDB stays there until it is in the stream, as long
\* as no batch outran IndexedDB.
KeptIsKept ==
  ahead \/ \A p \in kept : rows[p[1]] = p[2] \/ (p[1] <= Len(store.raw) /\ store.raw[p[1]] = p[2])

\* "页面关闭前已进入 IndexedDB 的事件可在重开后恢复" (events that reached IndexedDB
\* before the page was closed can be recovered when it is opened again): a
\* finalized session has them all.
EventsAreRecovered ==
  store.status = "finalized" => \A p \in kept : p[1] <= Len(store.raw) /\ store.raw[p[1]] = p[2]

\* "If queue persistence fails, the HTTP handler returns an error so the browser
\* can replay the same idempotent local batch": a page that has nothing left to
\* send has nothing left that is not queued for the classroom.
AcceptedIsQueued ==
  mode = "student" /\ page.state \in {"active", "finalized"} /\ page.queue = <<>> =>
    \A n \in 1..page.server : \E r \in outbox : n \in r[1]..r[2]
=============================================================================
