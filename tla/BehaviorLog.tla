----------------------------- MODULE BehaviorLog -----------------------------
(***************************************************************************)
(* The readable logs of one day: four files for each session, named after  *)
(* the second it began in (myextension/behavior_log_store.py), and those   *)
(* who write and remove them: finalize and delete_cascade of               *)
(* session_store.py, and the route of the older page, which appends.       *)
(*                                                                         *)
(* All sessions considered began in the same second, so that their names   *)
(* differ in the suffix only: a stem is that suffix.  The requests run on  *)
(* the main thread, one at a time; finalize runs on the thread of the      *)
(* deadline worker as well.  An event is <<session, page, number>>, and    *)
(* rendering keeps the events and their order.                             *)
(***************************************************************************)
EXTENDS Integers, Sequences, FiniteSets, FiniteSetsExt

CONSTANTS Session, Absent,
          MaxEvents,    \* bound: events recorded or appended per session
          MaxStem,      \* bound: names of logs
          MaxTrouble    \* bound: failures and deaths

Event == Session \X {"new", "old"} \X Nat

ASSUME LogAssumption ==
    MaxStem \in Nat /\ Absent \notin Nat /\ Absent \notin Seq(Event)

Writer == {"main", "worker"}
Kinds == {"md", "meta", "raw", "timeline"}
Stems == 1 .. MaxStem

VARIABLES
    stored,     \* session.json: its status, events and legacy_projection_path
    index,      \* .session_index.json: the stem of each session, or Absent
    file,       \* what each file holds, or Absent
    thread,     \* what each thread is at, and what it still has to do
    appended,   \* how many events the older page has sent, by session
    cut         \* operations that failed or died, by session

logVars == <<stored, index, file, thread, appended, cut>>

Idle == [op |-> "idle", session |-> Absent, stem |-> Absent, text |-> <<>>,
         todo |-> {}]

LogInit ==
    /\ stored \in [Session -> [status : {"none", "collecting"}, events : {0},
                               path : {Absent}]]
    /\ index = [s \in Session |-> Absent]
    /\ file = [k \in Kinds |-> [n \in Stems |-> Absent]]
    /\ thread = [t \in Writer |-> Idle]
    /\ appended = [s \in Session |-> 0]
    /\ cut = {}

New(s, n) == [i \in 1 .. n |-> <<s, "new", i>>]
Old(s, n) == [i \in 1 .. n |-> <<s, "old", i>>]
Text(k, n) == IF file[k][n] = Absent THEN <<>> ELSE file[k][n]

Sent(s) == <<s, "old", appended[s]>>

(* The steps of an operation, in the order in which they are taken.        *)
Order ==
    [finalize |-> [reserve |-> 1, meta |-> 2, raw |-> 3, timeline |-> 4, md |-> 5,
                   save |-> 6],
     append   |-> [reserve |-> 1, meta |-> 2, raw |-> 3, md |-> 4, timeline |-> 5],
     delete   |-> [index |-> 1, md |-> 2, meta |-> 3, raw |-> 4, timeline |-> 5,
                   session |-> 6]]

Rests(t) == thread[t] = Idle
At(t, op, step) ==
    /\ thread[t].op = op /\ step \in thread[t].todo
    /\ \A other \in thread[t].todo : Order[op][step] <= Order[op][other]

(* finalize and delete_cascade hold the lock of their session.             *)
Locked(s) ==
    \E t \in Writer : thread[t].op \in {"finalize", "delete"} /\ thread[t].session = s

(* A deletion with a log holds the lock of the index until it returns.     *)
(* The slip: the lock is let go when the entry of the index is removed.    *)
IndexLocked_Slip(t) ==
    \E u \in Writer \ {t} : At(u, "delete", "index") /\ thread[u].stem # Absent

IndexLocked(t) ==
    \E u \in Writer \ {t} : thread[u].op = "delete" /\ thread[u].stem # Absent

(* The step is done; after the last one the thread is free.                *)
Stepped(job, step) ==
    IF job.todo = {step} THEN Idle ELSE [job EXCEPT !.todo = @ \ {step}]

Step(t, step) == thread' = [thread EXCEPT ![t] = Stepped(@, step)]

Put(k, n, text) == file' = [file EXCEPT ![k][n] = text]

-----------------------------------------------------------------------------
(* append_batch, as far as the log is concerned.                           *)
Record(s) ==
    /\ Rests("main") /\ ~Locked(s)
    /\ stored[s].status = "collecting" /\ stored[s].events < MaxEvents
    /\ stored' = [stored EXCEPT ![s].events = @ + 1]
    /\ UNCHANGED <<index, file, thread, appended, cut>>

(* finalize: a log that is recorded as written is not written again.       *)
FinalizeBegin(t, s) ==
    /\ Rests(t) /\ ~Locked(s)
    /\ stored[s].status = "collecting"
    /\ stored' = [stored EXCEPT ![s].status = "finalizing"]
    /\ thread' = [thread EXCEPT ![t] =
          [op |-> "finalize", session |-> s, stem |-> stored[s].path,
           text |-> New(s, stored[s].events),
           todo |-> IF stored[s].path # Absent THEN {"save"}
                    ELSE {"reserve", "save"} \union Kinds]]
    /\ UNCHANGED <<index, file, appended, cut>>

(* The route of the older page: no session need exist, and no lock of one  *)
(* is taken.                                                               *)
AppendBegin(s) ==
    /\ Rests("main")
    /\ appended[s] < MaxEvents
    /\ appended' = [appended EXCEPT ![s] = @ + 1]
    /\ thread' = [thread EXCEPT !["main"] =
          [op |-> "append", session |-> s, stem |-> Absent, text |-> <<>>,
           todo |-> {"reserve"} \union Kinds]]
    /\ UNCHANGED <<stored, index, file, cut>>

(* The stem a session has, or the first that is neither given away nor     *)
(* taken by a file.                                                        *)
Vacant(n) == file["md"][n] = Absent /\ \A r \in Session : index[r] # n

StemOf(s) ==
    IF index[s] # Absent THEN index[s] ELSE Min({n \in Stems : Vacant(n)})

(* append_segments goes on from what the .meta.json holds.                 *)
ReservedBy(job, n) ==
    [job EXCEPT !.stem = n, !.todo = @ \ {"reserve"},
                !.text = IF job.op = "finalize" THEN @
                         ELSE Append(Text("meta", n), Sent(job.session))]

Reserve(t) ==
    /\ At(t, "finalize", "reserve") \/ At(t, "append", "reserve")
    /\ ~IndexLocked(t)
    /\ LET s == thread[t].session
       IN  /\ index[s] # Absent \/ \E n \in Stems : Vacant(n)
           /\ index' = [index EXCEPT ![s] = StemOf(s)]
           /\ thread' = [thread EXCEPT ![t] = ReservedBy(@, StemOf(s))]
    /\ UNCHANGED <<stored, file, appended, cut>>

(* write_session_projection replaces each file by the whole log.           *)
Project(t, k) ==
    /\ At(t, "finalize", k)
    /\ Put(k, thread[t].stem, thread[t].text)
    /\ Step(t, k)
    /\ UNCHANGED <<stored, index, appended, cut>>

Save(t) ==
    /\ At(t, "finalize", "save")
    /\ stored' = [stored EXCEPT ![thread[t].session] =
                     [@ EXCEPT !.status = "finalized", !.path = thread[t].stem]]
    /\ Step(t, "save")
    /\ UNCHANGED <<index, file, appended, cut>>

(* The events are added to .raw_events.jsonl, the other files written anew. *)
AppendTo(k) ==
    /\ At("main", "append", k)
    /\ LET job == thread["main"]
       IN  Put(k, job.stem, IF k = "raw" THEN Append(Text(k, job.stem), Sent(job.session))
                            ELSE job.text)
    /\ Step("main", k)
    /\ UNCHANGED <<stored, index, appended, cut>>

-----------------------------------------------------------------------------
(* delete_cascade: the log is the one the session names, if it names one;  *)
(* its files are looked for first, and removed in the order of their names *)
(* after the entry of the index and before the session.  The two lines of  *)
(* the audit file are left out.                                            *)
DeleteBegin(s) ==
    /\ Rests("main") /\ ~Locked(s)
    /\ stored[s].status \notin {"none", "deleted"}
    /\ LET n == stored[s].path
           There(k) == n # Absent /\ file[k][n] # Absent
       IN  thread' = [thread EXCEPT !["main"] =
              [op |-> "delete", session |-> s, stem |-> n, text |-> <<>>,
               todo |-> {"index", "session"} \union {k \in Kinds : There(k)}]]
    /\ UNCHANGED <<stored, index, file, appended, cut>>

Unindex ==
    /\ At("main", "delete", "index")
    /\ index' = IF thread["main"].stem = Absent THEN index
                ELSE [index EXCEPT ![thread["main"].session] = Absent]
    /\ Step("main", "index")
    /\ UNCHANGED <<stored, file, appended, cut>>

Unlink(k) ==
    /\ At("main", "delete", k)
    /\ Put(k, thread["main"].stem, Absent)
    /\ Step("main", k)
    /\ UNCHANGED <<stored, index, appended, cut>>

DropSession ==
    /\ At("main", "delete", "session")
    /\ stored' = [stored EXCEPT ![thread["main"].session] =
                     [status |-> "deleted", events |-> 0, path |-> Absent]]
    /\ Step("main", "session")
    /\ UNCHANGED <<index, file, appended, cut>>

-----------------------------------------------------------------------------
(* An operation is cut once it has touched a file of the log; the older    *)
(* page does not send again what an append has not written.                *)
CutOf(t) ==
    IF Rests(t) \/ At(t, "finalize", "reserve") \/ At(t, "delete", "index") THEN {}
    ELSE {[op |-> IF At(t, "finalize", "save") THEN "save" ELSE thread[t].op,
           session |-> thread[t].session]}

(* A write fails, or finalize finds the stream incomplete: finalize saves  *)
(* the session as collecting, with the log it names if only the last save  *)
(* failed, unless that save fails too.                                     *)
TakeBack(t) ==
    IF thread[t].op # "finalize" THEN {stored}
    ELSE LET s == thread[t].session
         IN  {stored, [stored EXCEPT ![s].status = "collecting",
                                     ![s].path = IF At(t, "finalize", "save")
                                                 THEN thread[t].stem ELSE @]}

(* A file that append_segments writes in place may be left empty.          *)
Emptied(t) ==
    \E k \in {"md", "timeline"} :
        At(t, "append", k) /\ Put(k, thread[t].stem, <<>>)

Fail(t) ==
    /\ ~Rests(t)
    /\ stored' \in TakeBack(t)
    /\ Emptied(t) \/ UNCHANGED file
    /\ cut' = cut \union CutOf(t)
    /\ thread' = [thread EXCEPT ![t] = Idle]
    /\ UNCHANGED <<index, appended>>

Crash ==
    /\ \E t \in Writer : ~Rests(t)
    /\ Emptied("main") \/ UNCHANGED file
    /\ cut' = cut \union UNION {CutOf(t) : t \in Writer}
    /\ thread' = [t \in Writer |-> Idle]
    /\ UNCHANGED <<stored, index, appended>>

Trouble ==
    /\ Cardinality(cut) < MaxTrouble
    /\ Crash \/ \E t \in Writer : Fail(t)

(* An operator takes a session back that died in finalize.                 *)
Recover(s) ==
    /\ Rests("main") /\ ~Locked(s)
    /\ stored[s].status = "finalizing"
    /\ stored' = [stored EXCEPT ![s].status = "collecting"]
    /\ UNCHANGED <<index, file, thread, appended, cut>>

LogNext ==
    \/ \E s \in Session :
          \/ Record(s) \/ AppendBegin(s) \/ DeleteBegin(s) \/ Recover(s)
          \/ \E t \in Writer : FinalizeBegin(t, s)
    \/ \E t \in Writer : Reserve(t) \/ Save(t) \/ \E k \in Kinds : Project(t, k)
    \/ \E k \in Kinds : AppendTo(k) \/ Unlink(k)
    \/ Unindex \/ DropSession
    \/ Trouble

LogSpec == LogInit /\ [][LogNext]_logVars

-----------------------------------------------------------------------------
DeletionCut == \E c \in cut : c.op = "delete"
Touched(s) == appended[s] > 0

(* A finalized session has its whole log, in all four files, unless it is  *)
(* being deleted, the older page wrote to it, its last save failed, or a   *)
(* deletion was cut.                                                       *)
FinalizedHasWholeLog ==
    \A s \in Session :
        stored[s].status = "finalized" /\ ~Locked(s) /\ ~Touched(s) /\ ~DeletionCut
            /\ ~(\E c \in cut : c.session = s /\ c.op = "save")
        => \A k \in Kinds : file[k][stored[s].path] = New(s, stored[s].events)

Named == {s \in Session : index[s] # Absent}

(* Sessions that began in the same second have different logs, and none    *)
(* holds an event of another.                                              *)
LogsStayApart ==
    DeletionCut \/
        \A s \in Named :
            /\ \A r \in Named \ {s} : index[r] # index[s]
            /\ \A k \in Kinds : \A i \in DOMAIN Text(k, index[s]) :
                  Text(k, index[s])[i][1] = s

(* What the older page sent is in the log, each event once, in its order.  *)
AppendsAreKept ==
    \A s \in Session :
        stored[s].status = "none" /\ Touched(s) /\ ~DeletionCut
            /\ ~(\E c \in cut : c.session = s) /\ thread["main"].session # s
            /\ s \in Named
        => \A k \in Kinds : file[k][index[s]] = Old(s, appended[s])

Holds(n, s) ==
    \E k \in Kinds : \E i \in DOMAIN Text(k, n) : Text(k, n)[i][1] = s

(* Nothing of a deleted session is left in any log, if none of its         *)
(* operations was cut and the older page did not write to it.              *)
ErasedIsGone ==
    \A s \in Session :
        stored[s].status = "deleted" /\ ~Touched(s) /\ ~(\E c \in cut : c.session = s)
            => s \notin Named /\ \A n \in Stems : ~Holds(n, s)

(* Whatever the threads do in whatever order, the logs say what happened.  *)
LogsAreTrue ==
    FinalizedHasWholeLog /\ LogsStayApart /\ AppendsAreKept /\ ErasedIsGone

(* What the plan of the pilot says of a deletion: a session whose deletion *)
(* was completed has left no log.                                          *)
DeletionTakesLog ==
    \A s \in Session :
        stored[s].status = "deleted" /\ ~Touched(s) /\ ~DeletionCut
            => \A n \in Stems : ~Holds(n, s)
=============================================================================
