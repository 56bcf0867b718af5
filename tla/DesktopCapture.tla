---------------------------- MODULE DesktopCapture ----------------------------
(***************************************************************************)
(* The VS Code extension's capture of a session: the controller that       *)
(* numbers events and flushes them, the repository that keeps a session's  *)
(* state, its events and the workspace's active pointer in files, the      *)
(* commands that start, resume and finish, the brief made when a session   *)
(* has ended, its analysis and its export; and what the next activation    *)
(* finds when the window was closed in between.                            *)
(*                                                                         *)
(* Everything runs on one thread and stops at each await.  A step is the   *)
(* code up to the next await that touches a file, with the read it waits   *)
(* for; a write is a step of its own where somebody may look between the   *)
(* write and the code after it.  Append and transition of a session        *)
(* exclude each other.  get takes no lock, and between what it reads and   *)
(* what it does of it anything may happen.  Commands may overlap: nothing  *)
(* makes one wait for another.                                             *)
(*                                                                         *)
(* MaxEvent bounds the events of a session, MaxCrash the closed windows    *)
(* and MaxFault the file operations that fail.                             *)
(***************************************************************************)
EXTENDS Integers, Sequences, FiniteSets

CONSTANTS
  Command,   \* the commands that may be under way at once
  MaxSession, MaxEvent, MaxCrash, MaxFault

ASSUME CommandAssumption == "none" \notin Command
ASSUME BoundsAssumption == MaxSession \in Nat /\ MaxEvent \in Nat /\ MaxCrash \in Nat /\ MaxFault \in Nat

Session == 1..MaxSession
None == 0
NoCommand == "none"

VARIABLES
  disk,      \* by session: session_state.json, its status and last_persisted_seq
  file,      \* by session: the numbers of the events in events.jsonl
  tail,      \* by session: how the lines of events.jsonl end
  pointer,   \* active_session.json
  artifacts, \* by session: the artifacts made of it
  brief,     \* by session: the events its classroom brief was made from, and its ending
  export,    \* by session: its export directory
  ext,       \* the extension: down, up, or its activation failed
  owned,     \* ownedSessions
  blocked,   \* blockedSessions
  broken,    \* the sessions whose event writer has failed
  active,    \* the session of activeState
  factory,   \* the event factory: its session and the next number
  pending,   \* numbered events that no flush has taken
  failure,   \* the controller stopped after a failure
  queue,     \* by session: the flushes of its chain that are under way, in their order
  gets,      \* the gets under way, of flushes and of commands
  cmd,       \* by command: where it is
  found,     \* interruptedState and lastSessionId
  due,       \* by session: the events recorded when the command that ended it was given
  overtaken, \* the sessions whose state a late get wrote over
  left       \* the crashes and faults that may still happen

files == <<disk, file, tail, pointer>>
made == <<artifacts, brief, export>>
memory == <<owned, blocked, broken>>
controller == <<active, factory, pending, failure>>
flows == <<queue, gets>>
told == <<due, overtaken>>
vars == <<files, made, ext, memory, controller, flows, cmd, found, told, left>>

Terminal == {"completed", "partial", "abandoned"}
Active == {"collecting", "interrupted", "finalizing"}
Reports == <<"operation_log", "process_log", "classroom_brief", "teacher_brief">>
Required == {"operation_log", "process_log", "classroom_brief"}

Finishing == {"finish", "finishAnalyzeExport", "end"}

Idle == [op |-> "idle", pc |-> "idle", s |-> None, outcome |-> "completed", due |-> 0, before |-> None]
NoFactory == [s |-> None, next |-> 1]
NoBrief == [events |-> -1, ending |-> "open"]

Init ==
  /\ disk = [s \in Session |-> [status |-> "absent", persisted |-> 0]]
  /\ file = [s \in Session |-> <<>>]
  /\ tail = [s \in Session |-> "ended"] /\ pointer = None
  /\ artifacts = [s \in Session |-> {}]
  /\ brief = [s \in Session |-> NoBrief]
  /\ export = [s \in Session |-> "none"]
  /\ ext = "down"
  /\ owned = {} /\ blocked = {} /\ broken = {}
  /\ active = None /\ factory = NoFactory /\ pending = <<>> /\ failure = FALSE
  /\ queue = [s \in Session |-> <<>>] /\ gets = {}
  /\ cmd = [c \in Command |-> Idle]
  /\ found = [interrupted |-> None, last |-> None]
  /\ due = [s \in Session |-> 0] /\ overtaken = {}
  /\ left = [crash |-> MaxCrash, fault |-> MaxFault]

At(c, op, pc) == cmd[c].op \in op /\ cmd[c].pc = pc
Go(c, r) == cmd' = [cmd EXCEPT ![c] = r] /\ UNCHANGED found
Step(c, pc) == Go(c, [cmd[c] EXCEPT !.pc = pc])

\* A command ends, well or not: finishing sets lastSessionId to the session that was
\* active before it, resuming forgets the interrupted session.
Ends(c) ==
  /\ cmd' = [cmd EXCEPT ![c] = Idle]
  /\ found' = [interrupted |-> IF cmd[c].op = "resume" THEN None ELSE found.interrupted,
               last |-> IF cmd[c].before # None THEN cmd[c].before ELSE found.last]

Status(s) == IF s = None THEN "absent" ELSE disk[s].status

\* readEvents accepts whole lines numbered from one, the last one with or without its
\* newline.
Readable(s) == tail[s] \in {"ended", "bare"} /\ \A i \in DOMAIN file[s] : file[s][i] = i

\* The tail of a file that something is added to.
Lengthened(s, end) == [tail EXCEPT ![s] = IF tail[s] = "ended" THEN end ELSE "joined"]

\* The sessions whose events are written and whose state is not.
Writing == {s \in Session : queue[s] # <<>> /\ Head(queue[s]).pc = "written"}

\* append and transition of a session wait for each other; the last steps of a
\* transition still hold the lock.
LockFree(s) ==
  /\ s \notin Writing
  /\ \A c \in Command : ~(cmd[c].s = s /\ cmd[c].op # "start" /\ cmd[c].pc \in {"own", "clear", "unlink"})

Faults == left.fault > 0 /\ left' = [left EXCEPT !.fault = left.fault - 1]

\* activate: what the controller holds of a session it has begun or resumed.  The
\* flushes of an earlier session go on.
Begin(s, persisted) ==
  /\ active' = s /\ factory' = [s |-> s, next |-> persisted + 1]
  /\ pending' = <<>> /\ failure' = FALSE

Release == active' = None /\ factory' = NoFactory /\ pending' = <<>>

\* stopAfterFailure, unless the controller has stopped before.
Stop == IF failure THEN UNCHANGED controller ELSE failure' = TRUE /\ Release

-----------------------------------------------------------------------------
(* get *)

\* A get of session s for a flush (of the events up to id) or a command.
NewGet(s, by, id) == gets' = gets \cup {[s |-> s, by |-> by, id |-> id, pc |-> "read", saw |-> "absent", n |-> 0]}
GetGoes(g, h) == gets' = (gets \ {g}) \cup {h}

OfFlush(g) == g.by = NoCommand \/ cmd[g.by].pc = "flush"

\* What a command does with the status it gets: any session that has not ended refuses
\* a new one, and only an interrupted one is resumed.
GoOn(c, status) ==
  CASE cmd[c].op = "start" -> IF status \in Active THEN Ends(c) ELSE Step(c, "clear")
    [] cmd[c].op \in {"resume", "end"} /\ cmd[c].pc = "get" -> IF status = "interrupted" THEN Step(c, "resume") ELSE Ends(c)
    [] cmd[c].op = "export" -> Step(c, "files")
    [] OTHER -> Step(c, "ready")

\* A flush shows the state it gets, whatever session is active by then.
Returns(g, status) ==
  /\ gets' = gets \ {g}
  /\ active' = IF OfFlush(g) /\ active # None THEN g.s ELSE active
  /\ IF g.by = NoCommand THEN UNCHANGED <<cmd, found>> ELSE GoOn(g.by, status)
  /\ UNCHANGED <<factory, pending, failure>>

\* An error is one of the flush, which stops the controller, or of the command.
GetFails(g) ==
  /\ gets' = gets \ {g}
  /\ IF OfFlush(g) THEN Stop ELSE UNCHANGED controller
  /\ IF g.by = NoCommand THEN UNCHANGED <<cmd, found>> ELSE Ends(g.by)

GetRead(g) ==
  /\ g.pc = "read"
  /\ \/ GetGoes(g, [g EXCEPT !.pc = "check", !.saw = Status(g.s)]) /\ UNCHANGED <<controller, cmd, found, left>>
     \/ Faults /\ GetFails(g)
  /\ UNCHANGED <<files, made, ext, memory, queue, told>>

IsLeftOver(g) == g.saw = "collecting" /\ g.s \notin owned

\* ownedSessions is asked after the read: a session that was read as collecting and
\* belongs to nobody now is taken for one of an earlier window.
GetCheck(g) ==
  /\ g.pc = "check"
  /\ IF IsLeftOver(g)
       THEN GetGoes(g, [g EXCEPT !.pc = "count"]) /\ UNCHANGED <<controller, cmd, found>>
       ELSE Returns(g, g.saw)
  /\ UNCHANGED <<files, made, ext, memory, queue, told, left>>

GetCount(g) ==
  /\ g.pc = "count"
  /\ IF Readable(g.s)
       THEN GetGoes(g, [g EXCEPT !.pc = "write", !.n = Len(file[g.s])]) /\ UNCHANGED <<controller, cmd, found>>
       ELSE GetFails(g)
  /\ UNCHANGED <<files, made, ext, memory, queue, told, left>>

\* By the time of the write the session has ended, or its file is not what was counted.
IsLate(g) == Status(g.s) \in Terminal \/ ~Readable(g.s) \/ Len(file[g.s]) # g.n

GetWrite(g) ==
  /\ g.pc = "write"
  /\ \/ /\ disk' = [disk EXCEPT ![g.s] = [status |-> "interrupted", persisted |-> g.n]]
        /\ overtaken' = IF IsLate(g) THEN overtaken \cup {g.s} ELSE overtaken
        /\ Returns(g, "interrupted")
        /\ UNCHANGED left
     \/ Faults /\ GetFails(g) /\ UNCHANGED <<disk, overtaken>>
  /\ UNCHANGED <<file, tail, pointer, made, ext, memory, queue, due>>

GetStep(g) == GetRead(g) \/ GetCheck(g) \/ GetCount(g) \/ GetWrite(g)

-----------------------------------------------------------------------------
(* Activation *)

Recover_Slip(s) == [disk EXCEPT ![s].status = "interrupted"]

Recover(s) ==
  [disk EXCEPT ![s] = [status |-> "interrupted", persisted |-> Len(file[s])]]

\* findActive, before anything else is done in the window.
Activate ==
  /\ ext = "down"
  /\ \/ /\ pointer = None
        /\ ext' = "up" /\ UNCHANGED <<files, found>>
     \/ /\ Status(pointer) = "collecting"
        /\ IF Readable(pointer)
             THEN /\ disk' = Recover(pointer) /\ ext' = "up"
                  /\ found' = [found EXCEPT !.interrupted = pointer]
             ELSE ext' = "failed" /\ UNCHANGED <<disk, found>>
        /\ UNCHANGED <<file, tail, pointer>>
     \/ /\ Status(pointer) \in {"interrupted", "finalizing"}
        /\ ext' = "up" /\ found' = [found EXCEPT !.interrupted = pointer]
        /\ UNCHANGED files
     \/ /\ Status(pointer) \in Terminal
        /\ ext' = "up" /\ pointer' = None
        /\ UNCHANGED <<disk, file, tail, found>>
  /\ UNCHANGED <<made, memory, controller, flows, cmd, told, left>>

-----------------------------------------------------------------------------
(* Starting a session *)

Start(c) ==
  /\ ext = "up" /\ cmd[c] = Idle /\ active = None
  /\ (\E s \in Session : Status(s) = "absent") \/ Status(pointer) \in Active
  /\ Go(c, [Idle EXCEPT !.op = "start", !.pc = "pointer"])
  /\ UNCHANGED <<files, made, ext, memory, controller, flows, told, left>>

\* create takes the workspace's lock and asks findActive.
StartFind(c) ==
  /\ At(c, {"start"}, "pointer")
  /\ \A d \in Command : cmd[d].op = "start" => d = c \/ cmd[d].pc = "pointer"
  /\ IF pointer = None
       THEN Step(c, "state") /\ UNCHANGED gets
       ELSE Go(c, [cmd[c] EXCEPT !.pc = "find", !.s = pointer]) /\ NewGet(pointer, c, 0)
  /\ UNCHANGED <<files, made, ext, memory, controller, queue, told, left>>

NewSession == CHOOSE s \in Session : Status(s) = "absent"

\* (No further session begins than MaxSession.)
StartState(c) ==
  /\ At(c, {"start"}, "state")
  /\ \/ /\ \E s \in Session : Status(s) = "absent"
        /\ disk' = [disk EXCEPT ![NewSession] = [status |-> "collecting", persisted |-> 0]]
        /\ Go(c, [cmd[c] EXCEPT !.pc = "point", !.s = NewSession])
        /\ UNCHANGED left
     \/ Faults /\ Ends(c) /\ UNCHANGED disk
     \/ /\ ~\E s \in Session : Status(s) = "absent"
        /\ Ends(c) /\ UNCHANGED <<disk, left>>
  /\ UNCHANGED <<file, tail, pointer, made, ext, memory, controller, flows, told>>

StartPoint(c) ==
  /\ At(c, {"start"}, "point")
  /\ Ends(c)
  /\ \/ /\ pointer' = cmd[c].s /\ owned' = owned \cup {cmd[c].s}
        /\ Begin(cmd[c].s, 0)
        /\ UNCHANGED left
     \/ Faults /\ UNCHANGED <<pointer, owned, controller>>
  /\ UNCHANGED <<disk, file, tail, made, ext, blocked, broken, flows, told>>

-----------------------------------------------------------------------------
(* Recording and flushing *)

Record ==
  /\ ext = "up" /\ ~failure /\ active # None /\ factory.next <= MaxEvent
  /\ pending' = Append(pending, factory.next)
  /\ factory' = [factory EXCEPT !.next = factory.next + 1]
  /\ UNCHANGED <<files, made, ext, memory, active, failure, flows, cmd, found, told, left>>

\* A flush takes everything pending to the end of the chain; target is the session it
\* is appended to, by is the command that waits for it.
Enqueue(by) ==
  LET batch == [target |-> active, events |-> pending, pc |-> "queued", by |-> by]
  IN  queue' = [queue EXCEPT ![factory.s] = Append(@, batch)] /\ pending' = <<>>

Flush ==
  /\ ext = "up" /\ ~failure /\ active # None /\ pending # <<>>
  /\ Enqueue(NoCommand)
  /\ UNCHANGED <<files, made, ext, memory, active, factory, failure, gets, cmd, found, told, left>>

Last(b) == b.events[Len(b.events)]

Accepts_Slip(s, b) == s \notin blocked /\ b.target = s /\ Head(b.events) = disk[s].persisted + 1

\* What append asks before it writes.
Accepts(s, b) ==
  /\ s \notin blocked
  /\ Status(s) = "collecting"
  /\ b.target = s
  /\ Head(b.events) = disk[s].persisted + 1

\* finish waits for its own flush, or with nothing pending for those that were in the
\* chain when it began.
Awaits(c, b) ==
  \/ cmd[c].pc = "flush" /\ b.by = c
  \/ cmd[c].pc = "drain" /\ Head(b.events) <= cmd[c].due

Fail_Slip(s) == queue' = [queue EXCEPT ![s] = <<>>] /\ Stop /\ UNCHANGED cmd

\* A flush that fails stops the controller; the flushes behind it in the chain fail with
\* it, and so do the commands that wait for one.
Fail(s) ==
  /\ queue' = [queue EXCEPT ![s] = <<>>]
  /\ cmd' = [c \in Command |-> IF cmd[c].s = s /\ \E i \in DOMAIN queue[s] : Awaits(c, queue[s][i])
                                 THEN [cmd[c] EXCEPT !.pc = "failed"] ELSE cmd[c]]
  /\ Stop

\* Any part of the lines may be in the file when a write is cut: n whole events, the last
\* of them perhaps without its newline, or with the beginning of the next.  What is
\* added to a line that has not ended is one line with it.
Cut(s, b) ==
  \E n \in 0..Len(b.events), end \in {"ended", "bare", "torn"} :
    /\ end = "bare" => n > 0
    /\ end = "torn" => n < Len(b.events)
    /\ file' = [file EXCEPT ![s] = file[s] \o SubSeq(b.events, 1, n)]
    /\ tail' = IF n = 0 /\ end = "ended" THEN tail ELSE Lengthened(s, end)

AppendEvents(s) ==
  LET b == Head(queue[s]) IN
  /\ queue[s] # <<>> /\ b.pc = "queued" /\ LockFree(b.target)
  /\ \/ /\ Accepts(s, b)
        /\ file' = [file EXCEPT ![s] = file[s] \o b.events]
        /\ tail' = Lengthened(s, "ended")
        /\ queue' = [queue EXCEPT ![s][1].pc = "written"]
        /\ UNCHANGED <<blocked, broken, controller, cmd, left>>
     \/ /\ Accepts(s, b) /\ Faults /\ Cut(s, b)
        /\ blocked' = blocked \cup {s} /\ broken' = broken \cup {s}
        /\ Fail(s)
     \/ /\ ~Accepts(s, b) /\ Fail(s)
        /\ UNCHANGED <<file, tail, blocked, broken, left>>
  /\ UNCHANGED <<disk, pointer, made, ext, owned, gets, found, told>>

\* The state that was read before the write is written with the new count.
AppendState(s) ==
  LET b == Head(queue[s]) IN
  /\ s \in Writing
  /\ \/ /\ disk' = [disk EXCEPT ![s] = [status |-> "collecting", persisted |-> Last(b)]]
        /\ queue' = [queue EXCEPT ![s] = Tail(@)]
        /\ NewGet(s, b.by, Last(b))
        /\ UNCHANGED <<blocked, controller, cmd, left>>
     \/ /\ Faults /\ blocked' = blocked \cup {s}
        /\ Fail(s)
        /\ UNCHANGED <<disk, gets>>
  /\ UNCHANGED <<file, tail, pointer, made, ext, owned, broken, found, told>>

-----------------------------------------------------------------------------
(* Finishing *)

\* A finishing command remembers the session that is active when it is given; only then
\* it asks for confirmation.
Finish(c) ==
  /\ ext = "up" /\ cmd[c] = Idle /\ active # None
  /\ \/ \E o \in {"completed", "abandoned"} :
          Go(c, [Idle EXCEPT !.op = "finish", !.pc = "ask", !.outcome = o, !.before = active])
     \/ Go(c, [Idle EXCEPT !.op = "finishAnalyzeExport", !.pc = "ask", !.before = active])
  /\ UNCHANGED <<files, made, ext, memory, controller, flows, told, left>>

\* finish flushes what is pending and waits for it, or for the chain when nothing is.
AskToFinish(c) ==
  LET r == [cmd[c] EXCEPT !.s = factory.s, !.due = factory.next - 1] IN
  /\ At(c, Finishing, "ask")
  /\ \/ /\ active # None /\ pending # <<>>
        /\ Enqueue(c) /\ Go(c, [r EXCEPT !.pc = "flush"])
     \/ /\ active # None /\ pending = <<>>
        /\ Go(c, [r EXCEPT !.pc = "drain"]) /\ UNCHANGED <<queue, pending>>
     \/ /\ active = None \/ cmd[c].op # "end"
        /\ Ends(c) /\ UNCHANGED <<queue, pending>>
  /\ UNCHANGED <<files, made, ext, memory, active, factory, failure, gets, told, left>>

Flushed_Slip(c) == cmd[c].pc \in {"flush", "drain", "ready"}

Flushed(c) ==
  \/ cmd[c].pc = "ready"
  \/ cmd[c].pc = "drain" /\ \A i \in DOMAIN queue[cmd[c].s] : ~Awaits(c, queue[cmd[c].s][i])

\* What transition asks; its writer is flushed, which fails if it has failed before.
MayLeave(s, status) == Status(s) = status /\ s \notin broken

\* The first transition, of the session that is active now.
Finalize(c) ==
  /\ cmd[c].op \in Finishing /\ Flushed(c)
  /\ LockFree(active)
  /\ \/ /\ MayLeave(active, "collecting")
        /\ disk' = [disk EXCEPT ![active].status = "finalizing"]
        /\ Go(c, [cmd[c] EXCEPT !.pc = "finalizing", !.s = active])
        /\ due' = [due EXCEPT ![active] = IF cmd[c].s = active THEN cmd[c].due ELSE 0]
        /\ UNCHANGED left
     \/ /\ MayLeave(active, "collecting")
        /\ Faults /\ Ends(c) /\ UNCHANGED <<disk, due>>
     \/ /\ ~MayLeave(active, "collecting")
        /\ Ends(c) /\ UNCHANGED <<disk, due, left>>
  /\ UNCHANGED <<file, tail, pointer, made, ext, memory, controller, flows, overtaken>>

EndSession(c) ==
  /\ At(c, Finishing, "finalizing") /\ LockFree(cmd[c].s)
  /\ \/ /\ MayLeave(cmd[c].s, "finalizing")
        /\ disk' = [disk EXCEPT ![cmd[c].s].status = cmd[c].outcome]
        /\ Step(c, "clear")
        /\ UNCHANGED left
     \/ /\ MayLeave(cmd[c].s, "finalizing")
        /\ Faults /\ Ends(c) /\ UNCHANGED disk
     \/ /\ ~MayLeave(cmd[c].s, "finalizing")
        /\ Ends(c) /\ UNCHANGED <<disk, left>>
  /\ UNCHANGED <<file, tail, pointer, made, ext, memory, controller, flows, told>>

\* The transition gives the session up, and the controller forgets it with what was
\* recorded since its flush; a new session may be made.
Cleared(c) ==
  IF cmd[c].op = "start"
    THEN Step(c, "state") /\ UNCHANGED <<owned, controller>>
    ELSE /\ owned' = owned \ {cmd[c].s}
         /\ Release /\ UNCHANGED failure
         /\ cmd' = [cmd EXCEPT ![c].pc = "report"]
         /\ found' = IF cmd[c].op = "end" THEN [interrupted |-> None, last |-> cmd[c].s] ELSE found

\* clearActivePointer reads the pointer, and ...
ClearPointer(c) ==
  /\ cmd[c].pc = "clear"
  /\ \/ pointer = cmd[c].s /\ Step(c, "unlink") /\ UNCHANGED <<owned, controller, left>>
     \/ pointer # cmd[c].s /\ Cleared(c) /\ UNCHANGED left
     \/ Faults /\ Ends(c) /\ UNCHANGED <<owned, controller>>
  /\ UNCHANGED <<files, made, ext, blocked, broken, flows, told>>

\* ... removes what is there by then.
Unlink(c) ==
  /\ cmd[c].pc = "unlink"
  /\ pointer' = None
  /\ Cleared(c)
  /\ UNCHANGED <<disk, file, tail, made, ext, blocked, broken, flows, told, left>>

-----------------------------------------------------------------------------
(* Resuming an interrupted session, or ending it as partial *)

Resume(c) ==
  /\ ext = "up" /\ cmd[c] = Idle /\ found.interrupted # None
  /\ \/ Go(c, [Idle EXCEPT !.op = "resume", !.pc = "get", !.s = found.interrupted])
     \/ /\ Status(found.interrupted) = "interrupted"
        /\ Go(c, [Idle EXCEPT !.op = "end", !.pc = "get", !.s = found.interrupted, !.outcome = "partial"])
  /\ NewGet(found.interrupted, c, 0)
  /\ UNCHANGED <<files, made, ext, memory, controller, queue, told, left>>

ResumeWrite(c) ==
  /\ At(c, {"resume", "end"}, "resume") /\ LockFree(cmd[c].s)
  /\ \/ /\ MayLeave(cmd[c].s, "interrupted")
        /\ disk' = [disk EXCEPT ![cmd[c].s].status = "collecting"]
        /\ Step(c, "own")
        /\ UNCHANGED left
     \/ /\ MayLeave(cmd[c].s, "interrupted")
        /\ Faults /\ Ends(c) /\ UNCHANGED disk
     \/ /\ ~MayLeave(cmd[c].s, "interrupted")
        /\ Ends(c) /\ UNCHANGED <<disk, left>>
  /\ UNCHANGED <<file, tail, pointer, made, ext, memory, controller, flows, told>>

ResumeOwn(c) ==
  /\ At(c, {"resume", "end"}, "own")
  /\ owned' = owned \cup {cmd[c].s}
  /\ Begin(cmd[c].s, disk[cmd[c].s].persisted)
  /\ IF cmd[c].op = "resume" THEN Ends(c) ELSE Step(c, "ask")
  /\ UNCHANGED <<files, made, ext, blocked, broken, flows, told, left>>

-----------------------------------------------------------------------------
(* The brief, its analysis and the export *)

NextReport(s) ==
  Reports[CHOOSE i \in DOMAIN Reports :
            Reports[i] \notin artifacts[s] /\ \A j \in 1..i - 1 : Reports[j] \in artifacts[s]]
Reported(s) == \A i \in DOMAIN Reports : Reports[i] \in artifacts[s]

\* materialize writes one artifact after the other; the student may ask once more when
\* it fails.
Report(c) ==
  LET s == cmd[c].s IN
  /\ At(c, Finishing, "report")
  /\ \/ /\ Readable(s) /\ ~Reported(s)
        /\ artifacts' = [artifacts EXCEPT ![s] = artifacts[s] \cup {NextReport(s)}]
        /\ brief' = IF NextReport(s) = "classroom_brief"
                      THEN [brief EXCEPT ![s] = [events |-> Len(file[s]), ending |-> Status(s)]]
                      ELSE brief
        /\ UNCHANGED <<cmd, found, left>>
     \/ /\ Reported(s) /\ cmd[c].op = "finishAnalyzeExport"
        /\ Step(c, "read") /\ UNCHANGED <<artifacts, brief, left>>
     \/ /\ Readable(s) /\ ~Reported(s)
        /\ Faults /\ (Ends(c) \/ UNCHANGED <<cmd, found>>) /\ UNCHANGED <<artifacts, brief>>
     \/ /\ ~Readable(s) \/ (Reported(s) /\ cmd[c].op # "finishAnalyzeExport")
        /\ Ends(c) /\ UNCHANGED <<artifacts, brief, left>>
  /\ UNCHANGED <<files, export, ext, memory, controller, flows, told>>

\* analyzeSession and exportSession are of the session that was last asked to finish in
\* this window; an export is of the active session when there is none.
Ask(c) ==
  /\ ext = "up" /\ cmd[c] = Idle
  /\ \/ /\ found.last # None
        /\ Go(c, [Idle EXCEPT !.op = "analyze", !.pc = "read", !.s = found.last])
        /\ UNCHANGED gets
     \/ /\ found.last # None \/ active # None
        /\ LET s == IF found.last # None THEN found.last ELSE active
           IN  Go(c, [Idle EXCEPT !.op = "export", !.pc = "get", !.s = s]) /\ NewGet(s, c, 0)
  /\ UNCHANGED <<files, made, ext, memory, controller, queue, told, left>>

\* The analysis of a session without a brief, or that the service fails, is written too.
Analyze(c) ==
  /\ At(c, {"analyze", "finishAnalyzeExport"}, "read")
  /\ \/ /\ artifacts' = [artifacts EXCEPT ![cmd[c].s] = artifacts[cmd[c].s] \cup {"ai_analysis"}]
        /\ \/ Ends(c) /\ UNCHANGED gets
           \/ /\ cmd[c].op = "finishAnalyzeExport"
              /\ Go(c, [cmd[c] EXCEPT !.op = "export", !.pc = "get"]) /\ NewGet(cmd[c].s, c, 0)
        /\ UNCHANGED left
     \/ Faults /\ Ends(c) /\ UNCHANGED <<artifacts, gets>>
  /\ UNCHANGED <<files, brief, export, ext, memory, controller, queue, told>>

\* An export reads everything first and writes its manifest last; a directory that is not
\* empty refuses it.  (One destination is modelled.)
ExportFiles(c) ==
  LET s == cmd[c].s IN
  /\ At(c, {"export"}, "files")
  /\ \/ /\ Required \subseteq artifacts[s] /\ export[s] = "none"
        /\ export' = [export EXCEPT ![s] = "files"]
        /\ \/ Step(c, "manifest") /\ UNCHANGED left
           \/ Faults /\ Ends(c)
     \/ /\ ~(Required \subseteq artifacts[s] /\ export[s] = "none")
        /\ Ends(c) /\ UNCHANGED <<export, left>>
  /\ UNCHANGED <<files, artifacts, brief, ext, memory, controller, flows, told>>

ExportManifest(c) ==
  /\ At(c, {"export"}, "manifest")
  /\ export' = [export EXCEPT ![cmd[c].s] = "manifest"]
  /\ Ends(c)
  /\ UNCHANGED <<files, artifacts, brief, ext, memory, controller, flows, told, left>>

\* A command whose flush has failed.
Failed(c) ==
  /\ cmd[c].pc = "failed" /\ Ends(c)
  /\ UNCHANGED <<files, made, ext, memory, controller, flows, told, left>>

-----------------------------------------------------------------------------
(* The window closes *)

\* The extension is gone; a write of events that was under way may have been cut.
Close ==
  /\ ext # "down" /\ left.crash > 0
  /\ left' = [left EXCEPT !.crash = left.crash - 1]
  /\ \/ UNCHANGED <<file, tail>>
     \/ \E s \in Session :
          /\ queue[s] # <<>> /\ Head(queue[s]).pc = "queued" /\ LockFree(s) /\ Accepts(s, Head(queue[s]))
          /\ Cut(s, Head(queue[s]))
  /\ ext' = "down" /\ owned' = {} /\ blocked' = {} /\ broken' = {}
  /\ Release /\ failure' = FALSE
  /\ queue' = [s \in Session |-> <<>>] /\ gets' = {}
  /\ cmd' = [c \in Command |-> Idle]
  /\ found' = [interrupted |-> None, last |-> None]
  /\ UNCHANGED <<disk, pointer, made, told>>

GetsOf(by) == \E g \in gets : g.by = by /\ GetStep(g)

\* A step of a command that is under way, or of the get it waits for.
CommandStep(c) ==
  \/ GetsOf(c)
  \/ StartFind(c) \/ StartState(c) \/ StartPoint(c)
  \/ AskToFinish(c) \/ Finalize(c) \/ EndSession(c) \/ ClearPointer(c) \/ Unlink(c)
  \/ ResumeWrite(c) \/ ResumeOwn(c)
  \/ Report(c) \/ Analyze(c) \/ ExportFiles(c) \/ ExportManifest(c) \/ Failed(c)

FlushStep == (\E s \in Session : AppendEvents(s) \/ AppendState(s)) \/ GetsOf(NoCommand)

Next ==
  \/ Activate \/ Record \/ Flush \/ Close
  \/ FlushStep
  \/ \E c \in Command : Start(c) \/ Finish(c) \/ Resume(c) \/ Ask(c) \/ CommandStep(c)

Spec == Init /\ [][Next]_vars

\* The event loop gets to every file operation it has begun, and a lock to everybody
\* that waits for it.
Fairness ==
  /\ WF_vars(FlushStep)
  /\ \A c \in Command : SF_vars(CommandStep(c))

FairSpec == Spec /\ Fairness

-----------------------------------------------------------------------------
(* Properties *)

TypeOK ==
  /\ disk \in [Session -> [status : Terminal \cup Active \cup {"absent"}, persisted : 0..MaxEvent]]
  /\ tail \in [Session -> {"ended", "bare", "torn", "joined"}]
  /\ owned \subseteq Session /\ broken \subseteq blocked /\ blocked \subseteq Session
  /\ pointer \in Session \cup {None} /\ active \in Session \cup {None}
  /\ artifacts \in [Session -> SUBSET {"operation_log", "process_log", "classroom_brief", "teacher_brief", "ai_analysis"}]
  /\ export \in [Session -> {"none", "files", "manifest"}]
  /\ ext \in {"down", "up", "failed"} /\ failure \in BOOLEAN
  /\ factory \in [s : Session \cup {None}, next : 1..MaxEvent + 1]
  /\ found \in [interrupted : Session \cup {None}, last : Session \cup {None}]
  /\ due \in [Session -> 0..MaxEvent] /\ overtaken \subseteq Session
  /\ \A s \in Session : \A i \in DOMAIN queue[s] :
       queue[s][i].pc \in {"queued", "written"} /\ queue[s][i].events # <<>>
  /\ \A c \in Command : cmd[c].op = "idle" <=> cmd[c] = Idle

\* The evidence of the sessions is what EvidenceLog promises: numbered from one without
\* a gap or a duplicate, only added to, and never touched once the session has ended,
\* whatever flushes, commands, faults and closed windows come in between, one in the
\* other.  Given up are only the sessions whose state a get that took no lock wrote
\* over when it was late.
Log == INSTANCE EvidenceLog
         WITH events <- file,
              ending <- [s \in Session |-> IF Status(s) \in Terminal THEN Status(s) ELSE "open"],
              lost <- overtaken
KeepsEvidence == Log!Spec

\* A session that ended has in its file every event that was recorded before the command
\* that ended it (flush before finalize), and the file can be read, unless an event was
\* added to a line that a cut had left without its newline.
EndedIsWhole == \A s \in Session \ overtaken : Status(s) \in Terminal =>
  Len(file[s]) >= due[s] /\ (Readable(s) \/ tail[s] = "joined")

\* A brief is of an ended session, says how it ended and counts every event of its file.
BriefTellsAll ==
  \A s \in Session \ overtaken : brief[s] # NoBrief =>
    brief[s] = [events |-> Len(file[s]), ending |-> Status(s)]

\* What a session recorded is in its file when it has ended, and in its brief
\* (finish, flush, the report of a session).
EndedIsReported == EndedIsWhole /\ BriefTellsAll

\* A command never waits for ever for a flush that failed, was overtaken or belongs to
\* another session: it ends, or the window closes.
CommandsEnd == \A c \in Command : cmd[c].op # "idle" ~> cmd[c].op = "idle"

-----------------------------------------------------------------------------
(* What the code does not do *)

\* The design of the extension: a session whose finishing was not completed at the last
\* exit is interrupted and waits for the user to resume or end it.
ExitLeavesInterrupted ==
  ext = "up" /\ owned = {} /\ pointer # None /\ (\A c \in Command : cmd[c] = Idle)
    => Status(pointer) = "interrupted"

\* No event shares a line with another: the first append after a cut before a newline
\* joins two, and neither the file nor the session's brief can be had from then on.
NoLineIsJoined == \A s \in Session : tail[s] # "joined"

\* An ended session stays ended, with one command at a time: a timer's get that read
\* collecting may come to its check when the session has been given up.
NoneOvertaken == overtaken = {}

\* A session that has events and has not ended is the one the next activation will
\* find: when a start comes between the pointer's read and its removal, it is not.
OpenIsFound == \A s \in Session : file[s] # <<>> /\ Status(s) \in Active => pointer = s
=============================================================================
