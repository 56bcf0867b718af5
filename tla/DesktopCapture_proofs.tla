------------------------ MODULE DesktopCapture_proofs ------------------------
(***************************************************************************)
(* Theorems about DesktopCapture for any number of sessions and events and *)
(* of commands that overlap, with every fault, closed window, cut write    *)
(* and late get the model has.                                             *)
(***************************************************************************)
EXTENDS DesktopCapture, SequenceTheorems, TLAPS

Commands == Command \cup {NoCommand}
Statuses == Terminal \cup Active \cup {"absent"}
Ops == {"idle", "start", "resume", "end", "finish", "finishAnalyzeExport", "analyze", "export"}
Places == {"idle", "pointer", "find", "state", "point", "get", "resume", "own", "ask", "flush", "drain", "ready", "failed",
           "finalizing", "clear", "unlink", "report", "read", "files", "manifest"}
DiskRows == [status : Statuses, persisted : Nat]
BriefRows == [events : Nat \cup {-1}, ending : Statuses \cup {"open"}]
CommandRows == [op : Ops, pc : Places, s : Session \cup {None}, outcome : Terminal, due : Nat, before : Session \cup {None}]
Batches == [target : Session \cup {None}, events : Seq(Nat), pc : {"queued", "written"}, by : Commands]
Gets == [s : Session, by : Commands, id : Nat, pc : {"read", "check", "count", "write"}, saw : Statuses, n : Nat]

Types ==
  /\ disk \in [Session -> DiskRows]
  /\ file \in [Session -> Seq(Nat)]
  /\ tail \in [Session -> {"ended", "bare", "torn", "joined"}]
  /\ pointer \in Session \cup {None} /\ active \in Session \cup {None}
  /\ brief \in [Session -> BriefRows]
  /\ factory \in [s : Session \cup {None}, next : Nat]
  /\ pending \in Seq(Nat)
  /\ queue \in [Session -> Seq(Batches)]
  /\ gets \subseteq Gets
  /\ cmd \in [Command -> CommandRows]
  /\ found \in [interrupted : Session \cup {None}, last : Session \cup {None}]
  /\ due \in [Session -> Nat]

\* A batch is not empty, and its events follow each other from the first.
Consecutive(e, first) == \A i \in 1..Len(e) : e[i] = first + i - 1
Batched(b) ==
  /\ b.events # <<>> /\ Consecutive(b.events, b.events[1])
  /\ b.events[1] >= 1 /\ Last(b) <= MaxEvent

\* Only the first flush of a chain may have been written.
Chains == \A s \in Session : \A i \in 1..Len(queue[s]) :
            Batched(queue[s][i]) /\ (queue[s][i].pc = "written" => i = 1)

\* A file never shrinks, so it has what is counted of it anywhere.
Counts ==
  /\ \A s \in Session :
       /\ disk[s].persisted <= Len(file[s]) /\ disk[s].persisted <= MaxEvent
       /\ \A i \in 1..Len(file[s]) : file[s][i] <= MaxEvent
       /\ due[s] <= Len(file[s])
       /\ s \in Writing => Last(Head(queue[s])) <= Len(file[s])
  /\ \A g \in gets : g.pc = "write" => g.n <= Len(file[g.s]) /\ g.n <= MaxEvent

\* The sessions that somebody has, or is about to have, for its own.
Engaged(s) == s \in owned \/ \E c \in Command : cmd[c].s = s /\ cmd[c].pc \in {"own", "point"}

\* The sessions that the controller and its flushes know.
Known(s) == s \in {factory.s, active} \/ queue[s] # <<>> \/ \E g \in gets : g.s = s /\ g.id # 0

\* What a file says of its session's state, unless events are being counted or could
\* not be.
Numbered(s) == Len(file[s]) <= MaxEvent /\ Consecutive(file[s], 1)
Counted(s) ==
  /\ Status(s) = "interrupted" => disk[s].persisted = Len(file[s])
  /\ Status(s) = "collecting" /\ Engaged(s) /\ s \notin blocked /\ s \notin Writing => disk[s].persisted = Len(file[s])
  /\ s \in Writing => Status(s) \in {"collecting", "interrupted"} /\ Last(Head(queue[s])) = Len(file[s])
Whole(s) ==
  /\ Status(s) = "absent" => file[s] = <<>>
  /\ tail[s] = "torn" => Status(s) = "collecting" /\ (s \in broken \/ ~Engaged(s))
Told(s) == brief[s] # NoBrief => Status(s) \in Terminal /\ brief[s] = [events |-> Len(file[s]), ending |-> Status(s)]
Held(s) == Known(s) => s \in owned \/ Status(s) \in Terminal
IsPast(c) == cmd[c].pc \in {"clear", "unlink", "report"} /\ cmd[c].op # "start"
Past(s) == \A c \in Command : IsPast(c) /\ cmd[c].s = s => Status(s) \in Terminal

Kept(s) == Numbered(s) /\ Counted(s) /\ Whole(s) /\ Told(s) /\ Held(s) /\ Past(s)
Evidence == \A s \in Session \ overtaken : Kept(s)

\* The events up to n of session s are in its file, or a flush of its chain ends with n
\* or later.
Covered(s, n) == n <= Len(file[s]) \/ \E i \in 1..Len(queue[s]) : queue[s][i].events[1] <= n /\ n <= Last(queue[s][i])

\* The numbers the controller has given are in the file, in the chain or pending.
Taken == factory.next - Len(pending)
Numbers ==
  /\ factory.next >= 1 /\ factory.next <= MaxEvent + 1
  /\ failure => factory.s = None
  /\ active # None => factory.s # None
  /\ pending # <<>> => factory.s # None
  /\ factory.s # None => Taken >= 1 /\ Consecutive(pending, Taken) /\ Covered(factory.s, Taken - 1)

\* Where a command is, and what it may rely on there.
Placed(c) ==
  /\ cmd[c].pc \in {"find", "get", "own", "point", "flush", "drain", "ready", "clear", "unlink", "report", "read"} => cmd[c].s # None
  /\ cmd[c].pc = "find" => cmd[c].op = "start"
  /\ cmd[c].pc = "get" => cmd[c].op \in {"resume", "end", "export"}
  /\ cmd[c].pc = "flush" => cmd[c].op \in Finishing
  /\ cmd[c].pc = "ready" => cmd[c].due <= Len(file[cmd[c].s])
  /\ cmd[c].pc = "drain" => Covered(cmd[c].s, cmd[c].due)

\* A command waits for one flush or one get, and knows what it waits for.
Ticketed(g) ==
  /\ g.by = NoCommand => g.id # 0
  /\ g.by # NoCommand =>
       \/ g.id = 0 /\ cmd[g.by].pc \in {"find", "get"}
       \/ g.id # 0 /\ cmd[g.by].pc = "flush" /\ cmd[g.by].due <= Len(file[cmd[g.by].s])
Waited(s, b) == b.by # NoCommand => cmd[b.by].pc = "flush" /\ cmd[b.by].s = s /\ cmd[b.by].due = Last(b)
Tickets ==
  /\ \A g \in gets : Ticketed(g)
  /\ \A s \in Session : \A i \in 1..Len(queue[s]) : Waited(s, queue[s][i])
  /\ \A g, h \in gets : g.by = h.by /\ g.by # NoCommand => g = h
  /\ \A s \in Session : \A i \in 1..Len(queue[s]) : \A g \in gets : g.by = queue[s][i].by => g.by = NoCommand
  /\ \A s \in Session : \A i, j \in 1..Len(queue[s]) :
       queue[s][i].by = queue[s][j].by /\ queue[s][i].by # NoCommand => i = j

IInv == Types /\ Chains /\ Counts /\ Evidence /\ Numbers /\ (\A c \in Command : Placed(c)) /\ Tickets

-----------------------------------------------------------------------------
(* What is known at every state *)

\* None, the number zero, is no session, and no command is called none.
LEMMA NoneNotSession == None \notin Session /\ NoCommand \notin Command
  BY CommandAssumption DEF None, Session, NoCommand

\* The status of a session is what its state says.
LEMMA StatusOf ==
  ASSUME Types, NEW s \in Session
  PROVE  /\ Status(s) = disk[s].status /\ Status(s) \in Statuses
         /\ disk[s].persisted \in Nat /\ Len(file[s]) \in Nat /\ file[s] \in Seq(Nat)
<1>1. disk[s] \in DiskRows /\ file[s] \in Seq(Nat)
  BY DEF Types
<1>2. disk[s].status \in Statuses /\ disk[s].persisted \in Nat /\ Len(file[s]) \in Nat
  BY <1>1 DEF DiskRows
<1>3. Status(s) = disk[s].status
  BY NoneNotSession DEF Status
<1> QED
  BY <1>1, <1>2, <1>3

\* A status that a state has is that of a session.
LEMMA HasState ==
  ASSUME NEW s \in Session \cup {None}, Status(s) # "absent"
  PROVE  s \in Session
  BY DEF Status

\* The first of a chain.
LEMMA FirstOf ==
  ASSUME Types, Chains, NEW s \in Session, queue[s] # <<>>
  PROVE  /\ Head(queue[s]) \in Batches /\ queue[s][1] = Head(queue[s])
         /\ 1 \in 1..Len(queue[s]) /\ Batched(Head(queue[s]))
<1>1. queue[s] \in Seq(Batches)
  BY DEF Types
<1>2. 1 \in 1..Len(queue[s]) /\ queue[s][1] = Head(queue[s]) /\ Head(queue[s]) \in Batches
  BY <1>1
<1> QED
  BY <1>2 DEF Chains

\* The numbers of a batch.
LEMMA BatchNumbers ==
  ASSUME NEW b \in Batches, Batched(b)
  PROVE  /\ b.events \in Seq(Nat) /\ Len(b.events) \in Nat \ {0} /\ b.events[1] \in Nat /\ b.events[1] = Head(b.events)
         /\ Last(b) = b.events[1] + Len(b.events) - 1 /\ Last(b) \in Nat \ {0} /\ b.events[1] <= Last(b)
<1>1. b.events \in Seq(Nat) /\ b.events # <<>>
  BY DEF Batches, Batched
<1>2. Len(b.events) \in Nat /\ Len(b.events) >= 1 /\ b.events[1] \in Nat /\ b.events[1] = Head(b.events)
  BY <1>1
<1>3. b.events[Len(b.events)] = b.events[1] + Len(b.events) - 1 /\ b.events[1] >= 1
  <2>1. PICK m \in Nat : m = Len(b.events) /\ m >= 1
    BY <1>2
  <2>2. m \in 1..m
    BY <2>1
  <2> QED
    BY <2>1, <2>2 DEF Batched, Consecutive
<1> QED
  BY <1>1, <1>2, <1>3, SMTT(30) DEF Last

\* A command that waits for nothing has no flush and no get.
LEMMA NoTicket ==
  ASSUME Tickets, NEW c \in Command, cmd[c].pc \notin {"find", "get", "flush"}
  PROVE  /\ \A g \in gets : g.by # c
         /\ \A s \in Session : \A i \in 1..Len(queue[s]) : queue[s][i].by # c
  BY NoneNotSession DEF Tickets, Ticketed, Waited

-----------------------------------------------------------------------------
(* What a step leaves alone *)

\* A session whose files stay, while its controller and commands let it go or keep it.
LEMMA SessionStays ==
  ASSUME NEW s \in Session, Kept(s),
         disk'[s] = disk[s], file'[s] = file[s], tail'[s] = tail[s], brief'[s] = brief[s],
         (s \in blocked') <=> (s \in blocked), (s \in broken') <=> (s \in broken),
         (s \in Writing)' <=> (s \in Writing),
         s \in Writing => Last(Head(queue'[s])) = Last(Head(queue[s])),
         Engaged(s)' => Engaged(s),
         Known(s)' => Known(s) \/ s \in owned' \/ Status(s) \in Terminal,
         s \in owned => s \in owned' \/ Status(s) \in Terminal,
         \A c \in Command : IsPast(c)' /\ cmd'[c].s = s => (IsPast(c) /\ cmd[c].s = s) \/ Status(s) \in Terminal
  PROVE  Kept(s)'
<1>1. Status(s)' = Status(s)
  BY DEF Status
<1>2. Numbered(s)' /\ Told(s)'
  BY <1>1 DEF Kept, Numbered, Told, Consecutive
<1>3. Last(Head(queue[s]))' = Last(Head(queue'[s]))
  BY DEF Last
<1>4. Counted(s)'
  BY <1>1, <1>3 DEF Kept, Counted
<1>5. Whole(s)'
  BY <1>1 DEF Kept, Whole
<1>6. Held(s)'
  BY <1>1 DEF Kept, Held
<1>7. Past(s)'
  BY <1>1 DEF Kept, Past
<1> QED
  BY <1>2, <1>4, <1>5, <1>6, <1>7 DEF Kept

\* What one command's move means for a session.
LEMMA MoveOf ==
  ASSUME Types, NEW c \in Command, NEW r \in CommandRows, cmd' = [cmd EXCEPT ![c] = r], NEW s \in Session,
         r.pc \in {"own", "point"} /\ r.s = s => Engaged(s),
         s \in owned' => Engaged(s),
         r.pc \in {"clear", "unlink", "report"} /\ r.op # "start" /\ r.s = s =>
           Status(s) \in Terminal \/ (IsPast(c) /\ cmd[c].s = s)
  PROVE  /\ cmd'[c] = r /\ \A d \in Command : d # c => cmd'[d] = cmd[d]
         /\ cmd' \in [Command -> CommandRows]
         /\ Engaged(s)' => Engaged(s)
         /\ \A d \in Command : IsPast(d)' /\ cmd'[d].s = s => (IsPast(d) /\ cmd[d].s = s) \/ Status(s) \in Terminal
<1>1. /\ cmd'[c] = r /\ \A d \in Command : d # c => cmd'[d] = cmd[d]
      /\ cmd' \in [Command -> CommandRows]
  BY DEF Types
<1>2. Engaged(s)' => Engaged(s)
  BY <1>1 DEF Engaged
<1>3. \A d \in Command : IsPast(d)' /\ cmd'[d].s = s => (IsPast(d) /\ cmd[d].s = s) \/ Status(s) \in Terminal
  BY <1>1 DEF IsPast
<1> QED
  BY <1>1, <1>2, <1>3

\* What is counted of the files stays true while they grow.
LEMMA CountsStay ==
  ASSUME Counts, UNCHANGED <<disk, file, queue, due>>, \A g \in gets' : g.pc = "write" => g \in gets
  PROVE  Counts'
<1>1. \A s \in Session : (s \in Writing)' <=> s \in Writing
  BY DEF Writing
<1> QED
  BY <1>1 DEF Counts, Last

\* The controller's numbers stay with the controller and the chains.
LEMMA NumbersStay ==
  ASSUME Numbers, UNCHANGED <<file, queue, factory, pending, failure>>, active' # None => active # None
  PROVE  Numbers'
  BY DEF Numbers, Taken, Covered, Consecutive, Last

\* A controller that has let its session go.
LEMMA Stopped ==
  ASSUME Types, Numbers, Stop
  PROVE  /\ active' = None /\ factory'.s = None /\ pending' = <<>>
         /\ factory' \in [s : Session \cup {None}, next : Nat] /\ Numbers'
<1>1. /\ active' = None /\ factory'.s = None /\ pending' = <<>>
      /\ factory' \in [s : Session \cup {None}, next : Nat] /\ factory'.next >= 1 /\ factory'.next <= MaxEvent + 1
  <2>1. CASE failure
    BY <2>1 DEF Stop, Numbers, Types, controller
  <2>2. CASE ~failure
    BY <2>2, BoundsAssumption DEF Stop, Release, NoFactory
  <2> QED
    BY <2>1, <2>2
<1> QED
  BY <1>1 DEF Numbers

\* The same of a controller that is released.
LEMMA Released ==
  ASSUME Release
  PROVE  /\ active' = None /\ factory'.s = None /\ pending' = <<>>
         /\ factory' \in [s : Session \cup {None}, next : Nat] /\ Numbers'
  BY BoundsAssumption DEF Release, NoFactory, Numbers

\* A command that does not move, while the files and the chains go on.
LEMMA PlacedGrows ==
  ASSUME Types, NEW d \in Command, Placed(d), cmd'[d] = cmd[d],
         \A s \in Session : Len(file'[s]) \in Nat /\ Len(file[s]) <= Len(file'[s]),
         cmd[d].pc = "drain" =>
           \A s \in Session, n \in Nat : s = cmd[d].s /\ n = cmd[d].due /\ Covered(s, n) => Covered(s, n)'
  PROVE  Placed(d)'
<1>1. cmd[d].s \in Session \cup {None} /\ cmd[d].due \in Nat
  BY DEF Types, CommandRows
<1>2. cmd[d].pc = "ready" => cmd[d].due <= Len(file'[cmd[d].s])
  <2>1. \A s \in Session : Len(file[s]) \in Nat
    BY DEF Types
  <2>2. SUFFICES ASSUME cmd[d].pc = "ready", NEW s \in Session, s = cmd[d].s PROVE cmd[d].due <= Len(file'[s])
    BY <1>1 DEF Placed
  <2>3. cmd[d].due <= Len(file[s])
    BY <2>2 DEF Placed
  <2> QED
    BY <1>1, <2>1, <2>3
<1>3. cmd[d].pc = "drain" => Covered(cmd[d].s, cmd[d].due)'
  <2> SUFFICES ASSUME cmd[d].pc = "drain", NEW s \in Session, NEW n \in Nat, s = cmd[d].s, n = cmd[d].due
               PROVE  Covered(s, n)'
    BY <1>1 DEF Placed, Covered
  <2> QED
    BY DEF Placed
<1> QED
  BY <1>2, <1>3 DEF Placed

\* The same while nothing happens to them.
LEMMA PlacedStays ==
  ASSUME Types, NEW d \in Command, Placed(d), cmd'[d] = cmd[d], UNCHANGED <<file, queue>>
  PROVE  Placed(d)'
<1>1. \A s \in Session : Len(file'[s]) \in Nat /\ Len(file[s]) <= Len(file'[s])
  BY DEF Types
<1>2. \A s, n : Covered(s, n) => Covered(s, n)'
  BY DEF Covered, Last
<1> QED
  BY <1>1, <1>2, PlacedGrows

\* The evidence, when a step leaves the files, the owners and the chains alone.
LEMMA EvidenceStays ==
  ASSUME Evidence, UNCHANGED <<disk, file, tail, brief, owned, blocked, broken, overtaken, queue>>,
         \A s \in Session : Known(s)' => Known(s),
         \A s \in Session : Engaged(s)' => Engaged(s),
         \A s \in Session : \A d \in Command :
           IsPast(d)' /\ cmd'[d].s = s => (IsPast(d) /\ cmd[d].s = s) \/ Status(s) \in Terminal
  PROVE  Evidence'
<1> SUFFICES ASSUME NEW s \in Session, s \notin overtaken PROVE Kept(s)'
  BY DEF Evidence
<1>1. Kept(s)
  BY DEF Evidence
<1>2. (s \in Writing)' <=> s \in Writing
  BY DEF Writing
<1> QED
  BY <1>1, <1>2, SessionStays

\* The same when one command moves.
LEMMA EvidenceMoves ==
  ASSUME Types, Evidence, NEW c \in Command, NEW r \in CommandRows, cmd' = [cmd EXCEPT ![c] = r],
         UNCHANGED <<disk, file, tail, brief, owned, blocked, broken, overtaken, queue>>,
         \A s \in Session : Known(s)' => Known(s),
         r.pc \notin {"own", "point"},
         r.pc \in {"clear", "unlink", "report"} /\ r.op # "start" => IsPast(c) /\ cmd[c].s = r.s
  PROVE  Evidence'
<1>1. ASSUME NEW s \in Session
      PROVE  /\ Engaged(s)' => Engaged(s)
             /\ \A d \in Command : IsPast(d)' /\ cmd'[d].s = s => (IsPast(d) /\ cmd[d].s = s) \/ Status(s) \in Terminal
  <2>1. s \in owned' => Engaged(s)
    BY DEF Engaged
  <2>2. r.pc \in {"own", "point"} /\ r.s = s => Engaged(s)
    OBVIOUS
  <2>3. r.pc \in {"clear", "unlink", "report"} /\ r.op # "start" /\ r.s = s =>
          Status(s) \in Terminal \/ (IsPast(c) /\ cmd[c].s = s)
    OBVIOUS
  <2> QED
    BY <2>1, <2>2, <2>3, MoveOf
<1> QED
  BY <1>1, EvidenceStays

\* What others wait for, when a command that waits for nothing moves.
LEMMA TicketsOfOthers ==
  ASSUME Types, Tickets, NEW c \in Command, cmd[c].pc \notin {"find", "get", "flush"},
         \A d \in Command : d # c => cmd'[d] = cmd[d], file' = file
  PROVE  /\ \A g \in gets : Ticketed(g)'
         /\ \A s \in Session : \A i \in 1..Len(queue[s]) : \A b \in Batches : b = queue[s][i] => Waited(s, b)'
<1>1. (\A g \in gets : g.by # c) /\ \A s \in Session : \A i \in 1..Len(queue[s]) : queue[s][i].by # c
  BY NoTicket
<1>2. \A g \in gets : g.by \in Commands
  BY DEF Types, Gets
<1>3. \A g \in gets : Ticketed(g)'
  BY <1>1, <1>2 DEF Tickets, Ticketed, Commands
<1>4. ASSUME NEW s \in Session, NEW i \in 1..Len(queue[s]), NEW b \in Batches, b = queue[s][i] PROVE Waited(s, b)'
  <2>0. Waited(s, b)
    BY <1>4 DEF Tickets
  <2>1. b.by \in Commands /\ b.by # c
    BY <1>1, <1>4 DEF Batches
  <2>2. b.by # NoCommand => cmd'[b.by] = cmd[b.by]
    BY <2>1 DEF Commands
  <2> QED
    BY <2>0, <2>2 DEF Waited
<1> QED
  BY <1>3, <1>4

\* The same when nobody asks for more.
LEMMA TicketsStay ==
  ASSUME Types, Tickets, NEW c \in Command, cmd[c].pc \notin {"find", "get", "flush"},
         \A d \in Command : d # c => cmd'[d] = cmd[d], UNCHANGED <<file, gets, queue>>
  PROVE  Tickets'
<1>1. /\ \A g \in gets : Ticketed(g)'
      /\ \A s \in Session : \A i \in 1..Len(queue[s]) : \A b \in Batches : b = queue[s][i] => Waited(s, b)'
  BY TicketsOfOthers
<1>2. \A s \in Session : \A i \in 1..Len(queue[s]) : queue[s][i] \in Batches
  BY DEF Types
<1>3. \A s \in Session : \A i \in 1..Len(queue[s]) : Waited(s, queue[s][i])'
  BY <1>1, <1>2
<1> QED
  BY <1>1, <1>3 DEF Tickets

FoundRows == [interrupted : Session \cup {None}, last : Session \cup {None}]

\* A command that waits for nothing moves, and does nothing else.
LEMMA PlainMove ==
  ASSUME IInv, NEW c \in Command, NEW r \in CommandRows, cmd' = [cmd EXCEPT ![c] = r],
         UNCHANGED <<disk, file, tail, brief, owned, blocked, broken, overtaken, queue, gets, due, controller>>,
         pointer' \in Session \cup {None}, found' \in FoundRows,
         cmd[c].pc \notin {"find", "get", "flush"}, r.pc \notin {"own", "point", "find", "get", "flush", "ready"},
         r.pc \in {"clear", "unlink", "report", "read", "drain"} => r.s # None,
         r.pc = "drain" => Covered(r.s, r.due),
         r.pc \in {"clear", "unlink", "report"} /\ r.op # "start" => IsPast(c) /\ cmd[c].s = r.s
  PROVE  IInv'
<1> USE DEF controller
<1>1. cmd'[c] = r /\ (\A d \in Command : d # c => cmd'[d] = cmd[d]) /\ cmd' \in [Command -> CommandRows]
  BY DEF IInv, Types
<1>2. Types'
  BY <1>1 DEF IInv, Types, FoundRows
<1>3. Chains' /\ Counts' /\ Numbers'
  BY CountsStay, NumbersStay DEF IInv, Chains, Batched, Consecutive, Last
<1>4. Evidence'
  <2>1. \A s \in Session : Known(s)' => Known(s)
    BY DEF Known
  <2> QED
    BY <2>1, EvidenceMoves DEF IInv
<1>5. ASSUME NEW d \in Command PROVE Placed(d)'
  <2>1. CASE d = c
    <3>1. r.pc = "drain" => Covered(r.s, r.due)'
      BY DEF Covered, Last
    <3> QED
      BY <1>1, <2>1, <3>1 DEF Placed, Covered, Last
  <2>2. CASE d # c
    BY <1>1, <2>2, PlacedStays DEF IInv
  <2> QED
    BY <2>1, <2>2
<1>6. Tickets'
  BY <1>1, TicketsStay DEF IInv
<1> QED
  BY <1>2, <1>3, <1>4, <1>5, <1>6 DEF IInv

\* A command that waits for nothing asks for a session's state.
LEMMA GetMove ==
  ASSUME IInv, NEW c \in Command, NEW r \in CommandRows, cmd' = [cmd EXCEPT ![c] = r],
         NEW x \in Session, NewGet(x, c, 0),
         UNCHANGED <<disk, file, tail, pointer, brief, owned, blocked, broken, overtaken, queue, due, controller, found>>,
         cmd[c].pc \notin {"find", "get", "flush"},
         (r.pc = "find" /\ r.op = "start") \/ (r.pc = "get" /\ r.op \in {"resume", "end", "export"}),
         r.s = x
  PROVE  IInv'
<1> USE DEF controller
<1> DEFINE g0 == [s |-> x, by |-> c, id |-> 0, pc |-> "read", saw |-> "absent", n |-> 0]
<1>1. cmd'[c] = r /\ (\A d \in Command : d # c => cmd'[d] = cmd[d]) /\ cmd' \in [Command -> CommandRows]
  BY DEF IInv, Types
<1>2. /\ gets' = gets \cup {g0} /\ g0 \in Gets
      /\ g0.by = c /\ g0.id = 0 /\ g0.s = x /\ g0.pc = "read"
  BY DEF NewGet, Gets, Commands, Statuses
<1> HIDE DEF g0
<1>3. Types'
  BY <1>1, <1>2 DEF IInv, Types
<1>4. Chains' /\ Counts' /\ Numbers'
  BY <1>2, CountsStay, NumbersStay DEF IInv, Chains, Batched, Consecutive, Last
<1>5. Evidence'
  <2>1. \A s \in Session : Known(s)' => Known(s)
    BY <1>2 DEF Known
  <2> QED
    BY <2>1, EvidenceMoves DEF IInv
<1>6. ASSUME NEW d \in Command PROVE Placed(d)'
  <2>1. CASE d = c
    BY <1>1, <2>1, NoneNotSession DEF Placed
  <2>2. CASE d # c
    BY <1>1, <2>2, PlacedStays DEF IInv
  <2> QED
    BY <2>1, <2>2
<1>7. Tickets'
  <2>1. (\A g \in gets : g.by # c) /\ \A s \in Session : \A i \in 1..Len(queue[s]) : queue[s][i].by # c
    BY NoTicket DEF IInv
  <2>3. \A g \in gets' : Ticketed(g)'
    <3>1. \A g \in gets : Ticketed(g)'
      BY <1>1, TicketsOfOthers DEF IInv
    <3>2. Ticketed(g0)'
      BY <1>1, <1>2, NoneNotSession DEF Ticketed
    <3> QED
      BY <1>2, <3>1, <3>2
  <2>4. \A s \in Session : \A i \in 1..Len(queue[s]) : Waited(s, queue[s][i])'
    <3>1. \A s \in Session : \A i \in 1..Len(queue[s]) : \A b \in Batches : b = queue[s][i] => Waited(s, b)'
      BY <1>1, TicketsOfOthers DEF IInv
    <3>2. \A s \in Session : \A i \in 1..Len(queue[s]) : queue[s][i] \in Batches
      BY DEF IInv, Types
    <3> QED
      BY <3>1, <3>2
  <2>5. \A g, h \in gets' : g.by = h.by /\ g.by # NoCommand => g = h
    BY <1>2, <2>1 DEF IInv, Tickets
  <2>6. \A s \in Session : \A i \in 1..Len(queue[s]) : \A g \in gets' : g.by = queue[s][i].by => g.by = NoCommand
    BY <1>2, <2>1 DEF IInv, Tickets
  <2> QED
    BY <2>3, <2>4, <2>5, <2>6 DEF IInv, Tickets
<1> QED
  BY <1>3, <1>4, <1>5, <1>6, <1>7 DEF IInv

\* What a command at rest looks like.
LEMMA IdleRow ==
  /\ Idle \in CommandRows
  /\ Idle.op = "idle" /\ Idle.pc = "idle" /\ Idle.s = None /\ Idle.outcome = "completed"
  BY DEF Idle, CommandRows, Ops, Places, Terminal

\* What changing one part of a command's row gives.
LEMMA WithPlace ==
  ASSUME NEW r \in CommandRows, NEW p \in Places
  PROVE  LET q == [r EXCEPT !.pc = p]
         IN  q \in CommandRows /\ q.pc = p /\ q.op = r.op /\ q.s = r.s /\ q.outcome = r.outcome /\ q.due = r.due
  BY DEF CommandRows

\* The same of the operation.
LEMMA WithOp ==
  ASSUME NEW r \in CommandRows, NEW o \in Ops
  PROVE  LET q == [r EXCEPT !.op = o]
         IN  q \in CommandRows /\ q.op = o /\ q.pc = r.pc /\ q.s = r.s /\ q.outcome = r.outcome
  BY DEF CommandRows

\* The same of the session.
LEMMA WithSession ==
  ASSUME NEW r \in CommandRows, NEW s \in Session \cup {None}
  PROVE  LET q == [r EXCEPT !.s = s]
         IN  q \in CommandRows /\ q.s = s /\ q.pc = r.pc /\ q.op = r.op /\ q.outcome = r.outcome /\ q.due = r.due
  BY DEF CommandRows

\* The same of the outcome.
LEMMA WithOutcome ==
  ASSUME NEW r \in CommandRows, NEW o \in Terminal
  PROVE  LET q == [r EXCEPT !.outcome = o] IN q \in CommandRows /\ q.pc = r.pc /\ q.op = r.op /\ q.s = r.s
  BY DEF CommandRows

\* The same of the session before.
LEMMA WithBefore ==
  ASSUME NEW r \in CommandRows, NEW b \in Session \cup {None}
  PROVE  LET q == [r EXCEPT !.before = b] IN q \in CommandRows /\ q.pc = r.pc /\ q.op = r.op /\ q.s = r.s
  BY DEF CommandRows

\* The same of what is due.
LEMMA WithDue ==
  ASSUME NEW r \in CommandRows, NEW n \in Nat
  PROVE  LET q == [r EXCEPT !.due = n]
         IN  q \in CommandRows /\ q.pc = r.pc /\ q.op = r.op /\ q.s = r.s /\ q.due = n /\ q.outcome = r.outcome
  BY DEF CommandRows

\* The operations, places and endings by their names.
LEMMA Names ==
  /\ {"idle", "start", "resume", "end", "finish", "finishAnalyzeExport", "analyze", "export"} \subseteq Ops
  /\ {"pointer", "find", "get", "ask", "flush", "drain", "read", "own", "point", "state", "clear"} \subseteq Places
  /\ {"ready", "files", "manifest", "report", "resume", "unlink", "finalizing", "failed"} \subseteq Places
  /\ {"completed", "partial", "abandoned"} \subseteq Terminal
  BY DEF Ops, Places, Terminal

\* The rows of commands that begin.
RowAt(o, p) == [Idle EXCEPT !.op = o, !.pc = p]
RowOf(o, p, s) == [Idle EXCEPT !.op = o, !.pc = p, !.s = s]

\* What they hold.
LEMMA Begun ==
  ASSUME NEW o \in Ops, NEW p \in Places, NEW s \in Session \cup {None}
  PROVE  /\ RowAt(o, p) \in CommandRows /\ RowAt(o, p).op = o /\ RowAt(o, p).pc = p
         /\ RowOf(o, p, s) \in CommandRows /\ RowOf(o, p, s).op = o /\ RowOf(o, p, s).pc = p /\ RowOf(o, p, s).s = s
<1> DEFINE a == [Idle EXCEPT !.op = o]
           b == [a EXCEPT !.pc = p]
           d == [b EXCEPT !.s = s]
<1>1. b = RowAt(o, p) /\ d = RowOf(o, p, s)
  BY DEF RowAt, RowOf
<1>2. a \in CommandRows /\ a.op = o
  BY IdleRow, WithOp
<1> HIDE DEF a
<1>3. b \in CommandRows /\ b.op = o /\ b.pc = p
  BY <1>2, WithPlace
<1> HIDE DEF b
<1>4. d \in CommandRows /\ d.op = o /\ d.pc = p /\ d.s = s
  BY <1>3, WithSession
<1> HIDE DEF d
<1> QED
  BY <1>1, <1>3, <1>4

\* A command moves to a place.
LEMMA StepRow ==
  ASSUME Types, NEW c \in Command, NEW p \in Places, Step(c, p)
  PROVE  \E r \in CommandRows :
           /\ cmd' = [cmd EXCEPT ![c] = r] /\ r.pc = p /\ r.op = cmd[c].op /\ r.s = cmd[c].s
           /\ r.outcome = cmd[c].outcome /\ r.due = cmd[c].due /\ found' = found
<1>1. cmd[c] \in CommandRows
  BY DEF Types
<1>2. PICK r : r = [cmd[c] EXCEPT !.pc = p]
  OBVIOUS
<1>3. r \in CommandRows /\ r.pc = p /\ r.op = cmd[c].op /\ r.s = cmd[c].s /\ r.outcome = cmd[c].outcome /\ r.due = cmd[c].due
  BY <1>1, <1>2, WithPlace
<1> QED
  BY <1>2, <1>3 DEF Step, Go

\* A command ends.
LEMMA EndsRow ==
  ASSUME Types, NEW c \in Command, Ends(c)
  PROVE  cmd' = [cmd EXCEPT ![c] = Idle] /\ found' \in FoundRows
<1>1. cmd[c] \in CommandRows
  BY DEF Types
<1>2. cmd[c].before \in Session \cup {None}
  BY <1>1 DEF CommandRows
<1> QED
  BY <1>2 DEF Ends, Types, FoundRows

\* What a plain move leaves alone.
Ground == <<disk, file, tail, brief, owned, blocked, broken, overtaken, queue, gets, due, controller>>

\* A command that waits for nothing ends.
LEMMA EndsKeeps ==
  ASSUME IInv, NEW c \in Command, Ends(c), UNCHANGED Ground, pointer' \in Session \cup {None},
         cmd[c].pc \notin {"find", "get", "flush"}
  PROVE  IInv'
<1>1. cmd' = [cmd EXCEPT ![c] = Idle] /\ found' \in FoundRows
  BY EndsRow DEF IInv
<1> QED
  BY <1>1, IdleRow, PlainMove DEF Ground

\* A command that waits for nothing goes on.
LEMMA StepKeeps ==
  ASSUME IInv, NEW c \in Command, NEW p \in Places, Step(c, p), UNCHANGED Ground, pointer' \in Session \cup {None},
         cmd[c].pc \notin {"find", "get", "flush"},
         p \notin {"own", "point", "find", "get", "flush", "drain", "ready"},
         p \in {"clear", "unlink", "report", "read"} => cmd[c].s # None,
         p \in {"clear", "unlink", "report"} /\ cmd[c].op # "start" => IsPast(c)
  PROVE  IInv'
<1>1. PICK r \in CommandRows : cmd' = [cmd EXCEPT ![c] = r] /\ r.pc = p /\ r.op = cmd[c].op /\ r.s = cmd[c].s /\ found' = found
  BY StepRow DEF IInv
<1>2. found' \in FoundRows
  BY <1>1 DEF IInv, Types, FoundRows
<1> QED
  BY <1>1, <1>2, PlainMove DEF Ground

\* A command that is given and has no session to ask for.
LEMMA GoKeeps ==
  ASSUME IInv, NEW c \in Command, NEW r \in CommandRows, Go(c, r), UNCHANGED Ground, UNCHANGED pointer,
         cmd[c].pc \notin {"find", "get", "flush"},
         r.pc \in {"pointer", "ask"} \/ (r.pc = "read" /\ r.s # None)
  PROVE  IInv'
<1>1. cmd' = [cmd EXCEPT ![c] = r] /\ found' \in FoundRows /\ pointer' \in Session \cup {None}
  BY DEF Go, IInv, Types, FoundRows
<1> QED
  BY <1>1, PlainMove DEF Ground

-----------------------------------------------------------------------------
(* Commands that begin, and those that touch no session's state *)

\* A start is given.
LEMMA StartKeeps == ASSUME IInv, NEW c \in Command, Start(c) PROVE IInv'
<1>1. PICK r : r = RowAt("start", "pointer")
  OBVIOUS
<1>2. r \in CommandRows /\ r.pc = "pointer"
  <2>1. "start" \in Ops /\ "pointer" \in Places
    BY Names
  <2> QED
    BY <1>1, <2>1, Begun
<1>3. Go(c, r) /\ cmd[c].pc = "idle" /\ UNCHANGED Ground /\ UNCHANGED pointer
  BY <1>1, IdleRow DEF RowAt, Start, Ground, files, made, memory, flows, told
<1> QED
  BY <1>2, <1>3, GoKeeps

\* The workspace's pointer is read, and what it names is asked for.
LEMMA StartFindKeeps == ASSUME IInv, NEW c \in Command, StartFind(c) PROVE IInv'
<1>1. cmd[c].op = "start" /\ cmd[c].pc = "pointer" /\ pointer \in Session \cup {None} /\ UNCHANGED pointer
  BY DEF StartFind, At, IInv, Types, files
<1>2. CASE pointer = None
  <2>1. Step(c, "state") /\ UNCHANGED Ground
    BY <1>2 DEF StartFind, Ground, files, made, memory, told
  <2> QED
    BY <1>1, <2>1, StepKeeps DEF Places
<1>3. CASE pointer # None
  <2>1. PICK a : a = [cmd[c] EXCEPT !.pc = "find"]
    OBVIOUS
  <2>2. a \in CommandRows /\ a.pc = "find" /\ a.op = "start"
    <3>1. cmd[c] \in CommandRows /\ "find" \in Places
      BY DEF IInv, Types, Places
    <3> QED
      BY <1>1, <2>1, <3>1, WithPlace
  <2>3. PICK r : r = [a EXCEPT !.s = pointer]
    OBVIOUS
  <2>4. r \in CommandRows /\ r.pc = "find" /\ r.op = "start" /\ r.s = pointer
    BY <1>1, <2>2, <2>3, WithSession
  <2>5. r = [cmd[c] EXCEPT !.pc = "find", !.s = pointer]
    BY <2>1, <2>3
  <2>6. Go(c, r) /\ NewGet(pointer, c, 0)
    BY <1>3, <2>5 DEF StartFind
  <2>7. UNCHANGED <<disk, file, tail, pointer, brief, owned, blocked, broken, overtaken, queue, due, controller, found>>
    BY <2>6 DEF StartFind, files, made, memory, told, Go
  <2>8. pointer \in Session
    BY <1>1, <1>3
  <2> QED
    BY <1>1, <2>4, <2>6, <2>7, <2>8, GetMove DEF Go
<1> QED
  BY <1>2, <1>3

\* A finish is given.
LEMMA FinishKeeps == ASSUME IInv, NEW c \in Command, Finish(c) PROVE IInv'
<1>1. cmd[c].pc = "idle" /\ UNCHANGED Ground /\ UNCHANGED pointer /\ active \in Session \cup {None}
  BY IdleRow DEF Finish, Ground, files, made, memory, flows, told, IInv, Types
<1>2. ASSUME NEW o \in {"completed", "abandoned"}, NEW p \in {"finish", "finishAnalyzeExport"}
      PROVE  /\ [Idle EXCEPT !.op = p, !.pc = "ask", !.outcome = o, !.before = active] \in CommandRows
             /\ [Idle EXCEPT !.op = p, !.pc = "ask", !.outcome = o, !.before = active].pc = "ask"
             /\ [Idle EXCEPT !.op = p, !.pc = "ask", !.before = active] \in CommandRows
             /\ [Idle EXCEPT !.op = p, !.pc = "ask", !.before = active].pc = "ask"
  <2>1. PICK a : a = RowAt(p, "ask")
    OBVIOUS
  <2>2. a \in CommandRows /\ a.pc = "ask"
    BY <2>1, Begun, Names
  <2>3. PICK b : b = [a EXCEPT !.outcome = o]
    OBVIOUS
  <2>4. b \in CommandRows /\ b.pc = "ask"
    BY <2>2, <2>3, WithOutcome, Names
  <2>5. PICK d : d = [b EXCEPT !.before = active]
    OBVIOUS
  <2>6. d \in CommandRows /\ d.pc = "ask"
    BY <1>1, <2>4, <2>5, WithBefore
  <2>7. PICK e : e = [a EXCEPT !.before = active]
    OBVIOUS
  <2>8. e \in CommandRows /\ e.pc = "ask"
    BY <1>1, <2>2, <2>7, WithBefore
  <2>9. d = [Idle EXCEPT !.op = p, !.pc = "ask", !.outcome = o, !.before = active]
    BY <2>1, <2>3, <2>5 DEF RowAt
  <2>10. e = [Idle EXCEPT !.op = p, !.pc = "ask", !.before = active]
    BY <2>1, <2>7 DEF RowAt
  <2> QED
    BY <2>6, <2>8, <2>9, <2>10
<1>3. \E r \in CommandRows : Go(c, r) /\ r.pc = "ask"
  BY <1>2 DEF Finish
<1> QED
  BY <1>1, <1>3, GoKeeps

\* The row of a command that begins with an outcome.
LEMMA ResumeRow ==
  ASSUME NEW s \in Session
  PROVE  /\ LET r == [Idle EXCEPT !.op = "resume", !.pc = "get", !.s = s]
            IN  r \in CommandRows /\ r.op = "resume" /\ r.pc = "get" /\ r.s = s
         /\ LET r == [Idle EXCEPT !.op = "end", !.pc = "get", !.s = s, !.outcome = "partial"]
            IN  r \in CommandRows /\ r.op = "end" /\ r.pc = "get" /\ r.s = s
<1>1. PICK a : a = RowOf("resume", "get", s)
  OBVIOUS
<1>2. a \in CommandRows /\ a.op = "resume" /\ a.pc = "get" /\ a.s = s
  BY <1>1, Begun, Names
<1>3. PICK b : b = RowOf("end", "get", s)
  OBVIOUS
<1>4. b \in CommandRows /\ b.op = "end" /\ b.pc = "get" /\ b.s = s
  BY <1>3, Begun, Names
<1>5. PICK d : d = [b EXCEPT !.outcome = "partial"]
  OBVIOUS
<1>6. d \in CommandRows /\ d.op = "end" /\ d.pc = "get" /\ d.s = s
  BY <1>4, <1>5, WithOutcome, Names
<1>7. d = [Idle EXCEPT !.op = "end", !.pc = "get", !.s = s, !.outcome = "partial"]
  BY <1>3, <1>5 DEF RowOf
<1> QED
  BY <1>1, <1>2, <1>6, <1>7 DEF RowOf

\* A resumption is given.
LEMMA ResumeKeeps == ASSUME IInv, NEW c \in Command, Resume(c) PROVE IInv'
<1>1. /\ cmd[c].pc = "idle" /\ found.interrupted \in Session /\ NewGet(found.interrupted, c, 0)
      /\ UNCHANGED <<disk, file, tail, pointer, brief, owned, blocked, broken, overtaken, queue, due, controller>>
  BY IdleRow DEF Resume, files, made, memory, told, IInv, Types
<1>2. \E r \in CommandRows : Go(c, r) /\ r.op \in {"resume", "end"} /\ r.pc = "get" /\ r.s = found.interrupted
  <2>1. PICK s \in Session : s = found.interrupted
    BY <1>1
  <2>2. PICK a : a = [Idle EXCEPT !.op = "resume", !.pc = "get", !.s = s]
    OBVIOUS
  <2>3. PICK b : b = [Idle EXCEPT !.op = "end", !.pc = "get", !.s = s, !.outcome = "partial"]
    OBVIOUS
  <2>4. a \in CommandRows /\ a.op = "resume" /\ a.pc = "get" /\ a.s = s
    BY <2>2, ResumeRow
  <2>5. b \in CommandRows /\ b.op = "end" /\ b.pc = "get" /\ b.s = s
    BY <2>3, ResumeRow
  <2>6. Go(c, a) \/ Go(c, b)
    BY <2>1, <2>2, <2>3 DEF Resume
  <2> QED
    BY <2>1, <2>4, <2>5, <2>6
<1> QED
  BY <1>1, <1>2, GetMove DEF Go

\* An analysis or an export is asked for.
LEMMA AskKeeps == ASSUME IInv, NEW c \in Command, Ask(c) PROVE IInv'
<1>1. /\ cmd[c].pc = "idle" /\ found.last \in Session \cup {None} /\ active \in Session \cup {None}
      /\ UNCHANGED <<disk, file, tail, pointer, brief, owned, blocked, broken, overtaken, queue, due, controller>>
  BY IdleRow DEF Ask, files, made, memory, told, IInv, Types
<1>2. CASE /\ found.last # None /\ UNCHANGED gets
           /\ Go(c, [Idle EXCEPT !.op = "analyze", !.pc = "read", !.s = found.last])
  <2>0. PICK s \in Session \cup {None} : s = found.last
    BY <1>1
  <2>1. PICK r : r = RowOf("analyze", "read", s)
    OBVIOUS
  <2>2. r \in CommandRows /\ r.pc = "read" /\ r.s = found.last
    BY <2>0, <2>1, Begun, Names
  <2> QED
    BY <1>1, <1>2, <2>0, <2>1, <2>2, GoKeeps DEF Ground, RowOf
<1>3. ASSUME NEW s \in Session, Go(c, [Idle EXCEPT !.op = "export", !.pc = "get", !.s = s]), NewGet(s, c, 0)
      PROVE  IInv'
  <2>1. PICK r : r = RowOf("export", "get", s)
    OBVIOUS
  <2>2. r \in CommandRows /\ r.op = "export" /\ r.pc = "get" /\ r.s = s
    <3>1. "export" \in Ops /\ "get" \in Places
      BY Names
    <3> QED
      BY <2>1, <3>1, Begun
  <2> QED
    BY <1>1, <1>3, <2>1, <2>2, GetMove DEF Go, RowOf
<1>4. (found.last # None => found.last \in Session) /\ (active # None => active \in Session)
  BY <1>1
<1> QED
  BY <1>2, <1>3, <1>4 DEF Ask

\* An analysis is written, and a combined command goes on with its export.
LEMMA AnalyzeKeeps == ASSUME IInv, NEW c \in Command, Analyze(c) PROVE IInv'
<1>1. /\ cmd[c].pc = "read"
      /\ UNCHANGED <<disk, file, tail, pointer, brief, owned, blocked, broken, overtaken, queue, due, controller>>
      /\ pointer \in Session \cup {None}
  BY DEF Analyze, At, files, memory, told, IInv, Types
<1>2. CASE Ends(c) /\ UNCHANGED gets
  BY <1>1, <1>2, EndsKeeps DEF Ground
<1>3. CASE Go(c, [cmd[c] EXCEPT !.op = "export", !.pc = "get"]) /\ NewGet(cmd[c].s, c, 0)
  <2>1. cmd[c] \in CommandRows /\ cmd[c].s \in Session
    <3>1. cmd[c].s # None
      BY <1>1 DEF IInv, Placed
    <3> QED
      BY <3>1 DEF IInv, Types, CommandRows
  <2>2. PICK a : a = [cmd[c] EXCEPT !.op = "export"]
    OBVIOUS
  <2>3. a \in CommandRows /\ a.op = "export" /\ a.s = cmd[c].s
    BY <2>1, <2>2, WithOp DEF Ops
  <2>4. PICK r : r = [a EXCEPT !.pc = "get"]
    OBVIOUS
  <2>5. r \in CommandRows /\ r.op = "export" /\ r.pc = "get" /\ r.s = cmd[c].s
    BY <2>3, <2>4, WithPlace, Names
  <2>6. r = [cmd[c] EXCEPT !.op = "export", !.pc = "get"]
    BY <2>2, <2>4
  <2> QED
    BY <1>1, <1>3, <2>1, <2>5, <2>6, GetMove DEF Go
<1> QED
  BY <1>2, <1>3 DEF Analyze

\* An export writes its files, and a command whose flush failed ends.
LEMMA ExportKeeps == ASSUME IInv, NEW c \in Command, ExportFiles(c) \/ ExportManifest(c) \/ Failed(c) PROVE IInv'
<1>1. /\ cmd[c].pc \in {"files", "manifest", "failed"} /\ UNCHANGED Ground /\ pointer' \in Session \cup {None}
      /\ Ends(c) \/ Step(c, "manifest")
  BY DEF ExportFiles, ExportManifest, Failed, At, Ground, files, made, memory, flows, told, IInv, Types
<1> QED
  BY <1>1, EndsKeeps, StepKeeps DEF Places

-----------------------------------------------------------------------------
(* A session's state is written *)

\* A command that waits for nothing writes the state of session x.
LEMMA StateMove ==
  ASSUME IInv, NEW c \in Command, NEW r \in CommandRows, cmd' = [cmd EXCEPT ![c] = r], found' = found,
         NEW x \in Session, NEW row \in DiskRows, disk' = [disk EXCEPT ![x] = row],
         row.persisted <= Len(file[x]), row.persisted <= MaxEvent,
         due' \in [Session -> Nat], \A s \in Session : due'[s] <= Len(file[s]),
         UNCHANGED <<file, tail, pointer, brief, owned, blocked, broken, overtaken, queue, gets, controller>>,
         cmd[c].pc \notin {"find", "get", "flush"}, r.pc \in {"finalizing", "clear", "own", "point"}, r.s = x,
         x \notin overtaken => Kept(x)'
  PROVE  IInv'
<1> USE DEF controller
<1>1. cmd'[c] = r /\ (\A d \in Command : d # c => cmd'[d] = cmd[d]) /\ cmd' \in [Command -> CommandRows]
  BY DEF IInv, Types
<1>2. disk' \in [Session -> DiskRows] /\ disk'[x] = row /\ \A s \in Session : s # x => disk'[s] = disk[s]
  BY DEF IInv, Types
<1>3. Types'
  BY <1>1, <1>2 DEF IInv, Types
<1>4. Chains' /\ Numbers'
  BY NumbersStay DEF IInv, Chains, Batched, Consecutive, Last
<1>5. \A s \in Session : (s \in Writing)' <=> s \in Writing
  BY DEF Writing
<1>6. Counts'
  BY <1>2, <1>5 DEF IInv, Counts, Last
<1>7. Evidence'
  <2> SUFFICES ASSUME NEW s \in Session, s \notin overtaken, s # x PROVE Kept(s)'
    BY DEF Evidence
  <2>1. Kept(s) /\ disk'[s] = disk[s]
    BY <1>2 DEF IInv, Evidence
  <2>2. s \in owned' => Engaged(s)
    BY DEF Engaged
  <2>3. /\ Engaged(s)' => Engaged(s)
        /\ \A d \in Command : IsPast(d)' /\ cmd'[d].s = s => (IsPast(d) /\ cmd[d].s = s) \/ Status(s) \in Terminal
    BY <2>2, MoveOf DEF IInv
  <2>4. Known(s)' => Known(s)
    BY DEF Known
  <2> QED
    BY <1>5, <2>1, <2>3, <2>4, SessionStays
<1>8. ASSUME NEW d \in Command PROVE Placed(d)'
  <2>1. CASE d = c
    BY <1>1, <2>1, NoneNotSession DEF Placed
  <2>2. CASE d # c
    BY <1>1, <2>2, PlacedStays DEF IInv
  <2> QED
    BY <2>1, <2>2
<1>9. Tickets'
  BY <1>1, TicketsStay DEF IInv
<1> QED
  BY <1>3, <1>4, <1>6, <1>7, <1>8, <1>9 DEF IInv

\* What a session keeps when a command changes its status to one that has ended, or that
\* still has to, while nobody writes to it and its file is whole.
LEMMA StatusKept ==
  ASSUME IInv, NEW c \in Command, NEW r \in CommandRows, cmd' = [cmd EXCEPT ![c] = r],
         NEW x \in Session, NEW row \in DiskRows, disk' = [disk EXCEPT ![x] = row],
         UNCHANGED <<file, tail, pointer, brief, owned, blocked, broken, overtaken, queue, gets, controller>>,
         x \notin overtaken, x \notin Writing, Status(x) \notin Terminal, tail[x] # "torn",
         row.status \in Terminal \/ (row.status \in {"collecting", "finalizing"} /\ r.pc \in {"finalizing", "own", "point"}),
         row.status = "collecting" => row.persisted = Len(file[x])
  PROVE  Kept(x)'
<1> USE DEF controller
<1>1. cmd'[c] = r /\ (\A d \in Command : d # c => cmd'[d] = cmd[d])
  BY DEF IInv, Types
<1>2. disk'[x] = row /\ Status(x)' = row.status
  BY NoneNotSession DEF IInv, Types, Status
<1>3. Kept(x) /\ ~(x \in Writing)'
  BY DEF IInv, Evidence, Writing
<1>4. Numbered(x)'
  BY <1>3 DEF Kept, Numbered, Consecutive
<1>5. row.status \notin {"absent", "interrupted"}
  BY DEF Terminal
<1>6. Counted(x)'
  BY <1>2, <1>3, <1>5 DEF Counted
<1>7. Whole(x)'
  BY <1>2, <1>5 DEF Whole
<1>8. Told(x)'
  BY <1>3 DEF Kept, Told
<1>9. Held(x)'
  <2>1. Known(x)' => Known(x)
    BY DEF Known
  <2> QED
    BY <1>3, <2>1 DEF Kept, Held
<1>10. Past(x)'
  <2>1. CASE row.status \in Terminal
    BY <1>2, <2>1 DEF Past
  <2>2. CASE r.pc \in {"finalizing", "own", "point"}
    BY <1>1, <1>3, <2>2 DEF Kept, Past, IsPast
  <2> QED
    BY <2>1, <2>2
<1> QED
  BY <1>4, <1>6, <1>7, <1>8, <1>9, <1>10 DEF Kept

\* A row of the state with another status.
LEMMA WithStatus ==
  ASSUME NEW old \in DiskRows, NEW st \in Statuses, NEW row, row = [old EXCEPT !.status = st]
  PROVE  row \in DiskRows /\ row.status = st /\ row.persisted = old.persisted
  BY DEF DiskRows

\* The first transition of a finish.
LEMMA FinalizeKeeps == ASSUME IInv, NEW c \in Command, Finalize(c) PROVE IInv'
<1>1. /\ UNCHANGED <<file, tail, pointer, brief, owned, blocked, broken, overtaken, queue, gets, controller>>
      /\ cmd[c].op \in Finishing /\ cmd[c].pc \in {"ready", "drain"} /\ Flushed(c) /\ pointer' \in Session \cup {None}
  BY DEF Finalize, Flushed, files, made, memory, flows, IInv, Types
<1>2. CASE Ends(c) /\ UNCHANGED <<disk, due>>
  BY <1>1, <1>2, EndsKeeps DEF Ground
<1>3. CASE /\ MayLeave(active, "collecting") /\ disk' = [disk EXCEPT ![active].status = "finalizing"]
           /\ Go(c, [cmd[c] EXCEPT !.pc = "finalizing", !.s = active])
           /\ due' = [due EXCEPT ![active] = IF cmd[c].s = active THEN cmd[c].due ELSE 0]
  <2>1. PICK x \in Session : x = active /\ Status(x) = "collecting" /\ x \notin broken
    <3>1. active \in Session \cup {None} /\ Status(active) = "collecting" /\ active \notin broken
      BY <1>3 DEF MayLeave, IInv, Types
    <3> QED
      BY <3>1, HasState
  <2>2. PICK row \in DiskRows : /\ disk' = [disk EXCEPT ![x] = row]
                                /\ row.status = "finalizing" /\ row.persisted = disk[x].persisted
    <3>1. "finalizing" \in Statuses
      BY DEF Statuses, Active
    <3>2. PICK row : row = [disk[x] EXCEPT !.status = "finalizing"]
      OBVIOUS
    <3>3. disk' = [disk EXCEPT ![x] = row]
      BY <1>3, <2>1, <3>2
    <3>4. disk[x] \in DiskRows
      BY DEF IInv, Types
    <3>5. row \in DiskRows /\ row.status = "finalizing" /\ row.persisted = disk[x].persisted
      BY <3>1, <3>2, <3>4, WithStatus
    <3> QED
      BY <3>3, <3>5
  <2>3. PICK a : a = [cmd[c] EXCEPT !.pc = "finalizing"]
    OBVIOUS
  <2>4. a \in CommandRows /\ a.pc = "finalizing"
    <3>1. cmd[c] \in CommandRows /\ "finalizing" \in Places
      BY DEF IInv, Types, Places
    <3> QED
      BY <2>3, <3>1, WithPlace
  <2>5. PICK r : r = [a EXCEPT !.s = x]
    OBVIOUS
  <2>6. r \in CommandRows /\ r.pc = "finalizing" /\ r.s = x
    BY <2>4, <2>5, WithSession
  <2>7. cmd' = [cmd EXCEPT ![c] = r] /\ found' = found
    <3>1. r = [cmd[c] EXCEPT !.pc = "finalizing", !.s = active]
      BY <2>1, <2>3, <2>5
    <3> QED
      BY <1>3, <3>1 DEF Go
  <2>8. cmd[c].s = x => cmd[c].due <= Len(file[x])
    <3> SUFFICES ASSUME cmd[c].s = x PROVE cmd[c].due <= Len(file[x])
      OBVIOUS
    <3>1. CASE cmd[c].pc = "ready"
      BY <3>1 DEF IInv, Placed
    <3>2. CASE cmd[c].pc = "drain"
      <4>1. Covered(x, cmd[c].due) /\ \A i \in DOMAIN queue[x] : ~Awaits(c, queue[x][i])
        BY <1>1, <3>2 DEF IInv, Placed, Flushed
      <4>2. queue[x] \in Seq(Batches)
        BY DEF IInv, Types
      <4>3. ASSUME NEW i \in 1..Len(queue[x]) PROVE ~(queue[x][i].events[1] <= cmd[c].due)
        <5>1. i \in DOMAIN queue[x] /\ queue[x][i] \in Batches /\ Batched(queue[x][i])
          BY <4>2 DEF IInv, Chains
        <5>2. queue[x][i].events[1] = Head(queue[x][i].events)
          BY <5>1, BatchNumbers
        <5> QED
          BY <3>2, <4>1, <5>1, <5>2 DEF Awaits
      <4> QED
        BY <4>1, <4>3 DEF Covered
    <3> QED
      BY <1>1, <3>1, <3>2
  <2>9. due' \in [Session -> Nat] /\ \A s \in Session : due'[s] <= Len(file[s])
    <3>1. PICK n \in Nat : n = (IF cmd[c].s = x THEN cmd[c].due ELSE 0) /\ n <= Len(file[x])
      <4>1. cmd[c].due \in Nat /\ Len(file[x]) \in Nat
        <5>1. cmd[c] \in CommandRows /\ file[x] \in Seq(Nat)
          BY DEF IInv, Types
        <5> QED
          BY <5>1 DEF CommandRows
      <4> QED
        BY <2>8, <4>1
    <3>2. due' = [due EXCEPT ![x] = n]
      BY <1>3, <2>1, <3>1
    <3> QED
      BY <3>1, <3>2 DEF IInv, Types, Counts
  <2>10. row.persisted <= Len(file[x]) /\ row.persisted <= MaxEvent
    BY <2>2 DEF IInv, Counts
  <2>11. x \notin Writing
    BY <2>1 DEF Finalize, LockFree
  <2>12. x \notin overtaken => Kept(x)'
    <3> SUFFICES ASSUME x \notin overtaken PROVE Kept(x)'
      OBVIOUS
    <3>1. Kept(x)
      BY DEF IInv, Evidence
    <3>2. Status(x) \notin Terminal
      BY <2>1 DEF Terminal
    <3>3. tail[x] # "torn"
      <4>1. Known(x)
        BY <2>1 DEF Known
      <4>2. Engaged(x)
        BY <3>1, <3>2, <4>1 DEF Kept, Held, Engaged
      <4> QED
        BY <2>1, <3>1, <4>2 DEF Kept, Whole
    <3> QED
      BY <1>1, <2>2, <2>6, <2>7, <2>11, <3>2, <3>3, StatusKept
  <2> QED
    BY <1>1, <2>2, <2>6, <2>7, <2>9, <2>10, <2>12, StateMove
<1> QED
  BY <1>2, <1>3 DEF Finalize

\* A command writes a new status of its session and goes on.
LEMMA StatusMove ==
  ASSUME IInv, NEW c \in Command, NEW x \in Session, x = cmd[c].s, x \notin Writing, Status(x) \in {"interrupted", "finalizing"},
         NEW st \in Statuses, disk' = [disk EXCEPT ![x].status = st],
         NEW p \in {"own", "clear"}, Step(c, p), p = "own" => Status(x) = "interrupted" /\ st = "collecting",
         p = "clear" => st \in Terminal,
         UNCHANGED <<file, tail, pointer, brief, owned, blocked, broken, overtaken, queue, gets, controller, due>>,
         cmd[c].pc \notin {"find", "get", "flush"}
  PROVE  IInv'
<1>1. PICK r \in CommandRows : cmd' = [cmd EXCEPT ![c] = r] /\ r.pc = p /\ r.s = x /\ found' = found
  BY StepRow DEF IInv, Places
<1>2. PICK row : row = [disk[x] EXCEPT !.status = st]
  OBVIOUS
<1>3. row \in DiskRows /\ row.status = st /\ row.persisted = disk[x].persisted /\ disk' = [disk EXCEPT ![x] = row]
  <2>1. disk[x] \in DiskRows
    BY DEF IInv, Types
  <2> QED
    BY <1>2, <2>1, WithStatus
<1>4. row.persisted <= Len(file[x]) /\ row.persisted <= MaxEvent
  BY <1>3 DEF IInv, Counts
<1>5. x \notin overtaken => Kept(x)'
  <2> SUFFICES ASSUME x \notin overtaken PROVE Kept(x)'
    OBVIOUS
  <2>1. Kept(x) /\ Status(x) \notin Terminal
    BY DEF IInv, Evidence, Terminal
  <2>2. tail[x] # "torn"
    BY <2>1 DEF Kept, Whole
  <2>3. row.status = "collecting" => row.persisted = Len(file[x])
    <3>1. CASE p = "own"
      BY <1>3, <2>1, <3>1 DEF Kept, Counted
    <3>2. CASE p = "clear"
      BY <1>3, <3>2 DEF Terminal
    <3> QED
      BY <3>1, <3>2
  <2>4. row.status \in Terminal \/ (row.status \in {"collecting", "finalizing"} /\ r.pc \in {"finalizing", "own", "point"})
    BY <1>1, <1>3
  <2> QED
    BY <1>1, <1>3, <2>1, <2>2, <2>3, <2>4, StatusKept
<1>6. due' \in [Session -> Nat] /\ \A s \in Session : due'[s] <= Len(file[s])
  BY DEF IInv, Types, Counts
<1> QED
  BY <1>1, <1>3, <1>4, <1>5, <1>6, StateMove

\* The second transition of a finish.
LEMMA EndSessionKeeps == ASSUME IInv, NEW c \in Command, EndSession(c) PROVE IInv'
<1>1. /\ UNCHANGED <<file, tail, pointer, brief, owned, blocked, broken, overtaken, queue, gets, controller, due>>
      /\ cmd[c].op \in Finishing /\ cmd[c].pc = "finalizing" /\ pointer' \in Session \cup {None}
  BY DEF EndSession, At, files, made, memory, flows, told, IInv, Types
<1>2. CASE Ends(c) /\ UNCHANGED disk
  BY <1>1, <1>2, EndsKeeps DEF Ground
<1>3. CASE /\ MayLeave(cmd[c].s, "finalizing") /\ disk' = [disk EXCEPT ![cmd[c].s].status = cmd[c].outcome]
           /\ Step(c, "clear")
  <2>1. cmd[c].s \in Session \cup {None} /\ cmd[c].outcome \in Terminal
    <3>1. cmd[c] \in CommandRows
      BY DEF IInv, Types
    <3> QED
      BY <3>1 DEF CommandRows
  <2>2. PICK x \in Session : x = cmd[c].s /\ Status(x) = "finalizing"
    BY <1>3, <2>1, HasState DEF MayLeave
  <2>3. PICK st \in Statuses : st = cmd[c].outcome /\ st \in Terminal
    BY <2>1 DEF Statuses
  <2>4. disk' = [disk EXCEPT ![x].status = st]
    BY <1>3, <2>2, <2>3
  <2>5. x \notin Writing
    BY <2>2 DEF EndSession, LockFree
  <2> QED
    BY <1>1, <1>3, <2>2, <2>3, <2>4, <2>5, StatusMove
<1> QED
  BY <1>2, <1>3 DEF EndSession

\* The transition of a resumption.
LEMMA ResumeWriteKeeps == ASSUME IInv, NEW c \in Command, ResumeWrite(c) PROVE IInv'
<1>1. /\ UNCHANGED <<file, tail, pointer, brief, owned, blocked, broken, overtaken, queue, gets, controller, due>>
      /\ cmd[c].pc = "resume" /\ pointer' \in Session \cup {None}
  BY DEF ResumeWrite, At, files, made, memory, flows, told, IInv, Types
<1>2. CASE Ends(c) /\ UNCHANGED disk
  BY <1>1, <1>2, EndsKeeps DEF Ground
<1>3. CASE /\ MayLeave(cmd[c].s, "interrupted") /\ disk' = [disk EXCEPT ![cmd[c].s].status = "collecting"]
           /\ Step(c, "own")
  <2>1. cmd[c].s \in Session \cup {None}
    <3>1. cmd[c] \in CommandRows
      BY DEF IInv, Types
    <3> QED
      BY <3>1 DEF CommandRows
  <2>2. PICK x \in Session : x = cmd[c].s /\ Status(x) = "interrupted"
    BY <1>3, <2>1, HasState DEF MayLeave
  <2>3. "collecting" \in Statuses /\ disk' = [disk EXCEPT ![x].status = "collecting"]
    BY <1>3, <2>2 DEF Statuses, Active
  <2>4. x \notin Writing
    BY <2>2 DEF ResumeWrite, LockFree
  <2> QED
    BY <1>1, <1>3, <2>2, <2>3, <2>4, StatusMove
<1> QED
  BY <1>2, <1>3 DEF ResumeWrite

\* A new session's first state.
LEMMA StartStateKeeps == ASSUME IInv, NEW c \in Command, StartState(c) PROVE IInv'
<1>1. /\ UNCHANGED <<file, tail, pointer, brief, owned, blocked, broken, overtaken, queue, gets, controller, due>>
      /\ cmd[c].pc = "state" /\ pointer' \in Session \cup {None}
  BY DEF StartState, At, files, made, memory, flows, told, IInv, Types
<1>2. CASE Ends(c) /\ UNCHANGED disk
  BY <1>1, <1>2, EndsKeeps DEF Ground
<1>3. CASE /\ \E s \in Session : Status(s) = "absent"
           /\ disk' = [disk EXCEPT ![NewSession] = [status |-> "collecting", persisted |-> 0]]
           /\ Go(c, [cmd[c] EXCEPT !.pc = "point", !.s = NewSession])
  <2>1. PICK x \in Session : x = NewSession /\ Status(x) = "absent"
    BY <1>3 DEF NewSession
  <2>2. PICK row \in DiskRows : row.status = "collecting" /\ row.persisted = 0 /\ disk' = [disk EXCEPT ![x] = row]
    <3>1. [status |-> "collecting", persisted |-> 0] \in DiskRows
      BY DEF DiskRows, Statuses, Active
    <3> QED
      BY <1>3, <2>1, <3>1
  <2>3. PICK a : a = [cmd[c] EXCEPT !.pc = "point"]
    OBVIOUS
  <2>4. a \in CommandRows /\ a.pc = "point"
    <3>1. cmd[c] \in CommandRows /\ "point" \in Places
      BY Names DEF IInv, Types
    <3> QED
      BY <2>3, <3>1, WithPlace
  <2>5. PICK r : r = [a EXCEPT !.s = x]
    OBVIOUS
  <2>6. r \in CommandRows /\ r.pc = "point" /\ r.s = x
    BY <2>4, <2>5, WithSession
  <2>7. cmd' = [cmd EXCEPT ![c] = r] /\ found' = found
    <3>1. r = [cmd[c] EXCEPT !.pc = "point", !.s = NewSession]
      BY <2>1, <2>3, <2>5
    <3> QED
      BY <1>3, <3>1 DEF Go
  <2>8. row.persisted <= Len(file[x]) /\ row.persisted <= MaxEvent
    <3>1. Len(file[x]) \in Nat
      BY StatusOf DEF IInv
    <3> QED
      BY <2>2, <3>1, BoundsAssumption
  <2>9. due' \in [Session -> Nat] /\ \A s \in Session : due'[s] <= Len(file[s])
    BY <1>1 DEF IInv, Types, Counts
  <2>10. x \notin overtaken => Kept(x)'
    <3> SUFFICES ASSUME x \notin overtaken PROVE Kept(x)'
      OBVIOUS
    <3>1. Kept(x) /\ Status(x) \notin Terminal
      BY <2>1 DEF IInv, Evidence, Terminal
    <3>2. x \notin Writing /\ tail[x] # "torn" /\ row.persisted = Len(file[x])
      BY <2>1, <2>2, <3>1 DEF Kept, Counted, Whole
    <3> QED
      BY <1>1, <2>2, <2>6, <2>7, <3>1, <3>2, StatusKept
  <2> QED
    BY <1>1, <2>2, <2>6, <2>7, <2>8, <2>9, <2>10, StateMove
<1> QED
  BY <1>2, <1>3 DEF StartState

-----------------------------------------------------------------------------
(* The controller takes a session and gives it up *)

\* The numbers of a session that is begun or resumed.
LEMMA BeginNumbers ==
  ASSUME Types, NEW x \in Session, NEW n \in Nat, n <= Len(file[x]), n <= MaxEvent, Begin(x, n), UNCHANGED file
  PROVE  /\ Numbers' /\ active' = x /\ factory'.s = x /\ pending' = <<>>
         /\ factory' \in [s : Session \cup {None}, next : Nat]
<1>1. /\ active' = x /\ factory' = [s |-> x, next |-> n + 1] /\ pending' = <<>> /\ failure' = FALSE
  BY DEF Begin
<1>2. Taken' = n + 1 /\ n + 1 - 1 = n
  BY <1>1 DEF Taken
<1>3. Covered(x, n)'
  BY DEF Covered
<1> QED
  BY <1>1, <1>2, <1>3, BoundsAssumption, NoneNotSession DEF Numbers, Consecutive

\* A command that has written a session's state makes it the controller's.
LEMMA OwnMove ==
  ASSUME IInv, NEW c \in Command, NEW r \in CommandRows, cmd' = [cmd EXCEPT ![c] = r], found' \in FoundRows,
         NEW x \in Session, cmd[c].s = x, cmd[c].pc \in {"own", "point"}, r.pc \in {"idle", "ask"},
         owned' = owned \cup {x}, NEW n \in Nat, n <= disk[x].persisted, Begin(x, n), pointer' \in Session \cup {None},
         UNCHANGED <<disk, file, tail, brief, blocked, broken, overtaken, queue, gets, due>>
  PROVE  IInv'
<1>1. cmd'[c] = r /\ (\A d \in Command : d # c => cmd'[d] = cmd[d]) /\ cmd' \in [Command -> CommandRows]
  BY DEF IInv, Types
<1>2. n <= Len(file[x]) /\ n <= MaxEvent
  <2>1. disk[x].persisted \in Nat /\ Len(file[x]) \in Nat /\ disk[x].persisted <= Len(file[x]) /\ disk[x].persisted <= MaxEvent
    BY StatusOf DEF IInv, Counts
  <2> QED
    BY <2>1, BoundsAssumption
<1>3. /\ Numbers' /\ active' = x /\ factory'.s = x /\ pending' = <<>>
      /\ factory' \in [s : Session \cup {None}, next : Nat]
  BY <1>2, BeginNumbers DEF IInv
<1>4. Types'
  <2>1. pending' \in Seq(Nat) /\ active' \in Session \cup {None}
    BY <1>3
  <2> QED
    BY <1>1, <1>3, <2>1 DEF IInv, Types, FoundRows
<1>5. Chains' /\ Counts'
  BY CountsStay DEF IInv, Chains, Batched, Consecutive, Last
<1>6. Evidence'
  <2> SUFFICES ASSUME NEW s \in Session, s \notin overtaken PROVE Kept(s)'
    BY DEF Evidence
  <2>1. Kept(s)
    BY DEF IInv, Evidence
  <2>2. s \in owned' => Engaged(s)
    BY DEF Engaged
  <2>3. /\ Engaged(s)' => Engaged(s)
        /\ \A d \in Command : IsPast(d)' /\ cmd'[d].s = s => (IsPast(d) /\ cmd[d].s = s) \/ Status(s) \in Terminal
    BY <2>2, MoveOf DEF IInv
  <2>4. Known(s)' => Known(s) \/ s \in owned'
    BY <1>3 DEF Known
  <2>5. (s \in Writing)' <=> s \in Writing
    BY DEF Writing
  <2> QED
    BY <2>1, <2>3, <2>4, <2>5, SessionStays
<1>7. ASSUME NEW d \in Command PROVE Placed(d)'
  <2>1. CASE d = c
    BY <1>1, <2>1 DEF Placed
  <2>2. CASE d # c
    BY <1>1, <2>2, PlacedStays DEF IInv
  <2> QED
    BY <2>1, <2>2
<1>8. Tickets'
  BY <1>1, TicketsStay DEF IInv
<1> QED
  BY <1>3, <1>4, <1>5, <1>6, <1>7, <1>8 DEF IInv

\* A new session is pointed to.
LEMMA StartPointKeeps == ASSUME IInv, NEW c \in Command, StartPoint(c) PROVE IInv'
<1>1. /\ UNCHANGED <<disk, file, tail, brief, blocked, broken, overtaken, queue, gets, due>>
      /\ cmd[c].pc = "point" /\ Ends(c)
  BY DEF StartPoint, At, made, flows, told
<1>2. cmd[c].s \in Session
  <2>1. cmd[c] \in CommandRows /\ cmd[c].s # None
    BY <1>1 DEF IInv, Types, Placed
  <2> QED
    BY <2>1 DEF CommandRows
<1>3. cmd' = [cmd EXCEPT ![c] = Idle] /\ found' \in FoundRows
  BY <1>1, EndsRow DEF IInv
<1>4. CASE pointer' = cmd[c].s /\ owned' = owned \cup {cmd[c].s} /\ Begin(cmd[c].s, 0)
  <2>1. 0 \in Nat /\ 0 <= disk[cmd[c].s].persisted
    BY <1>2, StatusOf DEF IInv
  <2> QED
    BY <1>1, <1>2, <1>3, <1>4, <2>1, IdleRow, OwnMove
<1>5. CASE UNCHANGED <<pointer, owned, controller>>
  <2>1. UNCHANGED Ground /\ pointer' \in Session \cup {None}
    BY <1>1, <1>5 DEF Ground, IInv, Types
  <2> QED
    BY <1>1, <2>1, EndsKeeps
<1> QED
  BY <1>4, <1>5 DEF StartPoint

\* A resumed session is owned again.
LEMMA ResumeOwnKeeps == ASSUME IInv, NEW c \in Command, ResumeOwn(c) PROVE IInv'
<1>1. /\ UNCHANGED <<disk, file, tail, brief, blocked, broken, overtaken, queue, gets, due>>
      /\ cmd[c].pc = "own" /\ pointer' \in Session \cup {None}
      /\ owned' = owned \cup {cmd[c].s} /\ Begin(cmd[c].s, disk[cmd[c].s].persisted)
      /\ Ends(c) \/ Step(c, "ask")
  BY DEF ResumeOwn, At, files, made, flows, told, IInv, Types
<1>2. PICK x \in Session : x = cmd[c].s
  <2>1. cmd[c] \in CommandRows /\ cmd[c].s # None
    BY <1>1 DEF IInv, Types, Placed
  <2> QED
    BY <2>1 DEF CommandRows
<1>3. disk[x].persisted \in Nat /\ disk[x].persisted <= disk[x].persisted
  BY StatusOf DEF IInv
<1>4. PICK r \in CommandRows : cmd' = [cmd EXCEPT ![c] = r] /\ r.pc \in {"idle", "ask"} /\ found' \in FoundRows
  <2>1. CASE Ends(c)
    BY <2>1, EndsRow, IdleRow DEF IInv
  <2>2. CASE Step(c, "ask")
    <3>1. "ask" \in Places
      BY Names
    <3>2. PICK r \in CommandRows : cmd' = [cmd EXCEPT ![c] = r] /\ r.pc = "ask" /\ found' = found
      BY <2>2, <3>1, StepRow DEF IInv
    <3>3. found' \in FoundRows
      BY <3>2 DEF IInv, Types, FoundRows
    <3> QED
      BY <3>2, <3>3
  <2> QED
    BY <1>1, <2>1, <2>2
<1> QED
  BY <1>1, <1>2, <1>3, <1>4, OwnMove

\* A session that has ended is given up, or a leftover's pointer is out of the way.
LEMMA ClearedKeeps ==
  ASSUME IInv, NEW c \in Command, cmd[c].pc \in {"clear", "unlink"}, Cleared(c), pointer' \in Session \cup {None},
         UNCHANGED <<disk, file, tail, brief, blocked, broken, overtaken, queue, gets, due>>
  PROVE  IInv'
<1>1. CASE cmd[c].op = "start"
  <2>1. Step(c, "state") /\ UNCHANGED Ground
    BY <1>1 DEF Cleared, Ground
  <2> QED
    BY <2>1, StepKeeps DEF Places
<1>2. CASE cmd[c].op # "start"
  <2>1. PICK x \in Session : x = cmd[c].s
    <3>1. cmd[c] \in CommandRows /\ cmd[c].s # None
      BY DEF IInv, Types, Placed
    <3> QED
      BY <3>1 DEF CommandRows
  <2>2. /\ owned' = owned \ {x} /\ Release /\ failure' = failure
        /\ cmd' = [cmd EXCEPT ![c].pc = "report"]
        /\ found' = IF cmd[c].op = "end" THEN [interrupted |-> None, last |-> x] ELSE found
    BY <1>2, <2>1 DEF Cleared
  <2>3. PICK r : r = [cmd[c] EXCEPT !.pc = "report"]
    OBVIOUS
  <2>4. r \in CommandRows /\ r.pc = "report" /\ r.s = x /\ r.op # "start" /\ cmd' = [cmd EXCEPT ![c] = r]
    <3>1. cmd[c] \in CommandRows /\ "report" \in Places
      BY Names DEF IInv, Types
    <3> QED
      BY <1>2, <2>1, <2>2, <2>3, <3>1, WithPlace
  <2>5. cmd'[c] = r /\ (\A d \in Command : d # c => cmd'[d] = cmd[d]) /\ cmd' \in [Command -> CommandRows]
    BY <2>4 DEF IInv, Types
  <2>6. /\ active' = None /\ factory'.s = None /\ pending' = <<>>
        /\ factory' \in [s : Session \cup {None}, next : Nat] /\ Numbers'
    BY <2>2, Released
  <2>7. found' \in FoundRows
    BY <2>2 DEF IInv, Types, FoundRows
  <2>8. Types'
    <3>1. pending' \in Seq(Nat) /\ active' \in Session \cup {None}
      BY <2>6
    <3> QED
      BY <2>5, <2>6, <2>7, <3>1 DEF IInv, Types, FoundRows
  <2>9. Chains' /\ Counts'
    BY CountsStay DEF IInv, Chains, Batched, Consecutive, Last
  <2>10. Evidence'
    <3> SUFFICES ASSUME NEW s \in Session, s \notin overtaken PROVE Kept(s)'
      BY DEF Evidence
    <3>1. Kept(s)
      BY DEF IInv, Evidence
    <3>2. s = x => Status(s) \in Terminal
      BY <1>2, <2>1, <3>1 DEF Kept, Past, IsPast
    <3>3. s \in owned' => Engaged(s)
      BY <2>2 DEF Engaged
    <3>4. /\ Engaged(s)' => Engaged(s)
          /\ \A d \in Command : IsPast(d)' /\ cmd'[d].s = s => (IsPast(d) /\ cmd[d].s = s) \/ Status(s) \in Terminal
      BY <2>4, <3>2, <3>3, MoveOf, ZenonT(60) DEF IInv
    <3>5. Known(s)' => Known(s)
      BY <2>6, NoneNotSession DEF Known
    <3>6. (s \in Writing)' <=> s \in Writing
      BY DEF Writing
    <3>7. s \in owned => s \in owned' \/ Status(s) \in Terminal
      BY <2>2, <3>2
    <3> QED
      BY <3>1, <3>4, <3>5, <3>6, <3>7, SessionStays
  <2>11. ASSUME NEW d \in Command PROVE Placed(d)'
    <3>1. CASE d = c
      BY <2>4, <2>5, <3>1, NoneNotSession DEF Placed
    <3>2. CASE d # c
      BY <2>5, <3>2, PlacedStays DEF IInv
    <3> QED
      BY <3>1, <3>2
  <2>12. Tickets'
    BY <2>5, TicketsStay DEF IInv
  <2> QED
    BY <2>6, <2>8, <2>9, <2>10, <2>11, <2>12 DEF IInv
<1> QED
  BY <1>1, <1>2

\* The pointer is read, and removed.
LEMMA ClearKeeps == ASSUME IInv, NEW c \in Command, ClearPointer(c) \/ Unlink(c) PROVE IInv'
<1>1. CASE ClearPointer(c)
  <2>1. /\ UNCHANGED <<disk, file, tail, brief, blocked, broken, overtaken, queue, gets, due>>
        /\ cmd[c].pc = "clear" /\ pointer' \in Session \cup {None}
    BY <1>1 DEF ClearPointer, files, made, flows, told, IInv, Types
  <2>2. CASE Step(c, "unlink") /\ UNCHANGED <<owned, controller>>
    <3>1. cmd[c].s # None /\ UNCHANGED Ground /\ (cmd[c].op # "start" => IsPast(c)) /\ "unlink" \in Places
      BY <2>1, <2>2, Names DEF IInv, Placed, Ground, IsPast
    <3> QED
      BY <2>1, <2>2, <3>1, StepKeeps
  <2>3. CASE Cleared(c)
    BY <2>1, <2>3, ClearedKeeps
  <2>4. CASE Ends(c) /\ UNCHANGED <<owned, controller>>
    <3>1. UNCHANGED Ground
      BY <2>1, <2>4 DEF Ground
    <3> QED
      BY <2>1, <2>4, <3>1, EndsKeeps
  <2> QED
    BY <1>1, <2>2, <2>3, <2>4 DEF ClearPointer
<1>2. CASE Unlink(c)
  <2>1. /\ UNCHANGED <<disk, file, tail, brief, blocked, broken, overtaken, queue, gets, due>>
        /\ cmd[c].pc = "unlink" /\ pointer' \in Session \cup {None} /\ Cleared(c)
    BY <1>2 DEF Unlink, made, flows, told
  <2> QED
    BY <2>1, ClearedKeeps
<1> QED
  BY <1>1, <1>2

\* A step that leaves all of this alone, but perhaps the pointer and what was found.
LEMMA StutterKeeps ==
  ASSUME IInv, UNCHANGED <<disk, file, tail, brief, owned, blocked, broken, overtaken, queue, gets, due, controller, cmd>>,
         pointer' \in Session \cup {None}, found' \in FoundRows
  PROVE  IInv'
<1> USE DEF controller
<1>1. Types' /\ Chains' /\ Counts' /\ Numbers'
  <2>1. Types'
    BY DEF IInv, Types, FoundRows
  <2>2. Chains'
    BY DEF IInv, Chains, Batched, Consecutive, Last
  <2> QED
    BY <2>1, <2>2, CountsStay, NumbersStay DEF IInv
<1>2. Evidence'
  <2>1. /\ \A s \in Session : Known(s)' => Known(s)
        /\ \A s \in Session : Engaged(s)' => Engaged(s)
        /\ \A s \in Session : \A d \in Command :
             IsPast(d)' /\ cmd'[d].s = s => (IsPast(d) /\ cmd[d].s = s) \/ Status(s) \in Terminal
    BY DEF Known, Engaged, IsPast
  <2> QED
    BY <2>1, EvidenceStays DEF IInv
<1>3. \A d \in Command : Placed(d)'
  BY PlacedStays DEF IInv
<1>4. Tickets'
  BY DEF IInv, Tickets, Ticketed, Waited, Last
<1> QED
  BY <1>1, <1>2, <1>3, <1>4 DEF IInv

\* The artifacts of an ended session are made one after the other.
LEMMA ReportKeeps == ASSUME IInv, NEW c \in Command, Report(c) PROVE IInv'
<1>1. /\ UNCHANGED <<disk, file, tail, pointer, owned, blocked, broken, overtaken, queue, gets, due, controller>>
      /\ cmd[c].pc = "report" /\ cmd[c].op # "start" /\ pointer' \in Session \cup {None}
  BY DEF Report, At, files, memory, flows, told, Finishing, IInv, Types
<1>2. PICK x \in Session : x = cmd[c].s
  <2>1. cmd[c] \in CommandRows /\ cmd[c].s # None
    BY <1>1 DEF IInv, Types, Placed
  <2> QED
    BY <2>1 DEF CommandRows
<1>3. CASE UNCHANGED <<brief, cmd, found>>
  <2>1. found' \in FoundRows
    BY <1>3 DEF IInv, Types, FoundRows
  <2> QED
    BY <1>1, <1>3, <2>1, StutterKeeps
<1>4. CASE Ends(c) /\ UNCHANGED brief
  BY <1>1, <1>4, EndsKeeps DEF Ground
<1>5. CASE Step(c, "read") /\ UNCHANGED brief
  <2>1. "read" \in Places /\ x # None
    BY Names, NoneNotSession
  <2> QED
    BY <1>1, <1>2, <1>5, <2>1, StepKeeps DEF Ground
<1>6. CASE brief' = [brief EXCEPT ![x] = [events |-> Len(file[x]), ending |-> Status(x)]] /\ UNCHANGED <<cmd, found>>
  <2> USE DEF controller
  <2>1. PICK b \in BriefRows : b = [events |-> Len(file[x]), ending |-> Status(x)]
    <3>1. Len(file[x]) \in Nat /\ Status(x) \in Statuses
      BY StatusOf DEF IInv
    <3> QED
      BY <3>1 DEF BriefRows
  <2>2. brief' \in [Session -> BriefRows] /\ brief'[x] = b /\ \A s \in Session : s # x => brief'[s] = brief[s]
    BY <1>6, <2>1 DEF IInv, Types
  <2>3. Types' /\ Chains' /\ Counts' /\ Numbers'
    <3>1. Types'
      BY <1>1, <1>6, <2>2 DEF IInv, Types
    <3>2. Chains'
      BY <1>1 DEF IInv, Chains, Batched, Consecutive, Last
    <3> QED
      BY <1>1, <3>1, <3>2, CountsStay, NumbersStay DEF IInv
  <2>4. Evidence'
    <3> SUFFICES ASSUME NEW s \in Session, s \notin overtaken PROVE Kept(s)'
      BY <1>1 DEF Evidence
    <3>1. Kept(s)
      BY DEF IInv, Evidence
    <3>2. /\ Known(s)' => Known(s)
          /\ Engaged(s)' => Engaged(s)
          /\ (s \in Writing)' <=> s \in Writing
          /\ \A d \in Command : IsPast(d)' /\ cmd'[d].s = s => (IsPast(d) /\ cmd[d].s = s) \/ Status(s) \in Terminal
      BY <1>1, <1>6 DEF Known, Engaged, IsPast, Writing
    <3>3. CASE s # x
      BY <1>1, <2>2, <3>1, <3>2, <3>3, SessionStays
    <3>4. CASE s = x
      <4>1. Status(s) \in Terminal /\ Status(s)' = Status(s)
        BY <1>1, <1>2, <3>1, <3>4 DEF Kept, Past, IsPast, Status
      <4>2. Told(s)'
        BY <1>1, <2>1, <2>2, <3>4, <4>1 DEF Told
      <4>3. Numbered(s)' /\ Whole(s)' /\ Held(s)' /\ Past(s)'
        <5>1. Numbered(s)'
          BY <1>1, <3>1 DEF Kept, Numbered, Consecutive
        <5>2. Whole(s)'
          BY <1>1, <3>1, <3>2, <4>1 DEF Kept, Whole
        <5>3. Held(s)' /\ Past(s)'
          BY <4>1 DEF Held, Past
        <5> QED
          BY <5>1, <5>2, <5>3
      <4>4. Counted(s)'
        BY <1>1, <3>1, <3>2, <4>1 DEF Kept, Counted, Last, Terminal
      <4> QED
        BY <4>2, <4>3, <4>4 DEF Kept
    <3> QED
      BY <3>3, <3>4
  <2>5. \A d \in Command : Placed(d)'
    BY <1>1, <1>6, PlacedStays DEF IInv
  <2>6. Tickets'
    BY <1>1, <1>6 DEF IInv, Tickets, Ticketed, Waited, Last
  <2> QED
    BY <2>3, <2>4, <2>5, <2>6 DEF IInv
<1>7. \/ UNCHANGED <<brief, cmd, found>> \/ (Ends(c) /\ UNCHANGED brief) \/ (Step(c, "read") /\ UNCHANGED brief)
      \/ (brief' = [brief EXCEPT ![x] = [events |-> Len(file[x]), ending |-> Status(x)]] /\ UNCHANGED <<cmd, found>>)
  BY <1>2 DEF Report
<1> QED
  BY <1>3, <1>4, <1>5, <1>6, <1>7

-----------------------------------------------------------------------------
(* Recording and flushing *)

\* What is in a sequence after an append.
LEMMA Appended ==
  ASSUME NEW S, NEW q \in Seq(S), NEW b \in S
  PROVE  /\ Append(q, b) \in Seq(S) /\ Append(q, b) # <<>> /\ Len(Append(q, b)) = Len(q) + 1 /\ Len(q) \in Nat
         /\ \A i \in 1..Len(q) : Append(q, b)[i] = q[i]
         /\ Append(q, b)[Len(q) + 1] = b
         /\ Head(Append(q, b)) = IF q = <<>> THEN b ELSE Head(q)
<1>1. /\ Append(q, b) \in Seq(S) /\ Append(q, b) # <<>> /\ Len(Append(q, b)) = Len(q) + 1 /\ Len(q) \in Nat
      /\ \A i \in 1..Len(q) : Append(q, b)[i] = q[i]
      /\ Append(q, b)[Len(q) + 1] = b
  OBVIOUS
<1>2. CASE q = <<>>
  BY <1>2
<1>3. CASE q # <<>>
  <2>1. 1 \in 1..Len(q) /\ Head(q) = q[1]
    BY <1>3
  <2>2. Head(Append(q, b)) = Append(q, b)[1]
    BY <1>1
  <2> QED
    BY <1>1, <1>3, <2>1, <2>2
<1> QED
  BY <1>1, <1>2, <1>3

\* An event is numbered.
LEMMA RecordKeeps == ASSUME IInv, Record PROVE IInv'
<1>1. /\ active # None /\ factory.s # None /\ factory.next \in Nat /\ factory.next <= MaxEvent /\ factory.s \in Session \cup {None}
      /\ pending \in Seq(Nat) /\ pending' = Append(pending, factory.next)
      /\ factory' \in [s : Session \cup {None}, next : Nat] /\ factory'.s = factory.s /\ factory'.next = factory.next + 1
      /\ UNCHANGED <<disk, file, tail, pointer, brief, owned, blocked, broken, overtaken, queue, gets, due, cmd, found, active, failure>>
  <2>1. factory \in [s : Session \cup {None}, next : Nat] /\ pending \in Seq(Nat)
    BY DEF IInv, Types
  <2>2. active # None /\ factory.next <= MaxEvent /\ pending' = Append(pending, factory.next)
        /\ factory' = [factory EXCEPT !.next = factory.next + 1]
    BY DEF Record
  <2>3. factory' \in [s : Session \cup {None}, next : Nat] /\ factory'.s = factory.s /\ factory'.next = factory.next + 1
    BY <2>1, <2>2
  <2>4. UNCHANGED <<disk, file, tail, pointer, brief, owned, blocked, broken, overtaken, queue, gets, due, cmd, found, active, failure>>
    BY DEF Record, files, made, memory, flows, told
  <2> QED
    BY <2>1, <2>2, <2>3, <2>4 DEF IInv, Numbers
<1>2. PICK m \in Nat : m = Len(pending)
  BY <1>1
<1>3. /\ pending' \in Seq(Nat) /\ Len(pending') = m + 1 /\ pending'[m + 1] = factory.next
      /\ \A i \in 1..m : pending'[i] = pending[i]
  BY <1>1, <1>2, Appended
<1>4. PICK k \in Nat : k = factory.next - m /\ k = Taken /\ k >= 1 /\ Covered(factory.s, k - 1) /\ Consecutive(pending, k)
  <2>1. Taken >= 1 /\ Consecutive(pending, Taken) /\ Covered(factory.s, Taken - 1)
    BY <1>1 DEF IInv, Numbers
  <2>2. Taken = factory.next - m
    BY <1>2 DEF Taken
  <2> QED
    BY <1>1, <2>1, <2>2
<1>5. Types' /\ Chains' /\ Counts'
  <2>1. Types'
    BY <1>1, <1>3 DEF IInv, Types
  <2>2. Chains'
    BY <1>1 DEF IInv, Chains, Batched, Consecutive, Last
  <2> QED
    BY <1>1, <2>1, <2>2, CountsStay DEF IInv
<1>6. Numbers'
  <2>1. Taken' = k
    <3>1. factory.next + 1 - (m + 1) = k
      BY <1>1, <1>4
    <3> QED
      BY <1>1, <1>3, <3>1 DEF Taken
  <2>2. Consecutive(pending', k)
    <3>1. ASSUME NEW i \in 1..m + 1 PROVE pending'[i] = k + i - 1
      <4>1. CASE i <= m
        BY <1>2, <1>3, <1>4, <4>1 DEF Consecutive
      <4>2. CASE i = m + 1
        BY <1>1, <1>3, <1>4, <4>2
      <4> QED
        BY <4>1, <4>2
    <3> QED
      BY <1>3, <3>1 DEF Consecutive
  <2>3. Covered(factory.s, k - 1)'
    BY <1>1, <1>4 DEF Covered, Last
  <2>4. factory'.next >= 1 /\ factory'.next <= MaxEvent + 1
    BY <1>1, BoundsAssumption
  <2>5. Consecutive(pending, Taken)'
    BY <2>1, <2>2 DEF Consecutive
  <2>6. failure' => factory'.s = None
    BY <1>1 DEF IInv, Numbers
  <2> QED
    BY <1>1, <1>4, <2>1, <2>3, <2>4, <2>5, <2>6 DEF Numbers
<1>7. Evidence'
  <2>1. /\ \A s \in Session : Known(s)' => Known(s)
        /\ \A s \in Session : Engaged(s)' => Engaged(s)
        /\ \A s \in Session : \A d \in Command :
             IsPast(d)' /\ cmd'[d].s = s => (IsPast(d) /\ cmd[d].s = s) \/ Status(s) \in Terminal
    BY <1>1 DEF Known, Engaged, IsPast
  <2> QED
    BY <1>1, <2>1, EvidenceStays DEF IInv
<1>8. \A d \in Command : Placed(d)'
  BY <1>1, PlacedStays DEF IInv
<1>9. Tickets'
  BY <1>1 DEF IInv, Tickets, Ticketed, Waited, Last
<1> QED
  BY <1>5, <1>6, <1>7, <1>8, <1>9 DEF IInv

\* A chain becomes one flush longer.
LEMMA Longer ==
  ASSUME IInv, NEW by \in Commands, active # None, pending # <<>>, Enqueue(by)
  PROVE  \E x \in Session, b \in Batches :
           /\ x = factory.s /\ b.by = by /\ b.pc = "queued" /\ Batched(b) /\ Last(b) = factory.next - 1
           /\ factory.next \in Nat /\ factory.next >= 1 /\ pending' = <<>>
           /\ queue' = [queue EXCEPT ![x] = Append(queue[x], b)]
<1>1. PICK x \in Session : x = factory.s
  BY DEF IInv, Types, Numbers
<1>2. PICK b : b = [target |-> active, events |-> pending, pc |-> "queued", by |-> by]
  OBVIOUS
<1>3. b \in Batches /\ b.by = by /\ b.pc = "queued" /\ b.events = pending
  BY <1>2 DEF Batches, IInv, Types
<1>4. queue' = [queue EXCEPT ![x] = Append(queue[x], b)] /\ pending' = <<>>
  BY <1>1, <1>2 DEF Enqueue
<1>5. factory.next \in Nat /\ factory.next >= 1 /\ factory.next <= MaxEvent + 1
  BY DEF IInv, Types, Numbers
<1>6. PICK m \in Nat : m = Len(pending) /\ m >= 1
  <2>1. pending \in Seq(Nat)
    BY DEF IInv, Types
  <2> QED
    BY <2>1
<1>7. PICK k \in Nat : k = factory.next - m /\ k >= 1 /\ Consecutive(pending, k)
  <2>1. Taken >= 1 /\ Consecutive(pending, Taken) /\ Taken = factory.next - m
    BY <1>1, <1>6, NoneNotSession DEF IInv, Numbers, Taken
  <2> QED
    BY <1>5, <2>1
<1>8. pending[1] = k /\ pending[m] = factory.next - 1
  <2>1. pending[1] = k + 1 - 1 /\ pending[m] = k + m - 1
    BY <1>6, <1>7 DEF Consecutive
  <2> QED
    BY <1>5, <1>7, <2>1
<1>9. Last(b) = factory.next - 1
  BY <1>3, <1>6, <1>8 DEF Last
<1>10. Batched(b)
  <2>1. pending[1] >= 1 /\ Consecutive(pending, pending[1])
    BY <1>7, <1>8
  <2>2. factory.next - 1 <= MaxEvent
    BY <1>5, BoundsAssumption
  <2> QED
    BY <1>3, <1>9, <2>1, <2>2 DEF Batched
<1> QED
  BY <1>1, <1>3, <1>4, <1>5, <1>9, <1>10

\* What a longer chain changes.
LEMMA LongerKeeps ==
  ASSUME IInv, NEW x \in Session, NEW b \in Batches, x = factory.s, b.pc = "queued", Batched(b), Last(b) = factory.next - 1,
         factory.next \in Nat, factory.next >= 1, pending' = <<>>, queue' = [queue EXCEPT ![x] = Append(queue[x], b)],
         UNCHANGED <<disk, file, due, gets, active, factory, failure>>
  PROVE  /\ queue' \in [Session -> Seq(Batches)] /\ Chains' /\ Counts' /\ Numbers'
         /\ \A s \in Session : (s \in Writing)' <=> s \in Writing
         /\ \A s \in Session : s \in Writing => Head(queue'[s]) = Head(queue[s])
         /\ \A s \in Session : s # x => queue'[s] = queue[s]
         /\ \A s \in Session, n \in Nat : Covered(s, n) => Covered(s, n)'
         /\ Len(queue[x]) \in Nat /\ Len(queue'[x]) = Len(queue[x]) + 1 /\ queue'[x][Len(queue[x]) + 1] = b
         /\ \A i \in 1..Len(queue[x]) : queue'[x][i] = queue[x][i]
<1>1. queue[x] \in Seq(Batches) /\ queue'[x] = Append(queue[x], b)
  BY DEF IInv, Types
<1>2. /\ queue'[x] \in Seq(Batches) /\ queue'[x] # <<>> /\ Len(queue'[x]) = Len(queue[x]) + 1 /\ Len(queue[x]) \in Nat
      /\ \A i \in 1..Len(queue[x]) : queue'[x][i] = queue[x][i]
      /\ queue'[x][Len(queue[x]) + 1] = b
      /\ Head(queue'[x]) = IF queue[x] = <<>> THEN b ELSE Head(queue[x])
  BY <1>1, Appended
<1>3. \A s \in Session : s # x => queue'[s] = queue[s]
  OBVIOUS
<1>4. queue' \in [Session -> Seq(Batches)]
  BY <1>2 DEF IInv, Types
<1>5. PICK l \in Nat : l = Len(queue[x])
  BY <1>2
<1>6. \A i \in 1..l + 1 : i \in 1..l \/ i = l + 1
  BY <1>5
<1>7. Chains'
  <2> SUFFICES ASSUME NEW s \in Session, NEW i \in 1..Len(queue'[s])
               PROVE  Batched(queue'[s][i]) /\ (queue'[s][i].pc = "written" => i = 1)
    BY DEF Chains, Batched, Consecutive, Last
  <2>1. CASE s # x
    BY <1>3, <2>1 DEF IInv, Chains
  <2>2. CASE s = x
    BY <1>2, <1>5, <1>6, <2>2 DEF IInv, Chains
  <2> QED
    BY <2>1, <2>2
<1>8. \A s \in Session : (s \in Writing)' <=> s \in Writing
  <2>1. x \in Writing' <=> x \in Writing
    BY <1>2 DEF Writing
  <2> QED
    BY <1>3, <2>1 DEF Writing
<1>9. \A s \in Session : s \in Writing => Head(queue'[s]) = Head(queue[s])
  BY <1>2, <1>3 DEF Writing
<1>10. Counts'
  BY <1>8, <1>9 DEF IInv, Counts, Last
<1>11. ASSUME NEW s \in Session, NEW n \in Nat, Covered(s, n) PROVE Covered(s, n)'
  <2>1. CASE n <= Len(file[s])
    BY <2>1 DEF Covered
  <2>2. CASE \E i \in 1..Len(queue[s]) : queue[s][i].events[1] <= n /\ n <= Last(queue[s][i])
    <3>1. PICK i \in 1..Len(queue[s]) : queue[s][i].events[1] <= n /\ n <= Last(queue[s][i])
      BY <2>2
    <3>2. i \in 1..Len(queue'[s]) /\ queue'[s][i] = queue[s][i]
      <4>1. CASE s # x
        BY <1>3, <4>1
      <4>2. CASE s = x
        BY <1>2, <1>5, <4>2
      <4> QED
        BY <4>1, <4>2
    <3> QED
      BY <3>1, <3>2 DEF Covered, Last
  <2> QED
    BY <1>11, <2>1, <2>2 DEF Covered
<1>12. Numbers'
  <2>1. Taken' = factory.next
    BY DEF Taken
  <2>2. Covered(x, factory.next - 1)'
    <3>1. b.events[1] <= Last(b)
      BY BatchNumbers
    <3>2. l + 1 \in 1..Len(queue'[x]) /\ queue'[x][l + 1] = b
      BY <1>2, <1>5
    <3>3. \E i \in 1..Len(queue'[x]) : queue'[x][i].events[1] <= factory.next - 1 /\ factory.next - 1 <= Last(queue'[x][i])
      <4>1. factory.next - 1 <= factory.next - 1
        OBVIOUS
      <4> QED
        BY <3>1, <3>2, <4>1
    <3> QED
      BY <3>3 DEF Covered, Last
  <2>3. Consecutive(pending, Taken)'
    BY DEF Consecutive
  <2> QED
    BY <2>1, <2>2, <2>3 DEF IInv, Numbers
<1> QED
  BY <1>2, <1>3, <1>4, <1>7, <1>8, <1>9, <1>10, <1>11, <1>12

\* Who waits for what, when a chain has one more flush.
LEMMA LongerTickets ==
  ASSUME IInv, NEW x \in Session, NEW b \in Batches, gets' = gets,
         \A s \in Session : s # x => queue'[s] = queue[s],
         Len(queue[x]) \in Nat, Len(queue'[x]) = Len(queue[x]) + 1, queue'[x][Len(queue[x]) + 1] = b,
         \A i \in 1..Len(queue[x]) : queue'[x][i] = queue[x][i],
         \A g \in gets : Ticketed(g)',
         \A s \in Session : \A i \in 1..Len(queue[s]) : \A a \in Batches : a = queue[s][i] => Waited(s, a)',
         Waited(x, b)',
         b.by = NoCommand \/ ((\A g \in gets : g.by # b.by)
                              /\ \A s \in Session : \A i \in 1..Len(queue[s]) : queue[s][i].by # b.by)
  PROVE  Tickets'
<1>1. PICK l \in Nat : l = Len(queue[x])
  OBVIOUS
<1>2. \A i \in 1..l + 1 : i \in 1..l \/ i = l + 1
  BY <1>1
<1>3. \A s \in Session : \A i \in 1..Len(queue[s]) : queue[s][i] \in Batches
  BY DEF IInv, Types
<1>4. ASSUME NEW s \in Session, NEW i \in 1..Len(queue'[s]), NEW a, a = queue'[s][i]
      PROVE  Waited(s, a)' /\ ((s = x /\ i = l + 1 /\ a = b) \/ (i \in 1..Len(queue[s]) /\ a = queue[s][i]))
  <2>1. (s = x /\ i = l + 1 /\ a = b) \/ (i \in 1..Len(queue[s]) /\ a = queue[s][i])
    BY <1>1, <1>2, <1>4
  <2> QED
    BY <1>3, <2>1
<1>5. \A s \in Session : \A i \in 1..Len(queue'[s]) : Waited(s, queue[s][i])'
  BY <1>4
<1>6. ASSUME NEW s \in Session, NEW i \in 1..Len(queue'[s]), NEW g \in gets, g.by = queue'[s][i].by PROVE g.by = NoCommand
  BY <1>4, <1>6, SMTT(30) DEF IInv, Tickets
<1>7. ASSUME NEW s \in Session, NEW i \in 1..Len(queue'[s]), NEW j \in 1..Len(queue'[s]),
             queue'[s][i].by = queue'[s][j].by, queue'[s][i].by # NoCommand
      PROVE  i = j
  <2>1. (s = x /\ i = l + 1 /\ queue'[s][i] = b) \/ (i \in 1..Len(queue[s]) /\ queue'[s][i] = queue[s][i])
    BY <1>4
  <2>2. (s = x /\ j = l + 1 /\ queue'[s][j] = b) \/ (j \in 1..Len(queue[s]) /\ queue'[s][j] = queue[s][j])
    BY <1>4
  <2>3. CASE i \in 1..Len(queue[s]) /\ queue'[s][i] = queue[s][i] /\ j \in 1..Len(queue[s]) /\ queue'[s][j] = queue[s][j]
    <3>1. queue[s][i].by = queue[s][j].by /\ queue[s][i].by # NoCommand
      BY <1>7, <2>3
    <3>2. \A k, m \in 1..Len(queue[s]) : queue[s][k].by = queue[s][m].by /\ queue[s][k].by # NoCommand => k = m
      BY DEF IInv, Tickets
    <3> QED
      BY <2>3, <3>1, <3>2
  <2>4. CASE queue'[s][i] = b /\ j \in 1..Len(queue[s]) /\ queue'[s][j] = queue[s][j]
    BY <1>7, <2>4
  <2>5. CASE queue'[s][j] = b /\ i \in 1..Len(queue[s]) /\ queue'[s][i] = queue[s][i]
    BY <1>7, <2>5
  <2>6. CASE i = l + 1 /\ j = l + 1
    BY <2>6
  <2> QED
    BY <2>1, <2>2, <2>3, <2>4, <2>5, <2>6
<1>8. \A g, h \in gets' : g.by = h.by /\ g.by # NoCommand => g = h
  BY DEF IInv, Tickets
<1>9. \A g \in gets' : Ticketed(g)'
  OBVIOUS
<1>10. \A s \in Session : \A i \in 1..Len(queue'[s]) : \A g \in gets' : g.by = queue'[s][i].by => g.by = NoCommand
  BY <1>6
<1>11. \A s \in Session : \A i, j \in 1..Len(queue'[s]) :
         queue'[s][i].by = queue'[s][j].by /\ queue'[s][i].by # NoCommand => i = j
  BY <1>7
<1> QED
  BY <1>5, <1>8, <1>9, <1>10, <1>11 DEF Tickets

\* The timer flushes what is pending.
LEMMA FlushKeeps == ASSUME IInv, Flush PROVE IInv'
<1>1. /\ active # None /\ pending # <<>> /\ Enqueue(NoCommand) /\ NoCommand \in Commands
      /\ UNCHANGED <<disk, file, tail, pointer, brief, owned, blocked, broken, overtaken, gets, due, cmd, found, active, factory, failure>>
  BY DEF Flush, files, made, memory, told, Commands
<1>2. PICK x \in Session, b \in Batches :
        /\ x = factory.s /\ b.by = NoCommand /\ b.pc = "queued" /\ Batched(b) /\ Last(b) = factory.next - 1
        /\ factory.next \in Nat /\ factory.next >= 1 /\ pending' = <<>>
        /\ queue' = [queue EXCEPT ![x] = Append(queue[x], b)]
  BY <1>1, Longer
<1>3. /\ queue' \in [Session -> Seq(Batches)] /\ Chains' /\ Counts' /\ Numbers'
      /\ \A s \in Session : (s \in Writing)' <=> s \in Writing
      /\ \A s \in Session : s \in Writing => Head(queue'[s]) = Head(queue[s])
      /\ \A s \in Session : s # x => queue'[s] = queue[s]
      /\ \A s \in Session, n \in Nat : Covered(s, n) => Covered(s, n)'
      /\ Len(queue[x]) \in Nat /\ Len(queue'[x]) = Len(queue[x]) + 1 /\ queue'[x][Len(queue[x]) + 1] = b
      /\ \A i \in 1..Len(queue[x]) : queue'[x][i] = queue[x][i]
  BY <1>1, <1>2, LongerKeeps
<1>4. Types'
  <2>1. pending' \in Seq(Nat)
    BY <1>2
  <2> QED
    BY <1>1, <1>3, <2>1 DEF IInv, Types
<1>5. Evidence'
  <2> SUFFICES ASSUME NEW s \in Session, s \notin overtaken PROVE Kept(s)'
    BY <1>1 DEF Evidence
  <2>1. Kept(s)
    BY DEF IInv, Evidence
  <2>2. /\ Engaged(s)' => Engaged(s)
        /\ \A d \in Command : IsPast(d)' /\ cmd'[d].s = s => (IsPast(d) /\ cmd[d].s = s) \/ Status(s) \in Terminal
    BY <1>1 DEF Engaged, IsPast
  <2>3. Known(s)' => Known(s)
    BY <1>1, <1>2, <1>3 DEF Known
  <2> QED
    BY <1>1, <1>3, <2>1, <2>2, <2>3, SessionStays
<1>6. ASSUME NEW d \in Command PROVE Placed(d)'
  <2>1. \A s \in Session : Len(file'[s]) \in Nat /\ Len(file[s]) <= Len(file'[s])
    BY <1>1 DEF IInv, Types
  <2> QED
    BY <1>1, <1>3, <2>1, PlacedGrows DEF IInv
<1>7. Tickets'
  <2>1. \A g \in gets : Ticketed(g)'
    BY <1>1 DEF IInv, Tickets, Ticketed
  <2>2. \A s \in Session : \A i \in 1..Len(queue[s]) : \A a \in Batches : a = queue[s][i] => Waited(s, a)'
    BY <1>1 DEF IInv, Tickets, Waited
  <2>3. Waited(x, b)'
    BY <1>2 DEF Waited
  <2> QED
    BY <1>1, <1>2, <1>3, <2>1, <2>2, <2>3, LongerTickets
<1> QED
  BY <1>3, <1>4, <1>5, <1>6, <1>7 DEF IInv

\* The row of a command that waits for its flush.
LEMMA AskRow ==
  ASSUME IInv, NEW c \in Command, NEW p \in Places, factory.s # None
  PROVE  LET r == [[cmd[c] EXCEPT !.s = factory.s, !.due = factory.next - 1] EXCEPT !.pc = p]
         IN  r \in CommandRows /\ r.pc = p /\ r.s = factory.s /\ r.due = factory.next - 1 /\ r.op = cmd[c].op
<1>1. cmd[c] \in CommandRows /\ factory.s \in Session \cup {None} /\ factory.next - 1 \in Nat
  <2>1. factory \in [s : Session \cup {None}, next : Nat] /\ factory.next >= 1 /\ cmd[c] \in CommandRows
    BY DEF IInv, Types, Numbers
  <2> QED
    BY <2>1
<1>2. PICK a : a = [cmd[c] EXCEPT !.s = factory.s]
  OBVIOUS
<1>3. a \in CommandRows /\ a.s = factory.s /\ a.op = cmd[c].op
  BY <1>1, <1>2, WithSession
<1>4. PICK n \in Nat : n = factory.next - 1
  BY <1>1
<1>5. PICK b : b = [a EXCEPT !.due = n]
  OBVIOUS
<1>6. b \in CommandRows /\ b.s = factory.s /\ b.due = n /\ b.op = cmd[c].op
  BY <1>3, <1>4, <1>5, WithDue
<1>7. PICK r : r = [b EXCEPT !.pc = p]
  OBVIOUS
<1>8. r \in CommandRows /\ r.pc = p /\ r.s = factory.s /\ r.due = n /\ r.op = cmd[c].op
  BY <1>6, <1>7, WithPlace
<1>9. r = [[cmd[c] EXCEPT !.s = factory.s, !.due = factory.next - 1] EXCEPT !.pc = p]
  BY <1>2, <1>4, <1>5, <1>7
<1> QED
  BY <1>4, <1>8, <1>9

\* A finish flushes what is pending, or waits for what is under way.
LEMMA AskToFinishKeeps == ASSUME IInv, NEW c \in Command, AskToFinish(c) PROVE IInv'
<1>1. /\ cmd[c].pc = "ask" /\ cmd[c].op \in Finishing /\ pointer' \in Session \cup {None}
      /\ UNCHANGED <<disk, file, tail, pointer, brief, owned, blocked, broken, overtaken, gets, due, active, factory, failure>>
  BY DEF AskToFinish, At, files, made, memory, told, IInv, Types
<1>2. CASE Ends(c) /\ UNCHANGED <<queue, pending>>
  BY <1>1, <1>2, EndsKeeps DEF Ground, controller
<1>3. CASE /\ active # None /\ pending = <<>> /\ UNCHANGED <<queue, pending>>
           /\ Go(c, [[cmd[c] EXCEPT !.s = factory.s, !.due = factory.next - 1] EXCEPT !.pc = "drain"])
  <2>1. factory.s # None /\ factory.next \in Nat /\ "drain" \in Places
    BY <1>3, Names DEF IInv, Numbers, Types
  <2>2. PICK r : r = [[cmd[c] EXCEPT !.s = factory.s, !.due = factory.next - 1] EXCEPT !.pc = "drain"]
    OBVIOUS
  <2>3. r \in CommandRows /\ r.pc = "drain" /\ r.s = factory.s /\ r.due = factory.next - 1
    BY <2>1, <2>2, AskRow
  <2>4. Covered(r.s, r.due)
    <3>1. Taken = factory.next /\ Covered(factory.s, Taken - 1)
      BY <1>3, <2>1 DEF IInv, Numbers, Taken
    <3> QED
      BY <2>3, <3>1
  <2>5. cmd' = [cmd EXCEPT ![c] = r] /\ found' \in FoundRows
    BY <1>3, <2>2 DEF Go, IInv, Types, FoundRows
  <2>6. UNCHANGED Ground
    BY <1>1, <1>3 DEF Ground, controller
  <2> QED
    BY <1>1, <2>1, <2>3, <2>4, <2>5, <2>6, PlainMove DEF Ground
<1>4. CASE /\ active # None /\ pending # <<>> /\ Enqueue(c)
           /\ Go(c, [[cmd[c] EXCEPT !.s = factory.s, !.due = factory.next - 1] EXCEPT !.pc = "flush"])
  <2>1. c \in Commands /\ factory.s # None /\ "flush" \in Places
    BY <1>4, Names DEF Commands, IInv, Numbers
  <2>2. PICK r : r = [[cmd[c] EXCEPT !.s = factory.s, !.due = factory.next - 1] EXCEPT !.pc = "flush"]
    OBVIOUS
  <2>3. r \in CommandRows /\ r.pc = "flush" /\ r.s = factory.s /\ r.due = factory.next - 1 /\ r.op = cmd[c].op
    BY <2>1, <2>2, AskRow
  <2>4. cmd' = [cmd EXCEPT ![c] = r] /\ found' = found
    BY <1>4, <2>2 DEF Go
  <2>5. cmd'[c] = r /\ (\A d \in Command : d # c => cmd'[d] = cmd[d]) /\ cmd' \in [Command -> CommandRows]
    BY <2>3, <2>4 DEF IInv, Types
  <2>6. PICK x \in Session, b \in Batches :
          /\ x = factory.s /\ b.by = c /\ b.pc = "queued" /\ Batched(b) /\ Last(b) = factory.next - 1
          /\ factory.next \in Nat /\ factory.next >= 1 /\ pending' = <<>>
          /\ queue' = [queue EXCEPT ![x] = Append(queue[x], b)]
    BY <1>4, <2>1, Longer
  <2>7. /\ queue' \in [Session -> Seq(Batches)] /\ Chains' /\ Counts' /\ Numbers'
        /\ \A s \in Session : (s \in Writing)' <=> s \in Writing
        /\ \A s \in Session : s \in Writing => Head(queue'[s]) = Head(queue[s])
        /\ \A s \in Session : s # x => queue'[s] = queue[s]
        /\ \A s \in Session, n \in Nat : Covered(s, n) => Covered(s, n)'
        /\ Len(queue[x]) \in Nat /\ Len(queue'[x]) = Len(queue[x]) + 1 /\ queue'[x][Len(queue[x]) + 1] = b
        /\ \A i \in 1..Len(queue[x]) : queue'[x][i] = queue[x][i]
    BY <1>1, <2>6, LongerKeeps
  <2>8. Types'
    <3>1. pending' \in Seq(Nat)
      BY <2>6
    <3> QED
      BY <1>1, <2>4, <2>5, <2>7, <3>1 DEF IInv, Types
  <2>9. Evidence'
    <3> SUFFICES ASSUME NEW s \in Session, s \notin overtaken PROVE Kept(s)'
      BY <1>1 DEF Evidence
    <3>1. Kept(s)
      BY DEF IInv, Evidence
    <3>2. s \in owned' => Engaged(s)
      BY <1>1 DEF Engaged
    <3>3. /\ Engaged(s)' => Engaged(s)
          /\ \A d \in Command : IsPast(d)' /\ cmd'[d].s = s => (IsPast(d) /\ cmd[d].s = s) \/ Status(s) \in Terminal
      BY <2>3, <2>4, <3>2, MoveOf DEF IInv
    <3>4. Known(s)' => Known(s)
      BY <1>1, <2>6, <2>7 DEF Known
    <3> QED
      BY <1>1, <2>7, <3>1, <3>3, <3>4, SessionStays
  <2>10. ASSUME NEW d \in Command PROVE Placed(d)'
    <3>1. CASE d = c
      BY <1>1, <2>1, <2>3, <2>5, <3>1 DEF Placed
    <3>2. CASE d # c
      <4>1. \A s \in Session : Len(file'[s]) \in Nat /\ Len(file[s]) <= Len(file'[s])
        BY <1>1 DEF IInv, Types
      <4> QED
        BY <2>5, <2>7, <3>2, <4>1, PlacedGrows DEF IInv
    <3> QED
      BY <3>1, <3>2
  <2>11. Tickets'
    <3>1. /\ \A g \in gets : Ticketed(g)'
          /\ \A s \in Session : \A i \in 1..Len(queue[s]) : \A a \in Batches : a = queue[s][i] => Waited(s, a)'
      BY <1>1, <2>5, TicketsOfOthers DEF IInv
    <3>2. Waited(x, b)'
      BY <2>3, <2>5, <2>6 DEF Waited
    <3>3. (\A g \in gets : g.by # c) /\ \A s \in Session : \A i \in 1..Len(queue[s]) : queue[s][i].by # c
      BY <1>1, NoTicket DEF IInv
    <3>4. (\A g \in gets : g.by # b.by) /\ \A s \in Session : \A i \in 1..Len(queue[s]) : queue[s][i].by # b.by
      BY <2>6, <3>3
    <3>5. gets' = gets
      BY <1>1
    <3>6. b.by = NoCommand \/ ((\A g \in gets : g.by # b.by)
                               /\ \A s \in Session : \A i \in 1..Len(queue[s]) : queue[s][i].by # b.by)
      BY <3>4
    <3> QED
      BY <2>7, <3>1, <3>2, <3>5, <3>6, LongerTickets
  <2> QED
    BY <2>7, <2>8, <2>9, <2>10, <2>11 DEF IInv
<1> QED
  BY <1>2, <1>3, <1>4 DEF AskToFinish

-----------------------------------------------------------------------------
(* get *)

\* A get goes on to its next part.
LEMMA GetGoesKeeps ==
  ASSUME IInv, NEW g \in gets, NEW h \in Gets, GetGoes(g, h), h.s = g.s, h.by = g.by, h.id = g.id,
         h.pc = "write" => h.n <= Len(file[h.s]) /\ h.n <= MaxEvent,
         UNCHANGED <<disk, file, tail, pointer, brief, owned, blocked, broken, overtaken, queue, due, controller, cmd, found>>
  PROVE  IInv'
<1> USE DEF controller
<1>1. gets' = (gets \ {g}) \cup {h}
  BY DEF GetGoes
<1>2. Types'
  BY <1>1 DEF IInv, Types
<1>3. Chains' /\ Numbers'
  BY NumbersStay DEF IInv, Chains, Batched, Consecutive, Last
<1>4. Counts'
  <2>1. \A s \in Session : (s \in Writing)' <=> s \in Writing
    BY DEF Writing
  <2> QED
    BY <1>1, <2>1 DEF IInv, Counts, Last
<1>5. Evidence'
  <2>1. /\ \A s \in Session : Known(s)' => Known(s)
        /\ \A s \in Session : Engaged(s)' => Engaged(s)
        /\ \A s \in Session : \A d \in Command :
             IsPast(d)' /\ cmd'[d].s = s => (IsPast(d) /\ cmd[d].s = s) \/ Status(s) \in Terminal
    BY <1>1 DEF Known, Engaged, IsPast
  <2> QED
    BY <2>1, EvidenceStays DEF IInv
<1>6. \A d \in Command : Placed(d)'
  BY PlacedStays DEF IInv
<1>7. Tickets'
  <2>1. \A k \in gets : Ticketed(k)'
    BY DEF IInv, Tickets, Ticketed
  <2>2. Ticketed(h)'
    BY <2>1 DEF Ticketed
  <2>3. \A s \in Session : \A i \in 1..Len(queue[s]) : Waited(s, queue[s][i])'
    BY DEF IInv, Tickets, Waited, Last
  <2>4. \A k, m \in gets' : k.by = m.by /\ k.by # NoCommand => k = m
    <3>1. \A k, m \in gets : k.by = m.by /\ k.by # NoCommand => k = m
      BY DEF IInv, Tickets
    <3> QED
      BY <1>1, <3>1
  <2>5. \A s \in Session : \A i \in 1..Len(queue[s]) : \A k \in gets' : k.by = queue[s][i].by => k.by = NoCommand
    BY <1>1 DEF IInv, Tickets
  <2> QED
    BY <1>1, <2>1, <2>2, <2>3, <2>4, <2>5 DEF IInv, Tickets
<1> QED
  BY <1>2, <1>3, <1>4, <1>5, <1>6, <1>7 DEF IInv

\* What a get that is over leaves behind.
LEMMA GetOver ==
  ASSUME IInv, NEW g \in gets, gets' = gets \ {g}, UNCHANGED <<file, tail, pointer, brief, owned, blocked, broken, queue, due>>,
         disk' \in [Session -> DiskRows],
         \A s \in Session : disk'[s].persisted <= Len(file[s]) /\ disk'[s].persisted <= MaxEvent,
         active' \in Session \cup {None}, factory' \in [s : Session \cup {None}, next : Nat], pending' \in Seq(Nat),
         found' \in FoundRows, Numbers', NEW r \in CommandRows,
         (g.by = NoCommand /\ cmd' = cmd) \/ (g.by # NoCommand /\ cmd' = [cmd EXCEPT ![g.by] = r]),
         r.pc \in {"idle", "clear", "resume", "files", "ready"},
         r.pc = "clear" => r.op = "start" /\ r.s # None,
         r.pc = "ready" => r.s # None /\ r.due <= Len(file[r.s])
  PROVE  /\ Types' /\ Chains' /\ Counts' /\ (\A c \in Command : Placed(c)') /\ Tickets'
         /\ \A s \in Session : (s \in Writing)' <=> s \in Writing
         /\ \A s \in Session : Engaged(s)' => Engaged(s)
         /\ \A d \in Command : IsPast(d)' => IsPast(d) /\ cmd'[d].s = cmd[d].s
<1>1. g.by \in Commands /\ g \in Gets
  BY DEF IInv, Types, Gets
<1>2. \A d \in Command : d # g.by => cmd'[d] = cmd[d]
  BY DEF IInv, Types
<1>3. g.by # NoCommand => g.by \in Command /\ cmd'[g.by] = r
  BY <1>1 DEF Commands, IInv, Types
<1>4. cmd' \in [Command -> CommandRows]
  BY <1>3 DEF IInv, Types
<1>5. Types'
  BY <1>4 DEF IInv, Types, FoundRows
<1>6. Chains'
  BY ZenonT(60) DEF IInv, Chains, Batched, Consecutive, Last
<1>7. \A s \in Session : (s \in Writing)' <=> s \in Writing
  BY DEF Writing
<1>8. Counts'
  BY <1>7 DEF IInv, Counts, Last
<1>9. \A d \in Command : d # g.by \/ (g.by # NoCommand /\ cmd'[d] = r)
  BY <1>3, NoneNotSession
<1>10. ASSUME NEW d \in Command PROVE Placed(d)'
  <2>1. CASE d # g.by
    BY <1>2, <2>1, PlacedStays DEF IInv
  <2>2. CASE cmd'[d] = r
    BY <2>2 DEF Placed
  <2> QED
    BY <1>9, <2>1, <2>2
<1>11. \A s \in Session : Engaged(s)' => Engaged(s)
  BY <1>2, <1>9 DEF Engaged
<1>12. \A d \in Command : IsPast(d)' => IsPast(d) /\ cmd'[d].s = cmd[d].s
  BY <1>2, <1>9 DEF IsPast
<1>13. Tickets'
  <2>1. ASSUME NEW h \in gets' PROVE Ticketed(h)'
    <3>1. h.by # NoCommand => h.by # g.by
      BY <2>1 DEF IInv, Tickets
    <3>2. h.by \in Commands /\ Ticketed(h)
      BY <2>1 DEF IInv, Types, Gets, Tickets
    <3>3. h.by # NoCommand => cmd'[h.by] = cmd[h.by]
      BY <1>2, <3>1, <3>2 DEF Commands
    <3> QED
      BY <3>2, <3>3 DEF Ticketed
  <2>2. ASSUME NEW s \in Session, NEW i \in 1..Len(queue[s]) PROVE Waited(s, queue[s][i])'
    <3>0. queue[s] \in Seq(Batches)
      BY DEF IInv, Types
    <3>1. PICK b \in Batches : b = queue[s][i]
      BY <3>0
    <3>2. b.by # NoCommand => b.by # g.by
      BY <3>1 DEF IInv, Tickets
    <3>3. Waited(s, b) /\ b.by \in Commands
      BY <3>1 DEF IInv, Tickets, Batches
    <3>4. b.by # NoCommand => cmd'[b.by] = cmd[b.by]
      BY <1>2, <3>2, <3>3 DEF Commands
    <3>5. Waited(s, b)'
      BY <3>3, <3>4 DEF Waited
    <3> QED
      BY <3>1, <3>5
  <2>3. \A k, m \in gets' : k.by = m.by /\ k.by # NoCommand => k = m
    BY DEF IInv, Tickets
  <2>4. \A s \in Session : \A i \in 1..Len(queue[s]) : \A k \in gets' : k.by = queue[s][i].by => k.by = NoCommand
    BY DEF IInv, Tickets
  <2>5. queue' = queue
    OBVIOUS
  <2>6. \A s \in Session : \A i, j \in 1..Len(queue[s]) :
          queue[s][i].by = queue[s][j].by /\ queue[s][i].by # NoCommand => i = j
    BY DEF IInv, Tickets
  <2> QED
    BY <2>1, <2>2, <2>3, <2>4, <2>5, <2>6 DEF Tickets
<1> QED
  BY <1>5, <1>6, <1>7, <1>8, <1>10, <1>11, <1>12, <1>13

\* What a command does of the status it gets.
LEMMA GoOnRow ==
  ASSUME IInv, NEW c \in Command, NEW status, GoOn(c, status),
         cmd[c].pc \in {"find", "get"} \/ (cmd[c].pc = "flush" /\ cmd[c].due <= Len(file[cmd[c].s]))
  PROVE  \E r \in CommandRows :
           /\ cmd' = [cmd EXCEPT ![c] = r] /\ found' \in FoundRows
           /\ r.pc \in {"idle", "clear", "resume", "files", "ready"}
           /\ r.pc = "clear" => r.op = "start" /\ r.s # None
           /\ r.pc = "ready" => r.s # None /\ r.due <= Len(file[r.s])
<1>1. Placed(c) /\ cmd[c].s # None
  BY DEF IInv, Placed
<1>2. Ends(c) \/ \E p \in {"clear", "resume", "files", "ready"} :
        Step(c, p) /\ (p = "clear" => cmd[c].op = "start") /\ (p = "ready" => cmd[c].pc = "flush")
  <2>1. CASE cmd[c].op = "start"
    <3>1. Ends(c) \/ Step(c, "clear")
      BY <2>1 DEF GoOn
    <3> QED
      BY <2>1, <3>1
  <2>2. CASE cmd[c].op \in {"resume", "end"} /\ cmd[c].pc = "get"
    <3>1. Ends(c) \/ Step(c, "resume")
      BY <2>2 DEF GoOn
    <3> QED
      BY <3>1
  <2>3. CASE cmd[c].op = "export"
    <3>1. Step(c, "files")
      BY <2>3 DEF GoOn
    <3> QED
      BY <3>1
  <2>4. CASE cmd[c].op \notin {"start", "export"} /\ ~(cmd[c].op \in {"resume", "end"} /\ cmd[c].pc = "get")
    <3>1. Step(c, "ready")
      BY <2>4 DEF GoOn
    <3>2. cmd[c].pc = "flush"
      BY <1>1, <2>4 DEF Placed
    <3> QED
      BY <3>1, <3>2
  <2> QED
    BY <2>1, <2>2, <2>3, <2>4
<1>3. CASE Ends(c)
  <2>1. cmd' = [cmd EXCEPT ![c] = Idle] /\ found' \in FoundRows
    BY <1>3, EndsRow DEF IInv
  <2> QED
    BY <2>1, IdleRow
<1>4. ASSUME NEW p \in {"clear", "resume", "files", "ready"}, Step(c, p),
             p = "clear" => cmd[c].op = "start", p = "ready" => cmd[c].pc = "flush"
      PROVE  \E r \in CommandRows :
               /\ cmd' = [cmd EXCEPT ![c] = r] /\ found' \in FoundRows
               /\ r.pc \in {"idle", "clear", "resume", "files", "ready"}
               /\ r.pc = "clear" => r.op = "start" /\ r.s # None
               /\ r.pc = "ready" => r.s # None /\ r.due <= Len(file[r.s])
  <2>1. p \in Places
    BY Names
  <2>2. PICK r \in CommandRows :
          /\ cmd' = [cmd EXCEPT ![c] = r] /\ r.pc = p /\ r.op = cmd[c].op /\ r.s = cmd[c].s
          /\ r.outcome = cmd[c].outcome /\ r.due = cmd[c].due /\ found' = found
    BY <1>4, <2>1, StepRow DEF IInv
  <2>3. found' \in FoundRows
    BY <2>2 DEF IInv, Types, FoundRows
  <2> QED
    BY <1>1, <1>4, <2>2, <2>3
<1> QED
  BY <1>2, <1>3, <1>4

\* A get returns what it read, or fails.
LEMMA GetEnds ==
  ASSUME IInv, NEW g \in gets, NEW status, Returns(g, status) \/ GetFails(g),
         UNCHANGED <<file, tail, pointer, brief, owned, blocked, broken, queue, due>>,
         disk' \in [Session -> DiskRows],
         \A s \in Session : disk'[s].persisted <= Len(file[s]) /\ disk'[s].persisted <= MaxEvent
  PROVE  /\ Types' /\ Chains' /\ Counts' /\ Numbers' /\ (\A c \in Command : Placed(c)') /\ Tickets'
         /\ \A s \in Session : (s \in Writing)' <=> s \in Writing
         /\ \A s \in Session : Engaged(s)' => Engaged(s)
         /\ \A s \in Session : Known(s)' => Known(s)
         /\ \A d \in Command : IsPast(d)' => IsPast(d) /\ cmd'[d].s = cmd[d].s
<1>1. g \in Gets /\ g.s \in Session /\ g.by \in Commands /\ Ticketed(g) /\ gets' = gets \ {g}
  BY DEF IInv, Types, Gets, Tickets, Returns, GetFails
<1>2. OfFlush(g) => g.id # 0
  BY <1>1 DEF OfFlush, Ticketed
<1>3. g.by # NoCommand =>
        /\ g.by \in Command
        /\ cmd[g.by].pc \in {"find", "get"} \/ (cmd[g.by].pc = "flush" /\ cmd[g.by].due <= Len(file[cmd[g.by].s]))
  BY <1>1 DEF Ticketed, Commands
<1>4. /\ active' \in Session \cup {None} /\ factory' \in [s : Session \cup {None}, next : Nat] /\ pending' \in Seq(Nat)
      /\ Numbers' /\ \A s \in Session : Known(s)' => Known(s)
  <2>0. /\ active \in Session \cup {None} /\ factory \in [s : Session \cup {None}, next : Nat] /\ pending \in Seq(Nat)
        /\ Numbers
    BY DEF IInv, Types
  <2>1. CASE Returns(g, status)
    <3>1. UNCHANGED <<factory, pending, failure>> /\ active' = IF OfFlush(g) /\ active # None THEN g.s ELSE active
      BY <2>1 DEF Returns
    <3>2. active' # None => active # None
      BY <3>1
    <3>3. Numbers'
      BY <2>0, <3>1, <3>2, NumbersStay
    <3>4. \A s \in Session : Known(s)' => Known(s)
      BY <1>1, <1>2, <3>1 DEF Known
    <3> QED
      BY <1>1, <2>0, <3>1, <3>3, <3>4
  <2>2. CASE GetFails(g) /\ OfFlush(g)
    <3>0. Stop /\ Types
      BY <2>2 DEF GetFails, IInv
    <3>1. /\ active' = None /\ factory'.s = None /\ pending' = <<>>
          /\ factory' \in [s : Session \cup {None}, next : Nat] /\ Numbers'
      BY <2>0, <3>0, Stopped
    <3>2. \A s \in Session : Known(s)' => Known(s)
      BY <1>1, <3>1, NoneNotSession DEF Known
    <3>3. <<>> \in Seq(Nat)
      OBVIOUS
    <3> QED
      BY <3>1, <3>2, <3>3
  <2>3. CASE GetFails(g) /\ ~OfFlush(g)
    <3>1. UNCHANGED <<active, factory, pending, failure>>
      BY <2>3 DEF GetFails, controller
    <3>2. Numbers'
      BY <2>0, <3>1, NumbersStay
    <3>3. \A s \in Session : Known(s)' => Known(s)
      BY <1>1, <3>1 DEF Known
    <3> QED
      BY <2>0, <3>1, <3>2, <3>3
  <2> QED
    BY <2>1, <2>2, <2>3
<1>5. \E r \in CommandRows :
        /\ (g.by = NoCommand /\ cmd' = cmd) \/ (g.by # NoCommand /\ cmd' = [cmd EXCEPT ![g.by] = r])
        /\ found' \in FoundRows
        /\ r.pc \in {"idle", "clear", "resume", "files", "ready"}
        /\ r.pc = "clear" => r.op = "start" /\ r.s # None
        /\ r.pc = "ready" => r.s # None /\ r.due <= Len(file[r.s])
  <2>1. CASE g.by = NoCommand
    <3>1. cmd' = cmd /\ found' = found
      BY <2>1 DEF Returns, GetFails
    <3>2. found' \in FoundRows
      BY <3>1 DEF IInv, Types, FoundRows
    <3> QED
      BY <2>1, <3>1, <3>2, IdleRow
  <2>2. CASE g.by # NoCommand /\ GoOn(g.by, status)
    BY <1>3, <2>2, GoOnRow
  <2>3. CASE g.by # NoCommand /\ Ends(g.by)
    <3>1. cmd' = [cmd EXCEPT ![g.by] = Idle] /\ found' \in FoundRows
      BY <1>3, <2>3, EndsRow DEF IInv
    <3> QED
      BY <2>3, <3>1, IdleRow
  <2>4. g.by # NoCommand => GoOn(g.by, status) \/ Ends(g.by)
    BY DEF Returns, GetFails
  <2> QED
    BY <2>1, <2>2, <2>3, <2>4
<1>6. PICK r \in CommandRows :
        /\ (g.by = NoCommand /\ cmd' = cmd) \/ (g.by # NoCommand /\ cmd' = [cmd EXCEPT ![g.by] = r])
        /\ found' \in FoundRows
        /\ r.pc \in {"idle", "clear", "resume", "files", "ready"}
        /\ r.pc = "clear" => r.op = "start" /\ r.s # None
        /\ r.pc = "ready" => r.s # None /\ r.due <= Len(file[r.s])
  BY <1>5
<1>7. /\ Types' /\ Chains' /\ Counts' /\ (\A c \in Command : Placed(c)') /\ Tickets'
      /\ \A s \in Session : (s \in Writing)' <=> s \in Writing
      /\ \A s \in Session : Engaged(s)' => Engaged(s)
      /\ \A d \in Command : IsPast(d)' => IsPast(d) /\ cmd'[d].s = cmd[d].s
  BY <1>1, <1>4, <1>6, GetOver
<1> QED
  BY <1>4, <1>7

\* The same when it has written nothing.
LEMMA GetEndsKeeps ==
  ASSUME IInv, NEW g \in gets, NEW status, Returns(g, status) \/ GetFails(g),
         UNCHANGED <<disk, file, tail, pointer, brief, owned, blocked, broken, overtaken, queue, due>>
  PROVE  IInv'
<1>1. disk' \in [Session -> DiskRows]
  BY DEF IInv, Types
<1>2. \A s \in Session : disk'[s].persisted <= Len(file[s]) /\ disk'[s].persisted <= MaxEvent
  BY DEF IInv, Counts
<1>3. /\ Types' /\ Chains' /\ Counts' /\ Numbers' /\ (\A c \in Command : Placed(c)') /\ Tickets'
      /\ \A s \in Session : (s \in Writing)' <=> s \in Writing
      /\ \A s \in Session : Engaged(s)' => Engaged(s)
      /\ \A s \in Session : Known(s)' => Known(s)
      /\ \A d \in Command : IsPast(d)' => IsPast(d) /\ cmd'[d].s = cmd[d].s
  BY <1>1, <1>2, GetEnds
<1>4. \A s \in Session : \A d \in Command :
        IsPast(d)' /\ cmd'[d].s = s => (IsPast(d) /\ cmd[d].s = s) \/ Status(s) \in Terminal
  BY <1>3
<1>5. Evidence'
  BY <1>3, <1>4, EvidenceStays DEF IInv
<1> QED
  BY <1>3, <1>5 DEF IInv

\* A readable file has as many events as its session may have.
LEMMA ReadableBounded ==
  ASSUME IInv, NEW s \in Session, Readable(s)
  PROVE  Len(file[s]) \in Nat /\ Len(file[s]) <= MaxEvent
<1>1. PICK n \in Nat : n = Len(file[s])
  BY DEF IInv, Types
<1>2. \A i \in 1..n : file[s][i] = i /\ file[s][i] <= MaxEvent
  <2>1. file[s] \in Seq(Nat)
    BY DEF IInv, Types
  <2>2. DOMAIN file[s] = 1..n
    BY <1>1, <2>1
  <2>3. \A i \in 1..n : file[s][i] <= MaxEvent
    BY <1>1 DEF IInv, Counts
  <2> QED
    BY <2>2, <2>3 DEF Readable
<1>3. CASE n = 0
  BY <1>1, <1>3, BoundsAssumption
<1>4. CASE n # 0
  <2>1. n \in 1..n
    BY <1>4
  <2> QED
    BY <1>1, <1>2, <2>1
<1> QED
  BY <1>3, <1>4

\* A get that was late in writing has overtaken its session; one that was not has written
\* what the session's file holds.
LEMMA GetWriteKeeps ==
  ASSUME IInv, NEW g \in gets, Returns(g, "interrupted"), g.pc = "write",
         disk' = [disk EXCEPT ![g.s] = [status |-> "interrupted", persisted |-> g.n]],
         overtaken' = IF IsLate(g) THEN overtaken \cup {g.s} ELSE overtaken,
         UNCHANGED <<file, tail, pointer, brief, owned, blocked, broken, queue, due>>
  PROVE  IInv'
<1>1. g \in Gets /\ g.s \in Session /\ g.n \in Nat /\ g.n <= Len(file[g.s]) /\ g.n <= MaxEvent
  BY DEF IInv, Types, Gets, Counts
<1>2. PICK x \in Session : x = g.s
  BY <1>1
<1>3. PICK d \in DiskRows : d = [status |-> "interrupted", persisted |-> g.n]
  BY <1>1 DEF DiskRows, Statuses, Active
<1>4. /\ disk' \in [Session -> DiskRows] /\ disk'[x] = d /\ d.status = "interrupted" /\ d.persisted = g.n
      /\ \A s \in Session : s # x => disk'[s] = disk[s]
  BY <1>2, <1>3 DEF IInv, Types
<1>5. \A s \in Session : disk'[s].persisted <= Len(file[s]) /\ disk'[s].persisted <= MaxEvent
  BY <1>1, <1>2, <1>4 DEF IInv, Counts
<1>6. /\ Types' /\ Chains' /\ Counts' /\ Numbers' /\ (\A c \in Command : Placed(c)') /\ Tickets'
      /\ \A s \in Session : (s \in Writing)' <=> s \in Writing
      /\ \A s \in Session : Engaged(s)' => Engaged(s)
      /\ \A s \in Session : Known(s)' => Known(s)
      /\ \A c \in Command : IsPast(c)' => IsPast(c) /\ cmd'[c].s = cmd[c].s
  BY <1>4, <1>5, GetEnds
<1>7. Evidence'
  <2> SUFFICES ASSUME NEW s \in Session, s \notin overtaken' PROVE Kept(s)'
    BY DEF Evidence
  <2>1. s \notin overtaken /\ Kept(s)
    BY DEF IInv, Evidence
  <2>2. CASE s # x
    <3>1. \A c \in Command : IsPast(c)' /\ cmd'[c].s = s => (IsPast(c) /\ cmd[c].s = s) \/ Status(s) \in Terminal
      BY <1>6
    <3> QED
      BY <1>4, <1>6, <2>1, <2>2, <3>1, SessionStays
  <2>3. CASE s = x
    <3>1. Status(s) \notin Terminal /\ Readable(s) /\ Len(file[s]) = g.n
      BY <1>2, <2>3 DEF IsLate
    <3>2. Status(s)' = "interrupted" /\ disk'[s].persisted = Len(file'[s])
      BY <1>4, <2>3, <3>1, StatusOf, NoneNotSession DEF Status, IInv
    <3>3. Numbered(s)'
      BY <2>1 DEF Kept, Numbered, Consecutive
    <3>4. Counted(s)'
      <4>1. s \in Writing => Last(Head(queue[s])) = Len(file[s])
        BY <2>1 DEF Kept, Counted
      <4> QED
        BY <1>6, <3>2, <4>1 DEF Counted, Last
    <3>5. Whole(s)'
      BY <3>1, <3>2 DEF Whole, Readable
    <3>6. Told(s)'
      <4>1. brief[s] = NoBrief
        BY <2>1, <3>1 DEF Kept, Told
      <4> QED
        BY <4>1 DEF Told
    <3>7. Held(s)' /\ Past(s)'
      <4>1. Held(s)'
        BY <1>6, <2>1, <3>1 DEF Kept, Held
      <4>2. \A c \in Command : ~(IsPast(c)' /\ cmd'[c].s = s)
        BY <1>6, <2>1, <3>1 DEF Kept, Past
      <4> QED
        BY <4>1, <4>2 DEF Past
    <3> QED
      BY <3>3, <3>4, <3>5, <3>6, <3>7 DEF Kept
  <2> QED
    BY <2>2, <2>3
<1> QED
  BY <1>6, <1>7 DEF IInv

\* A step of a get.
LEMMA GetKeeps == ASSUME IInv, NEW g \in gets, GetStep(g) PROVE IInv'
<1>1. g \in Gets /\ g.s \in Session
  BY DEF IInv, Types, Gets
<1>2. CASE GetRead(g)
  <2>1. UNCHANGED <<disk, file, tail, pointer, brief, owned, blocked, broken, overtaken, queue, due>>
    BY <1>2 DEF GetRead, files, made, memory, told
  <2>2. CASE GetFails(g)
    BY <2>1, <2>2, GetEndsKeeps
  <2>3. CASE GetGoes(g, [g EXCEPT !.pc = "check", !.saw = Status(g.s)]) /\ UNCHANGED <<controller, cmd, found>>
    <3>1. PICK h : h = [g EXCEPT !.pc = "check", !.saw = Status(g.s)]
      OBVIOUS
    <3>2. Status(g.s) \in Statuses
      BY <1>1, StatusOf DEF IInv
    <3>3. h \in Gets /\ h.s = g.s /\ h.by = g.by /\ h.id = g.id /\ h.pc = "check"
      BY <1>1, <3>1, <3>2 DEF Gets
    <3> QED
      BY <2>1, <2>3, <3>1, <3>3, GetGoesKeeps
  <2> QED
    BY <1>2, <2>2, <2>3 DEF GetRead
<1>3. CASE GetCheck(g)
  <2>1. UNCHANGED <<disk, file, tail, pointer, brief, owned, blocked, broken, overtaken, queue, due>>
    BY <1>3 DEF GetCheck, files, made, memory, told
  <2>2. CASE Returns(g, g.saw)
    BY <2>1, <2>2, GetEndsKeeps
  <2>3. CASE GetGoes(g, [g EXCEPT !.pc = "count"]) /\ UNCHANGED <<controller, cmd, found>>
    <3>1. PICK h : h = [g EXCEPT !.pc = "count"]
      OBVIOUS
    <3>2. h \in Gets /\ h.s = g.s /\ h.by = g.by /\ h.id = g.id /\ h.pc = "count"
      BY <1>1, <3>1 DEF Gets
    <3> QED
      BY <2>1, <2>3, <3>1, <3>2, GetGoesKeeps
  <2> QED
    BY <1>3, <2>2, <2>3 DEF GetCheck
<1>4. CASE GetCount(g)
  <2>1. UNCHANGED <<disk, file, tail, pointer, brief, owned, blocked, broken, overtaken, queue, due>>
    BY <1>4 DEF GetCount, files, made, memory, told
  <2>2. CASE GetFails(g)
    BY <2>1, <2>2, GetEndsKeeps
  <2>3. CASE Readable(g.s) /\ GetGoes(g, [g EXCEPT !.pc = "write", !.n = Len(file[g.s])]) /\ UNCHANGED <<controller, cmd, found>>
    <3>1. PICK h : h = [g EXCEPT !.pc = "write", !.n = Len(file[g.s])]
      OBVIOUS
    <3>2. PICK n \in Nat : n = Len(file[g.s]) /\ n <= MaxEvent
      BY <1>1, <2>3, ReadableBounded
    <3>3. h \in Gets /\ h.s = g.s /\ h.by = g.by /\ h.id = g.id /\ h.n = n
      BY <1>1, <3>1, <3>2 DEF Gets
    <3>4. h.n <= Len(file[h.s]) /\ h.n <= MaxEvent
      BY <3>2, <3>3
    <3> QED
      BY <2>1, <2>3, <3>1, <3>3, <3>4, GetGoesKeeps
  <2> QED
    BY <1>4, <2>2, <2>3 DEF GetCount
<1>5. CASE GetWrite(g)
  <2>1. g.pc = "write" /\ UNCHANGED <<file, tail, pointer, brief, owned, blocked, broken, queue, due>>
    BY <1>5 DEF GetWrite, made, memory
  <2>2. CASE GetFails(g) /\ UNCHANGED <<disk, overtaken>>
    BY <2>1, <2>2, GetEndsKeeps
  <2>3. CASE /\ disk' = [disk EXCEPT ![g.s] = [status |-> "interrupted", persisted |-> g.n]]
             /\ overtaken' = IF IsLate(g) THEN overtaken \cup {g.s} ELSE overtaken
             /\ Returns(g, "interrupted")
    BY <2>1, <2>3, GetWriteKeeps
  <2> QED
    BY <1>5, <2>2, <2>3 DEF GetWrite
<1> QED
  BY <1>2, <1>3, <1>4, <1>5 DEF GetStep

-----------------------------------------------------------------------------
(* A flush that fails *)

\* What becomes of the commands.
LEMMA FailRows ==
  ASSUME IInv, NEW x \in Session, Fail(x)
  PROVE  /\ cmd' \in [Command -> CommandRows]
         /\ \A d \in Command :
              \/ cmd'[d] = cmd[d] /\ ~(cmd[d].s = x /\ \E i \in 1..Len(queue[x]) : Awaits(d, queue[x][i]))
              \/ /\ cmd'[d].pc = "failed" /\ cmd[d].s = x /\ cmd[d].pc \in {"flush", "drain"}
                 /\ \E i \in 1..Len(queue[x]) : Awaits(d, queue[x][i])
<1>1. DOMAIN queue[x] = 1..Len(queue[x])
  BY DEF IInv, Types
<1>2. ASSUME NEW d \in Command
      PROVE  /\ cmd'[d] \in CommandRows
             /\ \/ cmd'[d] = cmd[d] /\ ~(cmd[d].s = x /\ \E i \in 1..Len(queue[x]) : Awaits(d, queue[x][i]))
                \/ /\ cmd'[d].pc = "failed" /\ cmd[d].s = x /\ cmd[d].pc \in {"flush", "drain"}
                   /\ \E i \in 1..Len(queue[x]) : Awaits(d, queue[x][i])
  <2>0. cmd[d] \in CommandRows /\ "failed" \in Places
    BY Names DEF IInv, Types
  <2>1. PICK r : r = [cmd[d] EXCEPT !.pc = "failed"]
    OBVIOUS
  <2>2. r \in CommandRows /\ r.pc = "failed"
    BY <2>0, <2>1, WithPlace
  <2>3. cmd'[d] = IF cmd[d].s = x /\ \E i \in 1..Len(queue[x]) : Awaits(d, queue[x][i]) THEN r ELSE cmd[d]
    BY <1>1, <2>1 DEF Fail
  <2>4. CASE cmd[d].s = x /\ \E i \in 1..Len(queue[x]) : Awaits(d, queue[x][i])
    <3>1. cmd[d].pc \in {"flush", "drain"}
      BY <2>4 DEF Awaits
    <3> QED
      BY <2>2, <2>3, <2>4, <3>1
  <2>5. CASE ~(cmd[d].s = x /\ \E i \in 1..Len(queue[x]) : Awaits(d, queue[x][i]))
    BY <2>0, <2>3, <2>5
  <2> QED
    BY <2>4, <2>5
<1>3. cmd' = [d \in Command |-> cmd'[d]]
  BY DEF Fail
<1> QED
  BY <1>2, <1>3

\* What is left of the rest, whatever was written.
LEMMA FailKeeps ==
  ASSUME IInv, NEW x \in Session, Fail(x), UNCHANGED <<disk, pointer, brief, owned, overtaken, gets, due, found>>,
         file' \in [Session -> Seq(Nat)], tail' \in [Session -> {"ended", "bare", "torn", "joined"}],
         \A s \in Session : s # x => file'[s] = file[s] /\ tail'[s] = tail[s],
         \A s \in Session : Len(file[s]) <= Len(file'[s]),
         \A s \in Session : \A i \in 1..Len(file'[s]) : file'[s][i] <= MaxEvent,
         \A s \in Session : s # x => ((s \in blocked') <=> (s \in blocked)) /\ ((s \in broken') <=> (s \in broken)),
         x \notin overtaken => Kept(x)'
  PROVE  IInv'
<1>1. /\ cmd' \in [Command -> CommandRows]
      /\ \A d \in Command :
           \/ cmd'[d] = cmd[d] /\ ~(cmd[d].s = x /\ \E i \in 1..Len(queue[x]) : Awaits(d, queue[x][i]))
           \/ /\ cmd'[d].pc = "failed" /\ cmd[d].s = x /\ cmd[d].pc \in {"flush", "drain"}
              /\ \E i \in 1..Len(queue[x]) : Awaits(d, queue[x][i])
  BY FailRows
<1>2. /\ queue' \in [Session -> Seq(Batches)] /\ queue'[x] = <<>> /\ Len(queue'[x]) = 0 /\ \A s \in Session : s # x => queue'[s] = queue[s]
  <2>1. queue \in [Session -> Seq(Batches)] /\ queue' = [queue EXCEPT ![x] = <<>>]
    BY DEF IInv, Types, Fail
  <2>2. <<>> \in Seq(Batches) /\ Len(<<>>) = 0
    OBVIOUS
  <2> QED
    BY <2>1, <2>2
<1>3. /\ active' = None /\ factory'.s = None /\ pending' = <<>> /\ pending' \in Seq(Nat)
      /\ factory' \in [s : Session \cup {None}, next : Nat] /\ Numbers'
  <2>1. Types /\ Numbers /\ Stop
    BY DEF IInv, Fail
  <2>2. <<>> \in Seq(Nat)
    OBVIOUS
  <2> QED
    BY <2>1, <2>2, Stopped
<1>4. Types'
  <2>1. active' \in Session \cup {None} /\ pointer' \in Session \cup {None} /\ gets' \subseteq Gets
    BY <1>3 DEF IInv, Types
  <2> QED
    BY <1>1, <1>2, <1>3, <2>1 DEF IInv, Types
<1>5. Chains'
  <2> SUFFICES ASSUME NEW s \in Session, NEW i \in 1..Len(queue'[s])
               PROVE  Batched(queue'[s][i]) /\ (queue'[s][i].pc = "written" => i = 1)
    BY DEF Chains, Batched, Consecutive, Last
  <2>1. s # x /\ queue'[s] = queue[s]
    BY <1>2
  <2> QED
    BY <2>1 DEF IInv, Chains
<1>6. \A s \in Session : s \in Writing' <=> s # x /\ s \in Writing
  BY <1>2 DEF Writing
<1>7. Counts'
  <2>1. ASSUME NEW s \in Session
        PROVE  /\ disk'[s].persisted <= Len(file'[s]) /\ disk'[s].persisted <= MaxEvent
               /\ due'[s] <= Len(file'[s])
               /\ s \in Writing' => Last(Head(queue'[s])) <= Len(file'[s])
    <3>1. PICK m \in Nat, n \in Nat : m = Len(file[s]) /\ n = Len(file'[s]) /\ m <= n
      BY DEF IInv, Types
    <3>2. disk[s].persisted \in Nat /\ due[s] \in Nat /\ disk[s].persisted <= m /\ due[s] <= m /\ disk[s].persisted <= MaxEvent
      BY <3>1, StatusOf DEF IInv, Types, Counts
    <3>3. s \in Writing' => s # x /\ Last(Head(queue[s])) <= m
      BY <1>6, <3>1 DEF IInv, Counts
    <3> QED
      BY <1>2, <3>1, <3>2, <3>3
  <2>2. ASSUME NEW g \in gets', g.pc = "write" PROVE g.n <= Len(file'[g.s]) /\ g.n <= MaxEvent
    <3>1. g \in Gets /\ g.n <= Len(file[g.s]) /\ g.n <= MaxEvent
      BY <2>2 DEF IInv, Types, Counts
    <3>2. PICK s \in Session, k \in Nat : s = g.s /\ k = g.n
      BY <3>1 DEF Gets
    <3>3. PICK m \in Nat, n \in Nat : m = Len(file[s]) /\ n = Len(file'[s]) /\ m <= n
      BY DEF IInv, Types
    <3> QED
      BY <3>1, <3>2, <3>3
  <2>3. \A s \in Session : s \in Writing' => Last(Head(queue[s]))' <= Len(file'[s])
    BY <2>1 DEF Last
  <2> QED
    BY <2>1, <2>2, <2>3 DEF Counts
<1>8. \A s \in Session : Known(s)' => Known(s)
  BY <1>2, <1>3, NoneNotSession DEF Known
<1>9. \A d \in Command : IsPast(d)' => IsPast(d) /\ cmd'[d].s = cmd[d].s
  BY <1>1 DEF IsPast
<1>10. \A s \in Session : Engaged(s)' => Engaged(s)
  BY <1>1 DEF Engaged
<1>11. Evidence'
  <2> SUFFICES ASSUME NEW s \in Session, s \notin overtaken PROVE Kept(s)'
    BY DEF Evidence
  <2>1. CASE s = x
    BY <2>1
  <2>2. CASE s # x
    <3>1. Kept(s)
      BY DEF IInv, Evidence
    <3>2. \A c \in Command : IsPast(c)' /\ cmd'[c].s = s => (IsPast(c) /\ cmd[c].s = s) \/ Status(s) \in Terminal
      BY <1>9
    <3> QED
      BY <1>2, <1>6, <1>8, <1>10, <2>2, <3>1, <3>2, SessionStays
  <2> QED
    BY <2>1, <2>2
<1>12. ASSUME NEW d \in Command PROVE Placed(d)'
  <2>1. CASE cmd'[d] = cmd[d] /\ ~(cmd[d].s = x /\ \E i \in 1..Len(queue[x]) : Awaits(d, queue[x][i]))
    <3>1. \A s \in Session : Len(file'[s]) \in Nat /\ Len(file[s]) <= Len(file'[s])
      OBVIOUS
    <3>2. ASSUME cmd[d].pc = "drain", NEW s \in Session, NEW n \in Nat, s = cmd[d].s, n = cmd[d].due, Covered(s, n)
          PROVE  Covered(s, n)'
      <4>0. PICK m \in Nat, k \in Nat : m = Len(file[s]) /\ k = Len(file'[s]) /\ m <= k
        BY DEF IInv, Types
      <4>1. CASE n <= Len(file[s])
        <5>1. n <= k
          BY <4>0, <4>1
        <5> QED
          BY <4>0, <5>1 DEF Covered
      <4>2. CASE \E i \in 1..Len(queue[s]) : queue[s][i].events[1] <= n /\ n <= Last(queue[s][i])
        <5>1. PICK i \in 1..Len(queue[s]) : queue[s][i].events[1] <= n /\ n <= Last(queue[s][i])
          BY <4>2
        <5>2. CASE s # x
          <6>1. queue'[s] = queue[s]
            BY <1>2, <5>2
          <6> QED
            BY <5>1, <6>1 DEF Covered, Last
        <5>3. CASE s = x
          <6>0. queue[x] \in Seq(Batches)
            BY DEF IInv, Types
          <6>1. queue[x][i] \in Batches /\ Batched(queue[x][i])
            BY <5>3, <6>0 DEF IInv, Chains
          <6>2. Head(queue[x][i].events) = queue[x][i].events[1]
            BY <6>1, BatchNumbers
          <6>3. Awaits(d, queue[x][i])
            BY <3>2, <5>1, <5>3, <6>2 DEF Awaits
          <6> QED
            BY <2>1, <3>2, <5>3, <6>3
        <5> QED
          BY <5>2, <5>3
      <4> QED
        BY <3>2, <4>1, <4>2 DEF Covered
    <3>3. Types /\ Placed(d)
      BY DEF IInv
    <3>4. cmd[d].pc = "drain" =>
            \A s \in Session, n \in Nat : s = cmd[d].s /\ n = cmd[d].due /\ Covered(s, n) => Covered(s, n)'
      BY <3>2
    <3>5. cmd'[d] = cmd[d]
      BY <2>1
    <3> QED
      BY <3>1, <3>3, <3>4, <3>5, PlacedGrows
  <2>2. CASE cmd'[d].pc = "failed"
    BY <2>2 DEF Placed
  <2> QED
    BY <1>1, <2>1, <2>2
<1>13. Tickets'
  <2>1. ASSUME NEW g \in gets PROVE Ticketed(g)'
    <3>0. g.by \in Commands /\ Ticketed(g)
      BY DEF IInv, Types, Gets, Tickets
    <3>1. CASE g.by = NoCommand
      BY <3>0, <3>1 DEF Ticketed
    <3>2. CASE g.by # NoCommand
      <4>0. g.by \in Command
        BY <3>0, <3>2 DEF Commands
      <4>1. ~\E i \in 1..Len(queue[x]) : queue[x][i].by = g.by
        BY <3>2 DEF IInv, Tickets
      <4>2. cmd[g.by].pc \in {"find", "get", "flush"}
        BY <3>0, <3>2 DEF Ticketed
      <4>3. cmd'[g.by] = cmd[g.by]
        BY <1>1, <4>0, <4>1, <4>2 DEF Awaits
      <4>4. CASE cmd[g.by].pc = "flush" /\ g.id # 0
        <5>1. cmd[g.by] \in CommandRows /\ cmd[g.by].s # None /\ cmd[g.by].due <= Len(file[cmd[g.by].s])
          BY <3>0, <3>2, <4>0, <4>4 DEF IInv, Types, Placed, Ticketed
        <5>2. PICK s \in Session, n \in Nat : s = cmd[g.by].s /\ n = cmd[g.by].due
          BY <5>1 DEF CommandRows
        <5>3. PICK m \in Nat, k \in Nat : m = Len(file[s]) /\ k = Len(file'[s]) /\ m <= k
          BY DEF IInv, Types
        <5>4. n <= k
          BY <5>1, <5>2, <5>3
        <5> QED
          BY <3>2, <4>3, <4>4, <5>2, <5>3, <5>4 DEF Ticketed
      <4>5. CASE cmd[g.by].pc # "flush" \/ g.id = 0
        BY <3>0, <3>2, <4>3, <4>5 DEF Ticketed
      <4> QED
        BY <4>4, <4>5
    <3> QED
      BY <3>1, <3>2
  <2>2. ASSUME NEW s \in Session, NEW i \in 1..Len(queue'[s]) PROVE Waited(s, queue[s][i])'
    <3>a. queue[s] \in Seq(Batches)
      BY DEF IInv, Types
    <3>0. s # x /\ queue'[s] = queue[s] /\ queue[s] \in Seq(Batches)
      BY <1>2, <3>a
    <3>1. PICK b \in Batches : b = queue[s][i] /\ b = queue'[s][i]
      BY <3>0
    <3>2. Waited(s, b) /\ b.by \in Commands
      BY <3>0, <3>1 DEF IInv, Tickets, Batches
    <3>3. b.by # NoCommand => cmd'[b.by] = cmd[b.by]
      BY <1>1, <3>0, <3>2 DEF Waited, Commands
    <3>4. Waited(s, b)'
      BY <3>2, <3>3 DEF Waited
    <3> QED
      BY <3>1, <3>4
  <2>3. \A g, h \in gets : g.by = h.by /\ g.by # NoCommand => g = h
    BY DEF IInv, Tickets
  <2>4. \A s \in Session : \A i \in 1..Len(queue'[s]) : s # x /\ queue'[s] = queue[s] /\ i \in 1..Len(queue[s])
    BY <1>2
  <2>5. \A s \in Session : \A i \in 1..Len(queue'[s]) : \A g \in gets : g.by = queue'[s][i].by => g.by = NoCommand
    BY <2>4 DEF IInv, Tickets
  <2>6. \A s \in Session : \A i, j \in 1..Len(queue'[s]) :
          queue'[s][i].by = queue'[s][j].by /\ queue'[s][i].by # NoCommand => i = j
    BY <2>4 DEF IInv, Tickets
  <2>7. gets' = gets
    OBVIOUS
  <2> QED
    BY <2>1, <2>2, <2>3, <2>5, <2>6, <2>7 DEF Tickets
<1> QED
  BY <1>3, <1>4, <1>5, <1>7, <1>11, <1>12, <1>13 DEF IInv

-----------------------------------------------------------------------------
(* Writing events *)

\* No batch goes beyond the bound of the events.
LEMMA BatchBound ==
  ASSUME NEW b \in Batches, Batched(b)
  PROVE  \E l \in Nat, f \in Nat : l = Len(b.events) /\ f = b.events[1] /\ l >= 1 /\ f + l - 1 <= MaxEvent
<1>1. b.events[1] \in Nat /\ Len(b.events) \in Nat \ {0} /\ Last(b) = b.events[1] + Len(b.events) - 1 /\ Last(b) <= MaxEvent
  BY BatchNumbers DEF Batched
<1> QED
  BY <1>1

\* A batch that continues a file of m events.
LEMMA Continued ==
  ASSUME NEW m \in Nat, NEW l \in Nat, NEW f \in Nat, NEW n \in Nat, f = m + 1, f + l - 1 <= n
  PROVE  m + l <= n
OBVIOUS

\* Less than something that is less.
LEMMA Between ==
  ASSUME NEW a \in Nat, NEW b \in Nat, NEW c \in Nat, a <= b, b <= c
  PROVE  a <= c
OBVIOUS

\* What is in a file that something is added to.
LEMMA Grows ==
  ASSUME Types, NEW s \in Session, NEW e \in Seq(Nat), file' = [file EXCEPT ![s] = file[s] \o e]
  PROVE  /\ file' \in [Session -> Seq(Nat)] /\ \A r \in Session : r # s => file'[r] = file[r]
         /\ Len(file'[s]) = Len(file[s]) + Len(e) /\ Len(e) \in Nat /\ Len(file[s]) \in Nat
         /\ \A i \in 1..Len(file[s]) : file'[s][i] = file[s][i]
         /\ \A i \in 1..Len(e) : file'[s][Len(file[s]) + i] = e[i]
         /\ \A i \in 1..Len(file'[s]) : i \in 1..Len(file[s]) \/ \E j \in 1..Len(e) : i = Len(file[s]) + j
         /\ \A r \in Session : Len(file[r]) <= Len(file'[r])
<1>1. file \in [Session -> Seq(Nat)] /\ file[s] \in Seq(Nat)
  BY DEF Types
<1>2. file'[s] = file[s] \o e /\ file[s] \o e \in Seq(Nat) /\ \A r \in Session : r # s => file'[r] = file[r]
  BY <1>1
<1>3. file' \in [Session -> Seq(Nat)]
  BY <1>1, <1>2
<1>4. PICK m \in Nat, k \in Nat : m = Len(file[s]) /\ k = Len(e)
  BY <1>1
<1>5. /\ Len(file'[s]) = m + k
      /\ \A i \in 1..m : file'[s][i] = file[s][i]
      /\ \A i \in 1..k : file'[s][m + i] = e[i]
  BY <1>1, <1>2, <1>4
<1>6. \A i \in 1..m + k : i \in 1..m \/ \E j \in 1..k : i = m + j
  <2> SUFFICES ASSUME NEW i \in 1..m + k, i \notin 1..m PROVE \E j \in 1..k : i = m + j
    OBVIOUS
  <2>1. i - m \in 1..k /\ i = m + (i - m)
    OBVIOUS
  <2> QED
    BY <2>1
<1>7. \A r \in Session : Len(file[r]) <= Len(file'[r])
  <2>1. ASSUME NEW r \in Session PROVE Len(file[r]) <= Len(file'[r])
    <3>1. CASE r = s
      BY <1>4, <1>5, <3>1
    <3>2. CASE r # s
      <4>1. Len(file[r]) \in Nat /\ file'[r] = file[r]
        BY <1>1, <1>2, <3>2
      <4> QED
        BY <4>1
    <3> QED
      BY <3>1, <3>2
  <2> QED
    BY <2>1
<1>8. \A i \in 1..Len(file'[s]) : i \in 1..Len(file[s]) \/ \E j \in 1..Len(e) : i = Len(file[s]) + j
  BY <1>4, <1>5, <1>6
<1>9. /\ Len(file'[s]) = Len(file[s]) + Len(e) /\ Len(e) \in Nat /\ Len(file[s]) \in Nat
      /\ \A i \in 1..Len(file[s]) : file'[s][i] = file[s][i]
      /\ \A i \in 1..Len(e) : file'[s][Len(file[s]) + i] = e[i]
  BY <1>4, <1>5
<1> QED
  BY <1>2, <1>3, <1>7, <1>8, <1>9

\* What is added of a batch has its numbers.
LEMMA GrowsNumbered ==
  ASSUME Types, Counts, NEW s \in Session, NEW b \in Batches, Batched(b), NEW k \in 0..Len(b.events),
         NEW e \in Seq(Nat), Len(e) = k, \A i \in 1..k : e[i] = b.events[i],
         file' = [file EXCEPT ![s] = file[s] \o e]
  PROVE  /\ \A r \in Session : \A i \in 1..Len(file'[r]) : file'[r][i] <= MaxEvent
         /\ Numbered(s) /\ b.events[1] = Len(file[s]) + 1 => Numbered(s)'
<1>1. /\ file' \in [Session -> Seq(Nat)] /\ \A r \in Session : r # s => file'[r] = file[r]
      /\ Len(file'[s]) = Len(file[s]) + Len(e) /\ Len(e) \in Nat /\ Len(file[s]) \in Nat
      /\ \A i \in 1..Len(file[s]) : file'[s][i] = file[s][i]
      /\ \A i \in 1..Len(e) : file'[s][Len(file[s]) + i] = e[i]
      /\ \A i \in 1..Len(file'[s]) : i \in 1..Len(file[s]) \/ \E j \in 1..Len(e) : i = Len(file[s]) + j
      /\ \A r \in Session : Len(file[r]) <= Len(file'[r])
  BY Grows
<1>2. PICK m \in Nat : m = Len(file[s])
  BY <1>1
<1>3. PICK l \in Nat, f \in Nat : l = Len(b.events) /\ f = b.events[1] /\ l >= 1 /\ f + l - 1 <= MaxEvent
  BY BatchBound
<1>4. k \in Nat /\ k <= l /\ \A j \in 1..k : file'[s][m + j] = f + j - 1
  <2>1. k \in Nat /\ k <= l
    BY <1>3
  <2>2. ASSUME NEW j \in 1..k PROVE file'[s][m + j] = f + j - 1
    <3>1. j \in 1..l
      BY <2>1
    <3> QED
      BY <1>1, <1>2, <1>3, <3>1 DEF Batched, Consecutive
  <2> QED
    BY <2>1, <2>2
<1>5. ASSUME NEW r \in Session, NEW i \in 1..Len(file'[r]) PROVE file'[r][i] <= MaxEvent
  <2>1. CASE r # s
    BY <1>1, <2>1 DEF Counts
  <2>2. CASE r = s /\ i \in 1..Len(file[s])
    BY <1>1, <2>2 DEF Counts
  <2>3. CASE r = s /\ \E j \in 1..k : i = m + j
    <3>1. PICK j \in 1..k : i = m + j
      BY <2>3
    <3>2. f + j - 1 <= MaxEvent
      BY <1>3, <1>4, BoundsAssumption
    <3> QED
      BY <1>4, <2>3, <3>1, <3>2
  <2> QED
    BY <1>1, <1>2, <2>1, <2>2, <2>3, ZenonT(60)
<1>6. ASSUME Numbered(s), f = m + 1 PROVE Numbered(s)'
  <2>1. m + k <= MaxEvent
    <3>1. m \in Nat /\ l \in Nat /\ k \in Nat /\ k <= l /\ MaxEvent \in Nat
      BY <1>2, <1>3, <1>4, BoundsAssumption
    <3>2. m + l <= MaxEvent
      BY <1>3, <1>6, <3>1, Continued
    <3> QED
      BY <3>1, <3>2
  <2>2. ASSUME NEW i \in 1..Len(file'[s]) PROVE file'[s][i] = 1 + i - 1
    <3>1. CASE i \in 1..m
      BY <1>1, <1>2, <1>6, <3>1 DEF Numbered, Consecutive
    <3>2. CASE \E j \in 1..k : i = m + j
      <4>1. PICK j \in 1..k : i = m + j
        BY <3>2
      <4> QED
        BY <1>2, <1>4, <1>6, <4>1
    <3> QED
      BY <1>1, <1>2, <3>1, <3>2
  <2> QED
    BY <1>1, <1>2, <2>1, <2>2 DEF Numbered, Consecutive
<1> QED
  BY <1>2, <1>3, <1>5, <1>6

\* What append accepts continues the file.
LEMMA AcceptedNext ==
  ASSUME IInv, NEW s \in Session, s \notin overtaken, queue[s] # <<>>, Head(queue[s]).pc = "queued", Accepts(s, Head(queue[s]))
  PROVE  Head(queue[s]).events[1] = Len(file[s]) + 1 /\ Status(s) = "collecting" /\ s \in owned /\ s \notin Writing
<1>1. Kept(s) /\ s \notin Writing
  BY DEF IInv, Evidence, Writing
<1>2. Status(s) = "collecting" /\ s \notin blocked /\ Head(Head(queue[s]).events) = disk[s].persisted + 1
  BY DEF Accepts
<1>3. s \in owned
  BY <1>1, <1>2 DEF Kept, Held, Known, Terminal
<1>4. disk[s].persisted = Len(file[s])
  BY <1>1, <1>2, <1>3 DEF Kept, Counted, Engaged
<1>5. Head(queue[s]) \in Batches /\ Batched(Head(queue[s]))
  BY FirstOf DEF IInv
<1>6. Head(queue[s]).events[1] = Head(Head(queue[s]).events)
  BY <1>5, BatchNumbers
<1> QED
  BY <1>1, <1>2, <1>3, <1>4, <1>6

\* A write that is cut adds a part of a batch.
LEMMA CutPart ==
  ASSUME Types, NEW s \in Session, NEW b \in Batches, Cut(s, b)
  PROVE  \E k \in 0..Len(b.events), e \in Seq(Nat) :
           /\ Len(e) = k /\ (\A i \in 1..k : e[i] = b.events[i]) /\ file' = [file EXCEPT ![s] = file[s] \o e]
           /\ tail' \in [Session -> {"ended", "bare", "torn", "joined"}] /\ \A r \in Session : r # s => tail'[r] = tail[r]
<1>1. b.events \in Seq(Nat)
  BY DEF Batches
<1>2. PICK k \in 0..Len(b.events), end \in {"ended", "bare", "torn"} :
        /\ file' = [file EXCEPT ![s] = file[s] \o SubSeq(b.events, 1, k)]
        /\ tail' = IF k = 0 /\ end = "ended" THEN tail ELSE Lengthened(s, end)
  BY DEF Cut
<1>3. PICK e : e = SubSeq(b.events, 1, k)
  OBVIOUS
<1>4. e \in Seq(Nat) /\ Len(e) = k /\ \A i \in 1..k : e[i] = b.events[i]
  BY <1>1, <1>3
<1>5. tail \in [Session -> {"ended", "bare", "torn", "joined"}]
  BY DEF Types
<1>6. Lengthened(s, end) \in [Session -> {"ended", "bare", "torn", "joined"}]
      /\ \A r \in Session : r # s => Lengthened(s, end)[r] = tail[r]
  BY <1>5 DEF Lengthened
<1>7. tail' \in [Session -> {"ended", "bare", "torn", "joined"}] /\ \A r \in Session : r # s => tail'[r] = tail[r]
  BY <1>2, <1>5, <1>6
<1> QED
  BY <1>2, <1>3, <1>4, <1>7

\* The events of a flush are written.
LEMMA WrittenKeeps ==
  ASSUME IInv, NEW s \in Session, queue[s] # <<>>, Head(queue[s]).pc = "queued", Accepts(s, Head(queue[s])),
         file' = [file EXCEPT ![s] = file[s] \o Head(queue[s]).events],
         tail' = Lengthened(s, "ended"), queue' = [queue EXCEPT ![s][1].pc = "written"],
         UNCHANGED <<disk, pointer, brief, owned, blocked, broken, overtaken, gets, due, found, controller, cmd>>
  PROVE  IInv'
<1> USE DEF controller
<1>1. PICK b \in Batches : b = Head(queue[s]) /\ b = queue[s][1] /\ Batched(b)
  BY FirstOf DEF IInv
<1>2. PICK w : w = [b EXCEPT !.pc = "written"]
  OBVIOUS
<1>3. w \in Batches /\ w.events = b.events /\ w.by = b.by /\ w.pc = "written" /\ Batched(w) /\ Last(w) = Last(b)
  <2>1. w \in Batches /\ w.events = b.events /\ w.by = b.by /\ w.pc = "written"
    BY <1>2 DEF Batches
  <2> QED
    BY <1>1, <2>1 DEF Batched, Last
<1>4. /\ queue' \in [Session -> Seq(Batches)] /\ \A r \in Session : r # s => queue'[r] = queue[r]
      /\ Len(queue'[s]) = Len(queue[s]) /\ queue'[s] # <<>> /\ queue'[s][1] = w /\ Head(queue'[s]) = w
      /\ \A i \in 1..Len(queue[s]) : i # 1 => queue'[s][i] = queue[s][i]
  <2>1. queue[s] \in Seq(Batches) /\ 1 \in 1..Len(queue[s]) /\ queue \in [Session -> Seq(Batches)]
    BY FirstOf DEF IInv, Types
  <2>2. PICK q : q = [queue[s] EXCEPT ![1] = w]
    OBVIOUS
  <2>3. q \in Seq(Batches) /\ Len(q) = Len(queue[s]) /\ q[1] = w /\ \A i \in 1..Len(queue[s]) : i # 1 => q[i] = queue[s][i]
    BY <1>3, <2>1, <2>2
  <2>4. q # <<>> /\ Head(q) = w
    BY <2>1, <2>3
  <2>5. queue' = [queue EXCEPT ![s] = q]
    BY <1>1, <1>2, <2>2
  <2> QED
    BY <2>1, <2>3, <2>4, <2>5
<1>5. PICK e \in Seq(Nat) : e = b.events
  BY DEF Batches
<1>6. /\ file' \in [Session -> Seq(Nat)] /\ \A r \in Session : r # s => file'[r] = file[r]
      /\ Len(file'[s]) = Len(file[s]) + Len(e) /\ Len(e) \in Nat /\ Len(file[s]) \in Nat
      /\ \A r \in Session : Len(file[r]) <= Len(file'[r])
  BY <1>1, <1>5, Grows DEF IInv
<1>a. \A r \in Session : Len(file[r]) \in Nat /\ Len(file'[r]) \in Nat /\ Len(file[r]) <= Len(file'[r])
  <2>1. file \in [Session -> Seq(Nat)] /\ file' \in [Session -> Seq(Nat)]
    BY <1>6 DEF IInv, Types
  <2>2. \A r \in Session : Len(file[r]) \in Nat /\ Len(file'[r]) \in Nat
    BY <2>1
  <2> QED
    BY <1>6, <2>2
<1>7. /\ \A r \in Session : \A i \in 1..Len(file'[r]) : file'[r][i] <= MaxEvent
      /\ Numbered(s) /\ b.events[1] = Len(file[s]) + 1 => Numbered(s)'
  <2>1. PICK k \in 0..Len(b.events) : k = Len(e)
    <3>1. Len(b.events) \in Nat /\ Len(e) = Len(b.events)
      BY <1>1, <1>5, BatchNumbers
    <3> QED
      BY <3>1
  <2>2. Types /\ Counts /\ \A i \in 1..k : e[i] = b.events[i]
    BY <1>5 DEF IInv
  <2>3. file' = [file EXCEPT ![s] = file[s] \o e]
    BY <1>1, <1>5
  <2> QED
    BY <1>1, <2>1, <2>2, <2>3, GrowsNumbered
<1>8. tail' \in [Session -> {"ended", "bare", "torn", "joined"}] /\ tail'[s] # "torn" /\ \A r \in Session : r # s => tail'[r] = tail[r]
  BY DEF Lengthened, IInv, Types
<1>9. Types'
  BY <1>4, <1>6, <1>8 DEF IInv, Types
<1>10. Chains'
  <2> SUFFICES ASSUME NEW r \in Session, NEW i \in 1..Len(queue'[r])
               PROVE  Batched(queue'[r][i]) /\ (queue'[r][i].pc = "written" => i = 1)
    BY DEF Chains, Batched, Consecutive, Last
  <2>1. CASE r # s
    BY <1>4, <2>1 DEF IInv, Chains
  <2>2. CASE r = s /\ i = 1
    BY <1>3, <1>4, <2>2
  <2>3. CASE r = s /\ i # 1
    BY <1>4, <2>3 DEF IInv, Chains
  <2> QED
    BY <2>1, <2>2, <2>3
<1>11. s \in Writing' /\ \A r \in Session : r # s => (r \in Writing' <=> r \in Writing)
  BY <1>3, <1>4 DEF Writing
<1>12. PICK m \in Nat, l \in Nat : m = Len(file[s]) /\ l = Len(e) /\ Len(file'[s]) = m + l
  BY <1>6
<1>13. Last(w) = b.events[1] + l - 1 /\ b.events[1] = Head(b.events) /\ b.events[1] \in Nat /\ Last(w) \in Nat
  BY <1>1, <1>3, <1>5, <1>12, BatchNumbers
<1>14. Last(w) <= Len(file'[s])
  <2>1. disk[s].persisted \in Nat /\ disk[s].persisted <= m
    BY <1>12, StatusOf DEF IInv, Counts
  <2>2. b.events[1] = disk[s].persisted + 1
    BY <1>1, <1>13 DEF Accepts
  <2> QED
    BY <1>12, <1>13, <2>1, <2>2
<1>15. Counts'
  <2>1. ASSUME NEW r \in Session
        PROVE  /\ disk'[r].persisted <= Len(file'[r]) /\ disk'[r].persisted <= MaxEvent
               /\ due'[r] <= Len(file'[r])
               /\ r \in Writing' => Last(Head(queue'[r])) <= Len(file'[r])
    <3>1. PICK x, y : x = Len(file[r]) /\ y = Len(file'[r]) /\ x \in Nat /\ y \in Nat /\ x <= y
      BY <1>a
    <3>2. disk[r].persisted \in Nat /\ due[r] \in Nat /\ disk[r].persisted <= x /\ due[r] <= x /\ disk[r].persisted <= MaxEvent
      BY <3>1, StatusOf DEF IInv, Types, Counts
    <3>3. r # s /\ r \in Writing => Last(Head(queue'[r])) <= Len(file'[r])
      BY <1>4, <1>6 DEF IInv, Counts
    <3>4. disk[r].persisted <= y /\ due[r] <= y
      BY <3>1, <3>2, Between
    <3> QED
      BY <1>11, <1>14, <1>4, <3>1, <3>2, <3>3, <3>4
  <2>2. ASSUME NEW g \in gets', g.pc = "write" PROVE g.n <= Len(file'[g.s]) /\ g.n <= MaxEvent
    <3>1. g \in Gets /\ g.n <= Len(file[g.s]) /\ g.n <= MaxEvent
      BY <2>2 DEF IInv, Types, Counts
    <3>2. PICK r \in Session, k \in Nat : r = g.s /\ k = g.n
      BY <3>1 DEF Gets
    <3>3. PICK x, y : x = Len(file[r]) /\ y = Len(file'[r]) /\ x \in Nat /\ y \in Nat /\ x <= y
      BY <1>a
    <3>4. k <= y
      BY <3>1, <3>2, <3>3, Between
    <3> QED
      BY <3>1, <3>2, <3>3, <3>4
  <2>3. \A r \in Session : r \in Writing' => Last(Head(queue[r]))' <= Len(file'[r])
    BY <2>1 DEF Last
  <2> QED
    BY <1>7, <2>1, <2>2, <2>3 DEF Counts
<1>16. ASSUME NEW r \in Session, NEW n \in Nat, Covered(r, n) PROVE Covered(r, n)'
  <2>1. CASE n <= Len(file[r])
    <3>1. PICK x, y : x = Len(file[r]) /\ y = Len(file'[r]) /\ x \in Nat /\ y \in Nat /\ x <= y
      BY <1>a
    <3>2. n <= y
      BY <2>1, <3>1, Between
    <3> QED
      BY <3>1, <3>2 DEF Covered
  <2>2. CASE \E i \in 1..Len(queue[r]) : queue[r][i].events[1] <= n /\ n <= Last(queue[r][i])
    <3>1. PICK i \in 1..Len(queue[r]) : queue[r][i].events[1] <= n /\ n <= Last(queue[r][i])
      BY <2>2
    <3>2. i \in 1..Len(queue'[r]) /\ queue'[r][i].events = queue[r][i].events
      BY <1>1, <1>3, <1>4
    <3> QED
      BY <3>1, <3>2 DEF Covered, Last
  <2> QED
    BY <1>16, <2>1, <2>2 DEF Covered
<1>17. Numbers'
  <2>1. ASSUME factory.s # None PROVE Covered(factory.s, Taken - 1)'
    <3>1. Taken \in Nat /\ Taken >= 1 /\ Covered(factory.s, Taken - 1) /\ factory.s \in Session
      BY <2>1 DEF IInv, Numbers, Types, Taken
    <3>2. PICK r \in Session, n \in Nat : r = factory.s /\ n = Taken - 1
      BY <3>1
    <3>3. Covered(r, n)'
      BY <1>16, <3>1, <3>2
    <3> QED
      BY <3>2, <3>3 DEF Covered, Taken
  <2> QED
    BY <2>1 DEF IInv, Numbers, Taken, Consecutive
<1>18. ASSUME NEW d \in Command PROVE Placed(d)'
  <2>1. \A r \in Session : Len(file'[r]) \in Nat /\ Len(file[r]) <= Len(file'[r])
    BY <1>6
  <2> QED
    BY <1>16, <2>1, PlacedGrows DEF IInv
<1>19. Evidence'
  <2> SUFFICES ASSUME NEW r \in Session, r \notin overtaken PROVE Kept(r)'
    BY DEF Evidence
  <2>1. Kept(r)
    BY DEF IInv, Evidence
  <2>2. /\ Engaged(r)' => Engaged(r)
        /\ \A d \in Command : IsPast(d)' /\ cmd'[d].s = r => (IsPast(d) /\ cmd[d].s = r) \/ Status(r) \in Terminal
    BY DEF Engaged, IsPast
  <2>3. Known(r)' => Known(r)
    BY <1>4 DEF Known
  <2>4. CASE r # s
    BY <1>4, <1>6, <1>8, <1>11, <2>1, <2>2, <2>3, <2>4, SessionStays
  <2>5. CASE r = s
    <3>1. b.events[1] = Len(file[s]) + 1 /\ Status(s) = "collecting" /\ s \in owned
      BY <1>1, <2>5, AcceptedNext
    <3>2. Status(s)' = "collecting"
      BY <3>1 DEF Status
    <3>3. Numbered(s)'
      BY <1>7, <2>1, <2>5, <3>1 DEF Kept
    <3>4. Last(w) = Len(file'[s])
      BY <1>12, <1>13, <3>1
    <3>5. Counted(s)'
      BY <1>4, <1>11, <3>2, <3>4 DEF Counted, Last
    <3>6. Whole(s)'
      BY <1>8, <3>2 DEF Whole
    <3>7. Told(s)'
      BY <2>1, <2>5, <3>1 DEF Kept, Told, Terminal
    <3>8. Held(s)' /\ Past(s)'
      BY <2>1, <2>5, <3>1 DEF Kept, Held, Past, IsPast, Terminal
    <3> QED
      BY <2>5, <3>3, <3>5, <3>6, <3>7, <3>8 DEF Kept
  <2> QED
    BY <2>4, <2>5
<1>20. Tickets'
  <2>0. \A r \in Session : \A i \in 1..Len(queue'[r]) :
          i \in 1..Len(queue[r]) /\ queue'[r][i].by = queue[r][i].by /\ Last(queue'[r][i]) = Last(queue[r][i])
    BY <1>1, <1>3, <1>4
  <2>1. ASSUME NEW g \in gets PROVE Ticketed(g)'
    <3>0. g.by \in Commands /\ Ticketed(g)
      BY DEF IInv, Types, Gets, Tickets
    <3>1. CASE g.by # NoCommand /\ cmd[g.by].pc = "flush" /\ g.id # 0
      <4>1. cmd[g.by] \in CommandRows /\ cmd[g.by].s # None /\ cmd[g.by].due <= Len(file[cmd[g.by].s])
        BY <3>0, <3>1 DEF IInv, Types, Placed, Ticketed, Commands
      <4>2. PICK r \in Session, n \in Nat : r = cmd[g.by].s /\ n = cmd[g.by].due
        BY <4>1 DEF CommandRows
      <4>3. PICK x, y : x = Len(file[r]) /\ y = Len(file'[r]) /\ x \in Nat /\ y \in Nat /\ x <= y
        BY <1>a
      <4>4. n <= y
        BY <4>1, <4>2, <4>3, Between
      <4> QED
        BY <3>1, <4>2, <4>3, <4>4 DEF Ticketed
    <3>2. CASE ~(g.by # NoCommand /\ cmd[g.by].pc = "flush" /\ g.id # 0)
      BY <3>0, <3>2 DEF Ticketed
    <3> QED
      BY <3>1, <3>2
  <2>2. ASSUME NEW r \in Session, NEW i \in 1..Len(queue'[r]) PROVE Waited(r, queue[r][i])'
    <3>1. Waited(r, queue[r][i]) /\ queue'[r][i].by = queue[r][i].by /\ Last(queue'[r][i]) = Last(queue[r][i])
      BY <2>0 DEF IInv, Tickets
    <3>2. PICK a : a = queue'[r][i]
      OBVIOUS
    <3>3. Waited(r, a)'
      BY <3>1, <3>2 DEF Waited
    <3> QED
      BY <3>2, <3>3
  <2>3. \A g, h \in gets : g.by = h.by /\ g.by # NoCommand => g = h
    BY DEF IInv, Tickets
  <2>4. \A r \in Session : \A i \in 1..Len(queue'[r]) : \A g \in gets : g.by = queue'[r][i].by => g.by = NoCommand
    BY <2>0 DEF IInv, Tickets
  <2>5. \A r \in Session : \A i, j \in 1..Len(queue'[r]) :
          queue'[r][i].by = queue'[r][j].by /\ queue'[r][i].by # NoCommand => i = j
    BY <2>0 DEF IInv, Tickets
  <2>6. gets' = gets
    OBVIOUS
  <2> QED
    BY <2>1, <2>2, <2>3, <2>4, <2>5, <2>6 DEF Tickets
<1> QED
  BY <1>9, <1>10, <1>15, <1>17, <1>18, <1>19, <1>20 DEF IInv

\* A flush writes its events, is cut, or is refused.
LEMMA AppendEventsKeeps == ASSUME IInv, NEW s \in Session, AppendEvents(s) PROVE IInv'
<1>1. /\ queue[s] # <<>> /\ Head(queue[s]).pc = "queued"
      /\ UNCHANGED <<disk, pointer, brief, owned, overtaken, gets, due, found>>
  BY DEF AppendEvents, made, told
<1>2. PICK b \in Batches : b = Head(queue[s]) /\ Batched(b)
  BY <1>1, FirstOf DEF IInv
<1>3. CASE /\ Accepts(s, b) /\ file' = [file EXCEPT ![s] = file[s] \o b.events]
           /\ tail' = Lengthened(s, "ended") /\ queue' = [queue EXCEPT ![s][1].pc = "written"]
           /\ UNCHANGED <<blocked, broken, controller, cmd>>
  BY <1>1, <1>2, <1>3, WrittenKeeps
<1>4. CASE Accepts(s, b) /\ Cut(s, b) /\ blocked' = blocked \cup {s} /\ broken' = broken \cup {s} /\ Fail(s)
  <2>0. Types /\ Counts
    BY DEF IInv
  <2>1. PICK k \in 0..Len(b.events), e \in Seq(Nat) :
          /\ Len(e) = k /\ (\A i \in 1..k : e[i] = b.events[i]) /\ file' = [file EXCEPT ![s] = file[s] \o e]
          /\ tail' \in [Session -> {"ended", "bare", "torn", "joined"}] /\ \A r \in Session : r # s => tail'[r] = tail[r]
    BY <1>4, <2>0, CutPart
  <2>2. /\ file' \in [Session -> Seq(Nat)] /\ \A r \in Session : r # s => file'[r] = file[r]
        /\ \A r \in Session : Len(file[r]) <= Len(file'[r])
    BY <2>0, <2>1, Grows
  <2>3. /\ \A r \in Session : \A i \in 1..Len(file'[r]) : file'[r][i] <= MaxEvent
        /\ Numbered(s) /\ b.events[1] = Len(file[s]) + 1 => Numbered(s)'
    BY <1>2, <2>0, <2>1, GrowsNumbered
  <2>4. \A r \in Session : r # s => ((r \in blocked') <=> (r \in blocked)) /\ ((r \in broken') <=> (r \in broken))
    BY <1>4
  <2>5. ASSUME s \notin overtaken PROVE Kept(s)'
    <3>1. Kept(s) /\ b.events[1] = Len(file[s]) + 1 /\ Status(s) = "collecting" /\ s \in owned
      BY <1>1, <1>2, <1>4, <2>5, AcceptedNext DEF IInv, Evidence
    <3>2. Status(s)' = "collecting" /\ s \in blocked' /\ s \in broken' /\ s \in owned'
      BY <1>1, <1>4, <3>1 DEF Status
    <3>3. s \notin Writing'
      BY <1>4 DEF Fail, Writing, IInv, Types
    <3>4. Numbered(s)'
      BY <2>3, <3>1 DEF Kept
    <3>5. Counted(s)' /\ Whole(s)' /\ Held(s)'
      BY <3>2, <3>3 DEF Counted, Whole, Held
    <3>6. Told(s)'
      BY <1>1, <3>1 DEF Kept, Told, Terminal
    <3>7. Past(s)'
      <4>1. \A d \in Command : IsPast(d)' => IsPast(d) /\ cmd'[d].s = cmd[d].s
        BY <1>4, FailRows DEF IsPast
      <4> QED
        BY <3>1, <4>1 DEF Kept, Past, Terminal
    <3> QED
      BY <3>4, <3>5, <3>6, <3>7 DEF Kept
  <2>6. tail' \in [Session -> {"ended", "bare", "torn", "joined"}]
        /\ \A r \in Session : r # s => file'[r] = file[r] /\ tail'[r] = tail[r]
    BY <2>1, <2>2
  <2>7. Fail(s)
    BY <1>4
  <2> QED
    BY <1>1, <2>2, <2>3, <2>4, <2>5, <2>6, <2>7, FailKeeps
<1>5. CASE Fail(s) /\ UNCHANGED <<file, tail, blocked, broken>>
  <2>1. /\ file' \in [Session -> Seq(Nat)] /\ tail' \in [Session -> {"ended", "bare", "torn", "joined"}]
        /\ \A r \in Session : r # s => file'[r] = file[r] /\ tail'[r] = tail[r]
    BY <1>5 DEF IInv, Types
  <2>2. /\ \A r \in Session : Len(file[r]) <= Len(file'[r])
        /\ \A r \in Session : \A i \in 1..Len(file'[r]) : file'[r][i] <= MaxEvent
    <3>1. \A r \in Session : Len(file[r]) \in Nat
      BY DEF IInv, Types
    <3> QED
      BY <1>5, <3>1 DEF IInv, Counts
  <2>3. \A r \in Session : r # s => ((r \in blocked') <=> (r \in blocked)) /\ ((r \in broken') <=> (r \in broken))
    BY <1>5
  <2>4. ASSUME s \notin overtaken PROVE Kept(s)'
    <3>1. Kept(s) /\ s \notin Writing
      BY <1>1, <2>4 DEF IInv, Evidence, Writing
    <3>2. s \notin Writing'
      BY <1>5 DEF Fail, Writing, IInv, Types
    <3>3. \A d \in Command : IsPast(d)' => IsPast(d) /\ cmd'[d].s = cmd[d].s
      BY <1>5, FailRows DEF IsPast
    <3>4. Engaged(s)' => Engaged(s)
      BY <1>1, <1>5, FailRows DEF Engaged
    <3>5. Known(s)
      BY <1>1 DEF Known
    <3>6. \A d \in Command : IsPast(d)' /\ cmd'[d].s = s => (IsPast(d) /\ cmd[d].s = s) \/ Status(s) \in Terminal
      BY <3>3
    <3> QED
      BY <1>1, <1>5, <3>1, <3>2, <3>4, <3>5, <3>6, SessionStays
  <2>5. Fail(s)
    BY <1>5
  <2> QED
    BY <1>1, <2>1, <2>2, <2>3, <2>4, <2>5, FailKeeps
<1> QED
  BY <1>2, <1>3, <1>4, <1>5 DEF AppendEvents

\* What is in a chain without its first.
LEMMA TailOf ==
  ASSUME NEW S, NEW q \in Seq(S), q # <<>>
  PROVE  /\ Tail(q) \in Seq(S) /\ Len(q) \in Nat /\ Len(q) >= 1 /\ Len(Tail(q)) = Len(q) - 1
         /\ \A i \in 1..Len(Tail(q)) : i + 1 \in 1..Len(q) /\ i + 1 # 1 /\ Tail(q)[i] = q[i + 1]
         /\ \A i \in 1..Len(q) : i # 1 => i - 1 \in 1..Len(Tail(q)) /\ Tail(q)[i - 1] = q[i]
         /\ Tail(q) # <<>> => 1 \in 1..Len(Tail(q)) /\ Head(Tail(q)) = Tail(q)[1]
<1>1. Tail(q) \in Seq(S) /\ Len(q) \in Nat /\ Len(q) >= 1 /\ Len(Tail(q)) = Len(q) - 1
  OBVIOUS
<1>2. \A i \in 1..Len(Tail(q)) : i + 1 \in 1..Len(q) /\ i + 1 # 1 /\ Tail(q)[i] = q[i + 1]
  BY <1>1
<1>3. \A i \in 1..Len(q) : i # 1 => i - 1 \in 1..Len(Tail(q)) /\ Tail(q)[i - 1] = q[i]
  <2>1. ASSUME NEW i \in 1..Len(q), i # 1 PROVE i - 1 \in 1..Len(Tail(q)) /\ i - 1 + 1 = i
    BY <1>1, <2>1
  <2> QED
    BY <1>2, <2>1
<1>4. Tail(q) # <<>> => 1 \in 1..Len(Tail(q)) /\ Head(Tail(q)) = Tail(q)[1]
  BY <1>1
<1> QED
  BY <1>1, <1>2, <1>3, <1>4

\* The state of what a flush has written is written too.
LEMMA CountedKeeps ==
  ASSUME IInv, NEW s \in Session, s \in Writing,
         disk' = [disk EXCEPT ![s] = [status |-> "collecting", persisted |-> Last(Head(queue[s]))]],
         queue' = [queue EXCEPT ![s] = Tail(queue[s])],
         NewGet(s, Head(queue[s]).by, Last(Head(queue[s]))),
         UNCHANGED <<file, tail, pointer, brief, owned, blocked, broken, overtaken, due, found, controller, cmd>>
  PROVE  IInv'
<1> USE DEF controller
<1>1. PICK b \in Batches : b = Head(queue[s]) /\ b = queue[s][1] /\ Batched(b) /\ b.pc = "written" /\ 1 \in 1..Len(queue[s])
  BY FirstOf DEF IInv, Writing
<1>2. PICK n \in Nat : n = Last(b) /\ n # 0 /\ n <= MaxEvent /\ n <= Len(file[s])
  <2>1. Last(b) \in Nat \ {0} /\ Last(b) <= MaxEvent /\ Last(b) <= Len(file[s])
    BY <1>1, BatchNumbers DEF Batched, IInv, Counts
  <2> QED
    BY <2>1
<1>3. PICK d \in DiskRows : d = [status |-> "collecting", persisted |-> n] /\ d.status = "collecting" /\ d.persisted = n
  <2>1. [status |-> "collecting", persisted |-> n] \in DiskRows
    BY <1>2 DEF DiskRows, Statuses, Active
  <2> QED
    BY <2>1
<1>4. disk' \in [Session -> DiskRows] /\ disk'[s] = d /\ \A r \in Session : r # s => disk'[r] = disk[r]
  BY <1>1, <1>2, <1>3 DEF IInv, Types
<1>5. /\ queue[s] \in Seq(Batches) /\ queue'[s] = Tail(queue[s]) /\ queue'[s] \in Seq(Batches)
      /\ queue' \in [Session -> Seq(Batches)] /\ \A r \in Session : r # s => queue'[r] = queue[r]
      /\ \A i \in 1..Len(queue'[s]) : i + 1 \in 1..Len(queue[s]) /\ i + 1 # 1 /\ queue'[s][i] = queue[s][i + 1]
      /\ \A i \in 1..Len(queue[s]) : i # 1 => i - 1 \in 1..Len(queue'[s]) /\ queue'[s][i - 1] = queue[s][i]
      /\ queue'[s] # <<>> => 1 \in 1..Len(queue'[s]) /\ Head(queue'[s]) = queue'[s][1]
  <2>1. queue \in [Session -> Seq(Batches)] /\ queue[s] \in Seq(Batches) /\ queue[s] # <<>>
    BY DEF IInv, Types, Writing
  <2>2. PICK q : q = Tail(queue[s])
    OBVIOUS
  <2>3. /\ q \in Seq(Batches)
        /\ \A i \in 1..Len(q) : i + 1 \in 1..Len(queue[s]) /\ i + 1 # 1 /\ q[i] = queue[s][i + 1]
        /\ \A i \in 1..Len(queue[s]) : i # 1 => i - 1 \in 1..Len(q) /\ q[i - 1] = queue[s][i]
        /\ q # <<>> => 1 \in 1..Len(q) /\ Head(q) = q[1]
    BY <2>1, <2>2, TailOf
  <2>4. queue'[s] = q /\ queue' = [queue EXCEPT ![s] = q]
    BY <2>1, <2>2
  <2> QED
    BY <2>1, <2>2, <2>3, <2>4
<1>6. PICK g0 \in Gets : gets' = gets \cup {g0} /\ g0.s = s /\ g0.by = b.by /\ g0.id = n /\ g0.pc = "read"
  <2>1. PICK g0 : g0 = [s |-> s, by |-> b.by, id |-> n, pc |-> "read", saw |-> "absent", n |-> 0]
    OBVIOUS
  <2>2. g0 \in Gets /\ g0.s = s /\ g0.by = b.by /\ g0.id = n /\ g0.pc = "read"
    BY <2>1 DEF Gets, Batches, Statuses
  <2> QED
    BY <1>1, <1>2, <2>1, <2>2 DEF NewGet
<1>7. Types'
  BY <1>4, <1>5, <1>6 DEF IInv, Types
<1>8. \A r \in Session : r \in Writing' <=> r # s /\ r \in Writing
  <2>1. s \notin Writing'
    <3>1. ASSUME queue'[s] # <<>> PROVE Head(queue'[s]).pc # "written"
      <4>1. Head(queue'[s]) = queue[s][1 + 1] /\ 1 + 1 \in 1..Len(queue[s])
        BY <1>5, <3>1
      <4> QED
        BY <4>1 DEF IInv, Chains
    <3> QED
      BY <3>1 DEF Writing
  <2> QED
    BY <1>5, <2>1 DEF Writing
<1>9. Chains'
  <2> SUFFICES ASSUME NEW r \in Session, NEW i \in 1..Len(queue'[r])
               PROVE  Batched(queue'[r][i]) /\ (queue'[r][i].pc = "written" => i = 1)
    BY DEF Chains, Batched, Consecutive, Last
  <2>1. CASE r # s
    BY <1>5, <2>1 DEF IInv, Chains
  <2>2. CASE r = s
    <3>1. i + 1 \in 1..Len(queue[s]) /\ i + 1 # 1 /\ queue'[s][i] = queue[s][i + 1]
      BY <1>5, <2>2
    <3> QED
      BY <2>2, <3>1 DEF IInv, Chains
  <2> QED
    BY <2>1, <2>2
<1>10. Counts'
  <2>1. ASSUME NEW r \in Session
        PROVE  /\ disk'[r].persisted <= Len(file[r]) /\ disk'[r].persisted <= MaxEvent
               /\ \A i \in 1..Len(file[r]) : file[r][i] <= MaxEvent
               /\ due[r] <= Len(file[r])
               /\ r \in Writing' => Last(Head(queue'[r])) <= Len(file[r])
    BY <1>2, <1>3, <1>4, <1>5, <1>8 DEF IInv, Counts
  <2>2. \A g \in gets' : g.pc = "write" => g.n <= Len(file[g.s]) /\ g.n <= MaxEvent
    BY <1>6 DEF IInv, Counts
  <2>3. \A r \in Session : r \in Writing' => Last(Head(queue[r]))' <= Len(file[r])
    BY <2>1 DEF Last
  <2> QED
    BY <2>1, <2>2, <2>3 DEF Counts
<1>11. ASSUME NEW r \in Session, NEW m \in Nat, Covered(r, m) PROVE Covered(r, m)'
  <2>1. CASE m <= Len(file[r])
    BY <2>1 DEF Covered
  <2>2. CASE \E i \in 1..Len(queue[r]) : queue[r][i].events[1] <= m /\ m <= Last(queue[r][i])
    <3>1. PICK i \in 1..Len(queue[r]) : queue[r][i].events[1] <= m /\ m <= Last(queue[r][i])
      BY <2>2
    <3>2. CASE r # s
      BY <1>5, <3>1, <3>2 DEF Covered, Last
    <3>3. CASE r = s /\ i = 1
      <4>1. Len(file[s]) \in Nat
        BY DEF IInv, Types
      <4>2. m <= Len(file[s])
        BY <1>1, <1>2, <3>1, <3>3, <4>1, Between
      <4> QED
        BY <3>3, <4>2 DEF Covered
    <3>4. CASE r = s /\ i # 1
      <4>1. PICK j : j = i - 1 /\ j \in 1..Len(queue'[s]) /\ queue'[s][j] = queue[s][i]
        BY <1>5, <3>4
      <4> QED
        BY <3>1, <3>4, <4>1 DEF Covered, Last
    <3> QED
      BY <3>2, <3>3, <3>4
  <2> QED
    BY <1>11, <2>1, <2>2 DEF Covered
<1>12. Numbers'
  <2>1. ASSUME factory.s # None PROVE Covered(factory.s, Taken - 1)'
    <3>1. Taken \in Nat /\ Taken >= 1 /\ Covered(factory.s, Taken - 1) /\ factory.s \in Session
      BY <2>1 DEF IInv, Numbers, Types, Taken
    <3>2. PICK r \in Session, m \in Nat : r = factory.s /\ m = Taken - 1
      BY <3>1
    <3>3. Covered(r, m)'
      BY <1>11, <3>1, <3>2
    <3> QED
      BY <3>2, <3>3 DEF Covered, Taken
  <2> QED
    BY <2>1 DEF IInv, Numbers, Taken, Consecutive
<1>13. ASSUME NEW c \in Command PROVE Placed(c)'
  <2>1. \A r \in Session : Len(file'[r]) \in Nat /\ Len(file[r]) <= Len(file'[r])
    BY DEF IInv, Types
  <2> QED
    BY <1>11, <2>1, PlacedGrows DEF IInv
<1>14. Evidence'
  <2> SUFFICES ASSUME NEW r \in Session, r \notin overtaken PROVE Kept(r)'
    BY DEF Evidence
  <2>1. Kept(r)
    BY DEF IInv, Evidence
  <2>2. /\ Engaged(r)' => Engaged(r)
        /\ \A c \in Command : IsPast(c)' /\ cmd'[c].s = r => (IsPast(c) /\ cmd[c].s = r) \/ Status(r) \in Terminal
    BY DEF Engaged, IsPast
  <2>3. Known(r)' => Known(r)
    BY <1>5, <1>6 DEF Known, Writing
  <2>4. CASE r # s
    BY <1>4, <1>5, <1>8, <2>1, <2>2, <2>3, <2>4, SessionStays
  <2>5. CASE r = s
    <3>1. Status(s) \in {"collecting", "interrupted"} /\ n = Len(file[s])
      BY <1>1, <1>2, <2>1, <2>5 DEF Kept, Counted
    <3>2. s \in owned
      BY <2>1, <2>5, <3>1 DEF Kept, Held, Known, Writing, Terminal
    <3>3. Status(s)' = "collecting" /\ disk'[s].persisted = Len(file'[s])
      BY <1>3, <1>4, <3>1, NoneNotSession DEF Status
    <3>4. Numbered(s)'
      BY <2>1, <2>5 DEF Kept, Numbered, Consecutive
    <3>5. Counted(s)'
      BY <1>8, <3>3 DEF Counted
    <3>6. Whole(s)'
      BY <2>1, <2>2, <2>5, <3>3 DEF Kept, Whole
    <3>7. Told(s)'
      BY <2>1, <2>5, <3>1 DEF Kept, Told, Terminal
    <3>8. Held(s)' /\ Past(s)'
      BY <2>1, <2>5, <3>1, <3>2 DEF Kept, Held, Past, IsPast, Terminal
    <3> QED
      BY <2>5, <3>4, <3>5, <3>6, <3>7, <3>8 DEF Kept
  <2> QED
    BY <2>4, <2>5
<1>15. Tickets'
  <2>0. \A g \in gets : g.by = b.by => g.by = NoCommand
    BY <1>1 DEF IInv, Tickets
  <2>1. \A g \in gets : Ticketed(g)'
    BY DEF IInv, Tickets, Ticketed
  <2>2. Ticketed(g0)'
    <3>1. Waited(s, b)
      BY <1>1 DEF IInv, Tickets
    <3> QED
      BY <1>2, <1>6, <3>1 DEF Waited, Ticketed
  <2>3. ASSUME NEW r \in Session, NEW i \in 1..Len(queue'[r])
        PROVE  \E j \in 1..Len(queue[r]) : queue'[r][i] = queue[r][j] /\ (r = s => j = i + 1 /\ j # 1) /\ (r # s => j = i)
    BY <1>5
  <2>4. ASSUME NEW r \in Session, NEW i \in 1..Len(queue'[r]) PROVE Waited(r, queue[r][i])'
    <3>0. PICK j \in 1..Len(queue[r]) : queue'[r][i] = queue[r][j]
      BY <2>3
    <3>1. PICK a : a = queue'[r][i] /\ a = queue[r][j]
      BY <3>0
    <3>2. Waited(r, a)
      BY <3>0, <3>1 DEF IInv, Tickets
    <3>3. Waited(r, a)'
      BY <3>2 DEF Waited
    <3> QED
      BY <3>1, <3>3
  <2>5. \A g, h \in gets' : g.by = h.by /\ g.by # NoCommand => g = h
    BY <1>6, <2>0 DEF IInv, Tickets
  <2>6. ASSUME NEW r \in Session, NEW i \in 1..Len(queue'[r]), NEW g \in gets', g.by = queue'[r][i].by PROVE g.by = NoCommand
    <3>1. PICK j \in 1..Len(queue[r]) : queue'[r][i] = queue[r][j] /\ (r = s => j # 1)
      BY <2>3
    <3>2. CASE g \in gets
      BY <2>6, <3>1, <3>2 DEF IInv, Tickets
    <3>3. CASE g = g0 /\ r = s
      BY <1>1, <1>6, <2>6, <3>1, <3>3 DEF IInv, Tickets
    <3>4. CASE g = g0 /\ r # s
      <4>1. g.by # NoCommand => cmd[g.by].s = s /\ cmd[g.by].s = r
        BY <1>1, <1>6, <2>6, <3>1, <3>4 DEF IInv, Tickets, Waited
      <4> QED
        BY <3>4, <4>1
    <3> QED
      BY <1>6, <3>2, <3>3, <3>4
  <2>7. ASSUME NEW r \in Session, NEW i \in 1..Len(queue'[r]), NEW j \in 1..Len(queue'[r]),
               queue'[r][i].by = queue'[r][j].by, queue'[r][i].by # NoCommand
        PROVE  i = j
    <3>1. PICK k \in 1..Len(queue[r]) : queue'[r][i] = queue[r][k] /\ (r = s => k = i + 1) /\ (r # s => k = i)
      BY <2>3
    <3>2. PICK m \in 1..Len(queue[r]) : queue'[r][j] = queue[r][m] /\ (r = s => m = j + 1) /\ (r # s => m = j)
      BY <2>3
    <3>3. k = m
      BY <2>7, <3>1, <3>2 DEF IInv, Tickets
    <3> QED
      BY <3>1, <3>2, <3>3
  <2>8. \A r \in Session : \A i \in 1..Len(queue'[r]) : \A g \in gets' : g.by = queue'[r][i].by => g.by = NoCommand
    BY <2>6
  <2>9. \A r \in Session : \A i, j \in 1..Len(queue'[r]) :
          queue'[r][i].by = queue'[r][j].by /\ queue'[r][i].by # NoCommand => i = j
    BY <2>7
  <2>10. \A g \in gets' : Ticketed(g)'
    BY <1>6, <2>1, <2>2
  <2> QED
    BY <2>4, <2>5, <2>8, <2>9, <2>10 DEF Tickets
<1> QED
  BY <1>7, <1>9, <1>10, <1>12, <1>13, <1>14, <1>15 DEF IInv

\* A flush writes the state of what it has written, or fails to.
LEMMA AppendStateKeeps == ASSUME IInv, NEW s \in Session, AppendState(s) PROVE IInv'
<1>1. /\ s \in Writing
      /\ UNCHANGED <<file, tail, pointer, brief, owned, broken, overtaken, due, found>>
  BY DEF AppendState, made, told
<1>2. CASE /\ disk' = [disk EXCEPT ![s] = [status |-> "collecting", persisted |-> Last(Head(queue[s]))]]
           /\ queue' = [queue EXCEPT ![s] = Tail(@)] /\ NewGet(s, Head(queue[s]).by, Last(Head(queue[s])))
           /\ UNCHANGED <<blocked, controller, cmd>>
  BY <1>1, <1>2, CountedKeeps
<1>3. CASE blocked' = blocked \cup {s} /\ Fail(s) /\ UNCHANGED <<disk, gets>>
  <2>1. /\ file' \in [Session -> Seq(Nat)] /\ tail' \in [Session -> {"ended", "bare", "torn", "joined"}]
        /\ \A r \in Session : r # s => file'[r] = file[r] /\ tail'[r] = tail[r]
    BY <1>1 DEF IInv, Types
  <2>2. /\ \A r \in Session : Len(file[r]) <= Len(file'[r])
        /\ \A r \in Session : \A i \in 1..Len(file'[r]) : file'[r][i] <= MaxEvent
    <3>1. \A r \in Session : Len(file[r]) \in Nat
      BY DEF IInv, Types
    <3> QED
      BY <1>1, <3>1 DEF IInv, Counts
  <2>3. \A r \in Session : r # s => ((r \in blocked') <=> (r \in blocked)) /\ ((r \in broken') <=> (r \in broken))
    BY <1>1, <1>3
  <2>4. ASSUME s \notin overtaken PROVE Kept(s)'
    <3>1. Kept(s)
      BY <2>4 DEF IInv, Evidence
    <3>2. s \notin Writing'
      BY <1>3 DEF Fail, Writing, IInv, Types
    <3>3. \A d \in Command : IsPast(d)' => IsPast(d) /\ cmd'[d].s = cmd[d].s
      BY <1>3, FailRows DEF IsPast
    <3>4. Engaged(s)' => Engaged(s)
      BY <1>1, <1>3, FailRows DEF Engaged
    <3>5. Known(s)
      BY <1>1 DEF Known, Writing
    <3>6. Status(s)' = Status(s) /\ Status(s) \notin Terminal
      BY <1>1, <1>3, <3>1 DEF Status, Kept, Counted, Terminal
    <3>7. Numbered(s)' /\ Told(s)'
      BY <1>1, <1>3, <3>1, <3>6 DEF Kept, Numbered, Consecutive, Told
    <3>8. Counted(s)'
      BY <1>1, <1>3, <3>1, <3>2, <3>6 DEF Kept, Counted
    <3>9. Whole(s)'
      BY <1>1, <3>1, <3>4, <3>6 DEF Kept, Whole
    <3>10. Held(s)'
      BY <1>1, <3>1, <3>5, <3>6 DEF Kept, Held
    <3>11. Past(s)'
      BY <3>1, <3>3, <3>6 DEF Kept, Past
    <3> QED
      BY <3>7, <3>8, <3>9, <3>10, <3>11 DEF Kept
  <2>5. Fail(s)
    BY <1>3
  <2> QED
    BY <1>1, <1>3, <2>1, <2>2, <2>3, <2>4, <2>5, FailKeeps
<1> QED
  BY <1>2, <1>3 DEF AppendState

-----------------------------------------------------------------------------
(* The window opens and closes *)

\* What an activation recovers is what the session's file holds.
LEMMA RecoverKeeps ==
  ASSUME IInv, NEW s \in Session, Status(s) = "collecting", Readable(s),
         disk' = [disk EXCEPT ![s] = [status |-> "interrupted", persisted |-> Len(file[s])]],
         UNCHANGED <<file, tail, pointer, brief, owned, blocked, broken, overtaken, queue, gets, due, controller, cmd>>,
         found' \in FoundRows
  PROVE  IInv'
<1> USE DEF controller
<1>1. PICK n \in Nat : n = Len(file[s]) /\ n <= MaxEvent
  BY ReadableBounded
<1>2. PICK d \in DiskRows : d = [status |-> "interrupted", persisted |-> n] /\ d.status = "interrupted" /\ d.persisted = n
  <2>1. [status |-> "interrupted", persisted |-> n] \in DiskRows
    BY <1>1 DEF DiskRows, Statuses, Active
  <2> QED
    BY <2>1
<1>3. disk' \in [Session -> DiskRows] /\ disk'[s] = d /\ \A r \in Session : r # s => disk'[r] = disk[r]
  BY <1>1, <1>2 DEF IInv, Types
<1>4. Types'
  BY <1>3 DEF IInv, Types, FoundRows
<1>5. Chains' /\ Numbers'
  BY NumbersStay DEF IInv, Chains, Batched, Consecutive, Last
<1>6. \A r \in Session : (r \in Writing)' <=> r \in Writing
  BY DEF Writing
<1>7. Counts'
  BY <1>1, <1>2, <1>3, <1>6 DEF IInv, Counts, Last
<1>8. Evidence'
  <2> SUFFICES ASSUME NEW r \in Session, r \notin overtaken PROVE Kept(r)'
    BY DEF Evidence
  <2>1. Kept(r)
    BY DEF IInv, Evidence
  <2>2. /\ Engaged(r)' => Engaged(r)
        /\ Known(r)' => Known(r)
        /\ \A c \in Command : IsPast(c)' /\ cmd'[c].s = r => (IsPast(c) /\ cmd[c].s = r) \/ Status(r) \in Terminal
    BY DEF Engaged, Known, IsPast
  <2>3. CASE r # s
    BY <1>3, <1>6, <2>1, <2>2, <2>3, SessionStays
  <2>4. CASE r = s
    <3>1. Status(s)' = "interrupted" /\ disk'[s].persisted = Len(file'[s])
      BY <1>1, <1>2, <1>3, NoneNotSession DEF Status
    <3>2. Numbered(s)'
      BY <2>1, <2>4 DEF Kept, Numbered, Consecutive
    <3>3. Counted(s)'
      <4>1. s \in Writing => Last(Head(queue[s])) = Len(file[s])
        BY <2>1, <2>4 DEF Kept, Counted
      <4> QED
        BY <1>6, <3>1, <4>1 DEF Counted, Last
    <3>4. Whole(s)'
      BY <3>1 DEF Whole, Readable
    <3>5. Told(s)'
      BY <2>1, <2>4 DEF Kept, Told, Terminal
    <3>6. Held(s)' /\ Past(s)'
      BY <2>1, <2>2, <2>4 DEF Kept, Held, Past, Terminal
    <3> QED
      BY <2>4, <3>2, <3>3, <3>4, <3>5, <3>6 DEF Kept
  <2> QED
    BY <2>3, <2>4
<1>9. \A c \in Command : Placed(c)'
  BY PlacedStays DEF IInv
<1>10. Tickets'
  BY DEF IInv, Tickets, Ticketed, Waited, Last
<1> QED
  BY <1>4, <1>5, <1>7, <1>8, <1>9, <1>10 DEF IInv

\* A window opens.
LEMMA ActivateKeeps == ASSUME IInv, Activate PROVE IInv'
<1>1. UNCHANGED <<file, tail, brief, owned, blocked, broken, overtaken, queue, gets, due, controller, cmd>>
  BY DEF Activate, files, made, memory, flows, told
<1>2. CASE UNCHANGED disk
  <2>1. pointer' \in Session \cup {None}
    BY DEF Activate, files, IInv, Types
  <2>2. found' \in FoundRows
    BY DEF Activate, IInv, Types, FoundRows
  <2> QED
    BY <1>1, <1>2, <2>1, <2>2, StutterKeeps
<1>3. CASE /\ Status(pointer) = "collecting" /\ Readable(pointer) /\ disk' = Recover(pointer) /\ UNCHANGED pointer
           /\ found' = [found EXCEPT !.interrupted = pointer]
  <2>1. PICK s \in Session : s = pointer
    BY <1>3, HasState DEF IInv, Types
  <2>2. found' \in FoundRows
    BY <1>3 DEF IInv, Types, FoundRows
  <2> QED
    BY <1>1, <1>3, <2>1, <2>2, RecoverKeeps DEF Recover
<1> QED
  BY <1>2, <1>3 DEF Activate, files

\* What a closed window leaves, when a write was cut or not.
LEMMA ClosedKeeps ==
  ASSUME IInv, UNCHANGED <<disk, pointer, brief, overtaken, due>>,
         file' \in [Session -> Seq(Nat)], tail' \in [Session -> {"ended", "bare", "torn", "joined"}],
         \A r \in Session : Len(file[r]) <= Len(file'[r]),
         \A r \in Session : \A i \in 1..Len(file'[r]) : file'[r][i] <= MaxEvent,
         \A r \in Session : \/ file'[r] = file[r] /\ tail'[r] = tail[r]
                            \/ Status(r) = "collecting" /\ (r \notin overtaken => Numbered(r)'),
         owned' = {}, blocked' = {}, broken' = {}, Release, queue' = [r \in Session |-> <<>>], gets' = {},
         cmd' = [c \in Command |-> Idle], found' = [interrupted |-> None, last |-> None]
  PROVE  IInv'
<1>1. /\ active' = None /\ factory'.s = None /\ pending' = <<>> /\ factory' \in [s : Session \cup {None}, next : Nat] /\ Numbers'
  BY Released
<1>2. pending' \in Seq(Nat) /\ \A r \in Session : queue'[r] = <<>> /\ queue'[r] \in Seq(Batches) /\ Len(queue'[r]) = 0
  BY <1>1
<1>3. \A c \in Command : cmd'[c] = Idle /\ cmd'[c] \in CommandRows /\ cmd'[c].pc = "idle"
  BY IdleRow
<1>4. Types'
  <2>1. active' \in Session \cup {None} /\ pointer' \in Session \cup {None} /\ gets' \subseteq Gets
        /\ queue' \in [Session -> Seq(Batches)] /\ cmd' \in [Command -> CommandRows]
        /\ found' \in [interrupted : Session \cup {None}, last : Session \cup {None}]
    BY <1>1, <1>2, <1>3 DEF IInv, Types
  <2> QED
    BY <1>1, <1>2, <2>1 DEF IInv, Types
<1>5. Chains' /\ Writing' = {}
  BY <1>2 DEF Chains, Writing
<1>6. Counts'
  <2>1. ASSUME NEW r \in Session
        PROVE  disk'[r].persisted <= Len(file'[r]) /\ disk'[r].persisted <= MaxEvent /\ due'[r] <= Len(file'[r])
    <3>0. file[r] \in Seq(Nat) /\ file'[r] \in Seq(Nat)
      BY DEF IInv, Types
    <3>1. Len(file[r]) \in Nat /\ Len(file'[r]) \in Nat /\ Len(file[r]) <= Len(file'[r])
      BY <3>0
    <3>2. disk[r].persisted \in Nat /\ due[r] \in Nat /\ disk[r].persisted <= Len(file[r]) /\ due[r] <= Len(file[r])
          /\ disk[r].persisted <= MaxEvent
      BY StatusOf DEF IInv, Types, Counts
    <3> QED
      BY <3>1, <3>2, Between
  <2> QED
    BY <1>5, <2>1 DEF Counts
<1>7. Evidence'
  <2> SUFFICES ASSUME NEW r \in Session, r \notin overtaken PROVE Kept(r)'
    BY DEF Evidence
  <2>1. Kept(r)
    BY DEF IInv, Evidence
  <2>2. Status(r)' = Status(r)
    BY DEF Status
  <2>3. ~Engaged(r)' /\ ~Known(r)'
    BY <1>1, <1>2, <1>3, NoneNotSession DEF Engaged, Known
  <2>4. Held(r)' /\ Past(r)'
    BY <1>3, <2>3 DEF Held, Past, IsPast
  <2>5. CASE file'[r] = file[r] /\ tail'[r] = tail[r]
    <3>1. Numbered(r)' /\ Told(r)'
      BY <2>1, <2>2, <2>5 DEF Kept, Numbered, Consecutive, Told
    <3>2. Counted(r)'
      BY <1>5, <2>1, <2>2, <2>3, <2>5 DEF Kept, Counted
    <3>3. Whole(r)'
      BY <2>1, <2>2, <2>3, <2>5 DEF Kept, Whole
    <3> QED
      BY <2>4, <3>1, <3>2, <3>3 DEF Kept
  <2>6. CASE Status(r) = "collecting" /\ Numbered(r)'
    <3>1. Counted(r)' /\ Whole(r)'
      BY <1>5, <2>2, <2>3, <2>6 DEF Counted, Whole
    <3>2. Told(r)'
      BY <2>1, <2>6 DEF Kept, Told, Terminal
    <3> QED
      BY <2>4, <2>6, <3>1, <3>2 DEF Kept
  <2> QED
    BY <2>5, <2>6
<1>8. \A c \in Command : Placed(c)'
  BY <1>3 DEF Placed
<1>9. Tickets'
  BY <1>2 DEF Tickets
<1> QED
  BY <1>1, <1>4, <1>5, <1>6, <1>7, <1>8, <1>9 DEF IInv

\* The window closes.
LEMMA CloseKeeps == ASSUME IInv, Close PROVE IInv'
<1>1. /\ UNCHANGED <<disk, pointer, brief, overtaken, due>>
      /\ owned' = {} /\ blocked' = {} /\ broken' = {} /\ Release /\ queue' = [r \in Session |-> <<>>] /\ gets' = {}
      /\ cmd' = [c \in Command |-> Idle] /\ found' = [interrupted |-> None, last |-> None]
  BY DEF Close, made, told
<1>2. Types /\ Counts
  BY DEF IInv
<1>3. CASE \E s \in Session : /\ queue[s] # <<>> /\ Head(queue[s]).pc = "queued" /\ Accepts(s, Head(queue[s]))
                              /\ Cut(s, Head(queue[s]))
  <2>1. PICK s \in Session : /\ queue[s] # <<>> /\ Head(queue[s]).pc = "queued" /\ Accepts(s, Head(queue[s]))
                             /\ Cut(s, Head(queue[s]))
    BY <1>3
  <2>2. PICK b \in Batches : b = Head(queue[s]) /\ Batched(b)
    BY <2>1, FirstOf DEF IInv
  <2>3. PICK k \in 0..Len(b.events), e \in Seq(Nat) :
          /\ Len(e) = k /\ (\A i \in 1..k : e[i] = b.events[i]) /\ file' = [file EXCEPT ![s] = file[s] \o e]
          /\ tail' \in [Session -> {"ended", "bare", "torn", "joined"}] /\ \A r \in Session : r # s => tail'[r] = tail[r]
    BY <1>2, <2>1, <2>2, CutPart
  <2>4. /\ file' \in [Session -> Seq(Nat)] /\ \A r \in Session : r # s => file'[r] = file[r]
        /\ \A r \in Session : Len(file[r]) <= Len(file'[r])
    BY <1>2, <2>3, Grows
  <2>5. /\ \A r \in Session : \A i \in 1..Len(file'[r]) : file'[r][i] <= MaxEvent
        /\ Numbered(s) /\ b.events[1] = Len(file[s]) + 1 => Numbered(s)'
    BY <1>2, <2>2, <2>3, GrowsNumbered
  <2>6. Status(s) = "collecting"
    BY <2>1 DEF Accepts
  <2>7. s \notin overtaken => Numbered(s)'
    BY <2>1, <2>2, <2>5, AcceptedNext DEF IInv, Evidence, Kept
  <2>8. tail' \in [Session -> {"ended", "bare", "torn", "joined"}]
        /\ \A r \in Session : \/ file'[r] = file[r] /\ tail'[r] = tail[r]
                              \/ Status(r) = "collecting" /\ (r \notin overtaken => Numbered(r)')
    <3>1. \A r \in Session : r = s \/ (file'[r] = file[r] /\ tail'[r] = tail[r])
      BY <2>3, <2>4
    <3> QED
      BY <2>3, <2>6, <2>7, <3>1
  <2> QED
    BY <1>1, <2>4, <2>5, <2>8, ClosedKeeps
<1>4. CASE UNCHANGED <<file, tail>>
  <2>1. file' \in [Session -> Seq(Nat)] /\ tail' \in [Session -> {"ended", "bare", "torn", "joined"}]
    BY <1>4 DEF IInv, Types
  <2>2. \A r \in Session : file'[r] = file[r] /\ tail'[r] = tail[r] /\ Len(file[r]) <= Len(file'[r])
    <3>1. \A r \in Session : Len(file[r]) \in Nat
      BY DEF IInv, Types
    <3> QED
      BY <1>4, <3>1
  <2>3. \A r \in Session : \A i \in 1..Len(file'[r]) : file'[r][i] <= MaxEvent
    BY <1>4 DEF IInv, Counts
  <2> QED
    BY <1>1, <2>1, <2>2, <2>3, ClosedKeeps
<1> QED
  BY <1>3, <1>4 DEF Close

-----------------------------------------------------------------------------
(* The invariant *)

\* It holds at first.
LEMMA InitKeeps == Init => IInv
<1> SUFFICES ASSUME Init PROVE IInv
  OBVIOUS
<1>1. /\ \A s \in Session : disk[s] = [status |-> "absent", persisted |-> 0] /\ file[s] = <<>> /\ tail[s] = "ended"
                            /\ brief[s] = NoBrief /\ queue[s] = <<>> /\ due[s] = 0
      /\ gets = {} /\ owned = {} /\ broken = {} /\ active = None /\ factory = NoFactory /\ pending = <<>> /\ failure = FALSE
      /\ \A c \in Command : cmd[c] = Idle
  BY DEF Init
<1>2. \A s \in Session : Len(file[s]) = 0 /\ Len(queue[s]) = 0 /\ disk[s].persisted = 0
  BY <1>1
<1>3. Types
  <2>1. [status |-> "absent", persisted |-> 0] \in DiskRows
    BY DEF DiskRows, Statuses
  <2>2. NoBrief \in BriefRows
    BY DEF NoBrief, BriefRows
  <2>3. <<>> \in Seq(Nat) /\ <<>> \in Seq(Batches)
    OBVIOUS
  <2>4. NoFactory \in [s : Session \cup {None}, next : Nat]
    BY DEF NoFactory
  <2>5. disk \in [Session -> DiskRows] /\ brief \in [Session -> BriefRows]
    BY <2>1, <2>2 DEF Init
  <2>6. file \in [Session -> Seq(Nat)] /\ queue \in [Session -> Seq(Batches)] /\ pending \in Seq(Nat)
    BY <2>3 DEF Init
  <2>7. tail \in [Session -> {"ended", "bare", "torn", "joined"}] /\ due \in [Session -> Nat] /\ gets \subseteq Gets
    BY DEF Init
  <2>8. cmd \in [Command -> CommandRows]
    BY IdleRow DEF Init
  <2>9. pointer \in Session \cup {None} /\ active \in Session \cup {None}
        /\ found \in [interrupted : Session \cup {None}, last : Session \cup {None}]
    BY DEF Init
  <2> QED
    BY <1>1, <2>4, <2>5, <2>6, <2>7, <2>8, <2>9 DEF Types
<1>4. Chains /\ Writing = {}
  BY <1>1, <1>2 DEF Chains, Writing
<1>5. Counts
  BY <1>1, <1>2, <1>4, BoundsAssumption DEF Counts
<1>6. Numbers
  BY <1>1, BoundsAssumption DEF Numbers, NoFactory
<1>7. \A c \in Command : Placed(c) /\ ~IsPast(c) /\ cmd[c].pc = "idle"
  BY <1>1, IdleRow DEF Placed, IsPast
<1>8. Tickets
  BY <1>1, <1>2 DEF Tickets
<1>9. Evidence
  <2> SUFFICES ASSUME NEW s \in Session PROVE Kept(s)
    BY DEF Evidence
  <2>1. Status(s) = "absent"
    BY <1>1, NoneNotSession DEF Status
  <2>2. Numbered(s)
    BY <1>1, <1>2, BoundsAssumption DEF Numbered, Consecutive
  <2>3. Counted(s) /\ Whole(s) /\ Told(s)
    BY <1>1, <1>4, <2>1 DEF Counted, Whole, Told
  <2>4. Held(s) /\ Past(s)
    BY <1>1, <1>7, NoneNotSession DEF Held, Known, NoFactory, Past
  <2> QED
    BY <2>2, <2>3, <2>4 DEF Kept
<1> QED
  BY <1>3, <1>4, <1>5, <1>6, <1>7, <1>8, <1>9 DEF IInv

\* A step of a command, or of the get it waits for, keeps it.
LEMMA CommandStepKeeps == ASSUME IInv, NEW c \in Command, CommandStep(c) PROVE IInv'
<1>1. CASE GetsOf(c)
  BY <1>1, GetKeeps DEF GetsOf
<1>2. CASE StartFind(c) \/ StartState(c) \/ StartPoint(c)
  BY <1>2, StartFindKeeps, StartStateKeeps, StartPointKeeps
<1>3. CASE AskToFinish(c) \/ Finalize(c) \/ EndSession(c)
  BY <1>3, AskToFinishKeeps, FinalizeKeeps, EndSessionKeeps
<1>4. CASE ClearPointer(c) \/ Unlink(c)
  BY <1>4, ClearKeeps
<1>5. CASE ResumeWrite(c) \/ ResumeOwn(c)
  BY <1>5, ResumeWriteKeeps, ResumeOwnKeeps
<1>6. CASE Report(c) \/ Analyze(c)
  BY <1>6, ReportKeeps, AnalyzeKeeps
<1>7. CASE ExportFiles(c) \/ ExportManifest(c) \/ Failed(c)
  BY <1>7, ExportKeeps
<1> QED
  BY <1>1, <1>2, <1>3, <1>4, <1>5, <1>6, <1>7 DEF CommandStep

\* Every step keeps it.
LEMMA NextKeeps == ASSUME IInv, [Next]_vars PROVE IInv'
<1>1. CASE Activate \/ Record \/ Flush \/ Close
  BY <1>1, ActivateKeeps, RecordKeeps, FlushKeeps, CloseKeeps
<1>2. CASE FlushStep
  <2>1. CASE \E s \in Session : AppendEvents(s) \/ AppendState(s)
    BY <2>1, AppendEventsKeeps, AppendStateKeeps
  <2>2. CASE GetsOf(NoCommand)
    BY <2>2, GetKeeps DEF GetsOf
  <2> QED
    BY <1>2, <2>1, <2>2 DEF FlushStep
<1>3. CASE \E c \in Command : Start(c) \/ Finish(c) \/ Resume(c) \/ Ask(c) \/ CommandStep(c)
  BY <1>3, StartKeeps, FinishKeeps, ResumeKeeps, AskKeeps, CommandStepKeeps
<1>4. CASE UNCHANGED vars
  <2>1. /\ UNCHANGED <<disk, file, tail, brief, owned, blocked, broken, overtaken, queue, gets, due, controller, cmd>>
        /\ pointer' = pointer /\ found' = found
    BY <1>4 DEF vars, files, made, memory, flows, told
  <2>2. pointer' \in Session \cup {None} /\ found' \in FoundRows
    BY <2>1 DEF IInv, Types, FoundRows
  <2> QED
    BY <2>1, <2>2, StutterKeeps
<1> QED
  BY <1>1, <1>2, <1>3, <1>4 DEF Next

\* Whatever commands overlap, windows close and gets come late: a file never shrinks and
\* has what is counted of it, a session that was not overtaken has the count, the
\* numbers, the end and the brief that its file says, and what a command waits for is
\* either in the file or on its way there.
THEOREM Invariant == Spec => []IInv
<1>1. Init => IInv
  BY InitKeeps
<1>2. IInv /\ [Next]_vars => IInv'
  BY NextKeeps
<1> QED
  BY <1>1, <1>2, PTL DEF Spec

\* A session that has ended has everything that was recorded before the command that
\* ended it, in a file that can be read unless a cut before a newline joined two lines,
\* and in a brief that tells all of it and how it ended (finish, flush, readEvents,
\* materialize), whatever other command was under way.
THEOREM EndedReported == Spec => []EndedIsReported
<1>1. IInv => EndedIsReported
  <2> SUFFICES ASSUME IInv PROVE EndedIsReported
    OBVIOUS
  <2>1. ASSUME NEW s \in Session \ overtaken, Status(s) \in Terminal
        PROVE  Len(file[s]) >= due[s] /\ (Readable(s) \/ tail[s] = "joined")
    <3>1. Kept(s)
      BY DEF IInv, Evidence
    <3>2. due[s] <= Len(file[s]) /\ due[s] \in Nat /\ file[s] \in Seq(Nat)
      BY DEF IInv, Types, Counts
    <3>3. Len(file[s]) >= due[s]
      <4>1. Len(file[s]) \in Nat
        BY <3>2
      <4> QED
        BY <3>2, <4>1
    <3>4. tail[s] \in {"ended", "bare", "joined"}
      BY <2>1, <3>1 DEF Kept, Whole, Terminal, IInv, Types
    <3>5. \A i \in DOMAIN file[s] : file[s][i] = i
      <4>1. PICK n \in Nat : n = Len(file[s])
        BY <3>2
      <4>2. DOMAIN file[s] = 1..n /\ \A i \in 1..n : file[s][i] = 1 + i - 1
        BY <3>1, <3>2, <4>1 DEF Kept, Numbered, Consecutive
      <4> QED
        BY <4>1, <4>2
    <3> QED
      BY <3>3, <3>4, <3>5 DEF Readable
  <2>2. EndedIsWhole
    BY <2>1 DEF EndedIsWhole
  <2>3. BriefTellsAll
    BY DEF BriefTellsAll, IInv, Evidence, Kept, Told
  <2> QED
    BY <2>2, <2>3 DEF EndedIsReported
<1> QED
  BY <1>1, Invariant, PTL

-----------------------------------------------------------------------------
(* The evidence *)

\* How the sessions have ended, as EvidenceLog sees it.
Endings == [s \in Session |-> IF Status(s) \in Terminal THEN Status(s) ELSE "open"]

\* At first there is none.
LEMMA InitLogs == Init => Log!Init
<1> SUFFICES ASSUME Init PROVE Log!Init
  OBVIOUS
<1>1. \A s \in Session : Status(s) = "absent"
  BY NoneNotSession DEF Init, Status
<1> QED
  BY <1>1 DEF Init, Log!Init, Terminal

\* A step that adds nothing and ends or reopens nothing.
LEMMA LogStays ==
  ASSUME UNCHANGED <<file, overtaken>>,
         \A s \in Session : Status(s)' = Status(s) \/ (Status(s) \notin Terminal /\ Status(s)' \notin Terminal)
  PROVE  UNCHANGED Log!vars
<1>1. Endings' = Endings
  BY DEF Endings
<1> QED
  BY <1>1 DEF Endings, Log!vars

\* In particular one that writes no state.
LEMMA LogRests == ASSUME UNCHANGED <<disk, file, overtaken>> PROVE UNCHANGED Log!vars
<1>1. \A s \in Session : Status(s)' = Status(s)
  BY DEF Status
<1> QED
  BY <1>1, LogStays

\* Nothing is promised of a session that a get has overtaken.
LEMMA LogLoses ==
  ASSUME NEW s \in Session, overtaken' = overtaken \cup {s},
         \A r \in Session : r # s => file'[r] = file[r] /\ disk'[r] = disk[r]
  PROVE  Log!Next
<1>1. \A r \in Session : r # s => Status(r)' = Status(r)
  BY DEF Status
<1>2. \A r \in Session : r # s => Endings'[r] = Endings[r]
  BY <1>1 DEF Endings
<1>3. Log!Lose(s)
  BY <1>2 DEF Log!Lose, Endings
<1> QED
  BY <1>3 DEF Log!Next

\* One session's state changes, and its log stays open.
LEMMA LogOpen ==
  ASSUME IInv, NEW s \in Session, NEW d, disk' = [disk EXCEPT ![s] = d], UNCHANGED <<file, overtaken>>,
         Status(s) \notin Terminal, d.status \notin Terminal
  PROVE  UNCHANGED Log!vars
<1>1. disk'[s] = d /\ \A r \in Session : r # s => disk'[r] = disk[r]
  BY DEF IInv, Types
<1>2. Status(s)' \notin Terminal /\ \A r \in Session : r # s => Status(r)' = Status(r)
  BY <1>1, NoneNotSession DEF Status
<1> QED
  BY <1>2, LogStays

\* A file with the numbers from one is a log up to its length.
LEMMA FileIsUpto ==
  ASSUME NEW f \in Seq(Nat), Consecutive(f, 1)
  PROVE  f = Log!Upto(Len(f))
<1>1. PICK n \in Nat : n = Len(f)
  OBVIOUS
<1>2. f = [i \in 1..n |-> f[i]] /\ \A i \in 1..n : f[i] = i
  BY <1>1 DEF Consecutive
<1> QED
  BY <1>1, <1>2 DEF Log!Upto

\* Events that are added to an open session continue its log.
LEMMA WriteLogs ==
  ASSUME IInv, IInv', NEW s \in Session, Status(s) = "collecting", UNCHANGED <<disk, overtaken>>,
         Len(file[s]) <= Len(file'[s]), \A r \in Session : r # s => file'[r] = file[r]
  PROVE  Log!Next \/ UNCHANGED Log!vars
<1>1. /\ file \in [Session -> Seq(Nat)] /\ file' \in [Session -> Seq(Nat)]
      /\ Len(file[s]) \in Nat /\ Len(file'[s]) \in Nat
  <2>1. file \in [Session -> Seq(Nat)] /\ file' \in [Session -> Seq(Nat)]
    BY DEF IInv, Types
  <2> QED
    BY <2>1
<1>2. CASE s \in overtaken
  <2>1. overtaken' = overtaken \cup {s}
    BY <1>2
  <2> QED
    BY <2>1, LogLoses
<1>3. CASE s \notin overtaken
  <2>1. Numbered(s) /\ Numbered(s)'
    BY <1>3 DEF IInv, Evidence, Kept
  <2>2. PICK f \in Seq(Nat), h \in Seq(Nat) : f = file[s] /\ h = file'[s]
    BY <1>1
  <2>3. f = Log!Upto(Len(f)) /\ h = Log!Upto(Len(h)) /\ Len(h) <= MaxEvent
    <3>1. Consecutive(f, 1) /\ Consecutive(h, 1) /\ Len(h) <= MaxEvent
      BY <2>1, <2>2 DEF Numbered, Consecutive
    <3> QED
      BY <3>1, FileIsUpto
  <2>4. CASE Len(h) = Len(f)
    <3>1. file' = file
      BY <1>1, <2>2, <2>3, <2>4
    <3> QED
      BY <3>1, LogRests
  <2>5. CASE Len(h) # Len(f)
    <3>1. Len(h) \in Len(f) + 1..MaxEvent
      BY <1>1, <2>2, <2>3, <2>5, BoundsAssumption
    <3>2. file' = [file EXCEPT ![s] = Log!Upto(Len(h))]
      BY <1>1, <2>2, <2>3
    <3>3. \A r \in Session : Status(r)' = Status(r)
      BY DEF Status
    <3>4. Endings' = Endings /\ Endings[s] = "open"
      BY <3>3 DEF Endings, Terminal
    <3>5. Log!Extend(s)
      BY <2>2, <3>1, <3>2, <3>4 DEF Log!Extend, Endings
    <3> QED
      BY <3>5 DEF Log!Next
  <2> QED
    BY <2>4, <2>5
<1> QED
  BY <1>2, <1>3

\* Events that reach a file in whole or in part.
LEMMA AppendEventsLogs ==
  ASSUME IInv, IInv', NEW s \in Session, AppendEvents(s)
  PROVE  Log!Next \/ UNCHANGED Log!vars
<1>1. queue[s] # <<>> /\ UNCHANGED <<disk, overtaken>> /\ Types
  BY DEF AppendEvents, told, IInv
<1>2. PICK b \in Batches : b = Head(queue[s])
  BY <1>1, FirstOf DEF IInv
<1>3. CASE UNCHANGED file
  BY <1>1, <1>3, LogRests
<1>4. CASE Accepts(s, b) /\ \E e \in Seq(Nat) : file' = [file EXCEPT ![s] = file[s] \o e]
  <2>1. PICK e \in Seq(Nat) : file' = [file EXCEPT ![s] = file[s] \o e]
    BY <1>4
  <2>2. Len(file[s]) <= Len(file'[s]) /\ \A r \in Session : r # s => file'[r] = file[r]
    BY <1>1, <2>1, Grows
  <2>3. Status(s) = "collecting"
    BY <1>4 DEF Accepts
  <2> QED
    BY <1>1, <2>2, <2>3, WriteLogs
<1>5. CASE Accepts(s, b) /\ file' = [file EXCEPT ![s] = file[s] \o b.events]
  <2>1. b.events \in Seq(Nat)
    BY DEF Batches
  <2> QED
    BY <1>4, <1>5, <2>1
<1>6. CASE Accepts(s, b) /\ Cut(s, b)
  BY <1>1, <1>4, <1>6, CutPart
<1> QED
  BY <1>2, <1>3, <1>5, <1>6 DEF AppendEvents

\* Counting what was written changes no evidence.
LEMMA AppendStateLogs ==
  ASSUME IInv, NEW s \in Session, AppendState(s)
  PROVE  Log!Next \/ UNCHANGED Log!vars
<1>1. s \in Writing /\ UNCHANGED <<file, overtaken>>
  BY DEF AppendState, told
<1>2. CASE UNCHANGED disk
  BY <1>1, <1>2, LogRests
<1>3. CASE disk' = [disk EXCEPT ![s] = [status |-> "collecting", persisted |-> Last(Head(queue[s]))]]
  <2>1. CASE s \in overtaken
    <3>1. overtaken' = overtaken \cup {s} /\ \A r \in Session : r # s => file'[r] = file[r] /\ disk'[r] = disk[r]
      BY <1>1, <1>3, <2>1 DEF IInv, Types
    <3> QED
      BY <3>1, LogLoses
  <2>2. CASE s \notin overtaken
    <3>1. Status(s) \notin Terminal
      BY <1>1, <2>2 DEF IInv, Evidence, Kept, Counted, Terminal
    <3>2. PICK d : d = [status |-> "collecting", persisted |-> Last(Head(queue[s]))]
      OBVIOUS
    <3>3. d.status \notin Terminal
      BY <3>2 DEF Terminal
    <3> QED
      BY <1>1, <1>3, <3>1, <3>2, <3>3, LogOpen
  <2> QED
    BY <2>1, <2>2
<1> QED
  BY <1>2, <1>3 DEF AppendState

\* A get writes over the state of a session that goes on, or overtakes it.
LEMMA GetLogs ==
  ASSUME IInv, NEW g \in gets, GetStep(g)
  PROVE  Log!Next \/ UNCHANGED Log!vars
<1>1. g.s \in Session
  BY DEF IInv, Types, Gets
<1>2. CASE GetRead(g) \/ GetCheck(g) \/ GetCount(g)
  <2>1. UNCHANGED <<disk, file, overtaken>>
    BY <1>2 DEF GetRead, GetCheck, GetCount, files, told
  <2> QED
    BY <2>1, LogRests
<1>3. CASE GetWrite(g)
  <2>1. UNCHANGED file
    BY <1>3 DEF GetWrite
  <2>2. CASE UNCHANGED <<disk, overtaken>>
    BY <2>1, <2>2, LogRests
  <2>3. CASE /\ disk' = [disk EXCEPT ![g.s] = [status |-> "interrupted", persisted |-> g.n]]
             /\ overtaken' = IF IsLate(g) THEN overtaken \cup {g.s} ELSE overtaken
    <3>1. CASE IsLate(g)
      <4>1. overtaken' = overtaken \cup {g.s}
            /\ \A r \in Session : r # g.s => file'[r] = file[r] /\ disk'[r] = disk[r]
        BY <1>1, <2>1, <2>3, <3>1 DEF IInv, Types
      <4> QED
        BY <1>1, <4>1, LogLoses
    <3>2. CASE ~IsLate(g)
      <4>1. Status(g.s) \notin Terminal /\ overtaken' = overtaken
        BY <2>3, <3>2 DEF IsLate
      <4>2. PICK d : d = [status |-> "interrupted", persisted |-> g.n]
        OBVIOUS
      <4>3. d.status \notin Terminal
        BY <4>2 DEF Terminal
      <4> QED
        BY <1>1, <2>1, <2>3, <4>1, <4>2, <4>3, LogOpen
    <3> QED
      BY <3>1, <3>2
  <2> QED
    BY <1>3, <2>2, <2>3 DEF GetWrite
<1> QED
  BY <1>2, <1>3 DEF GetStep

\* A window that opens recovers a session that goes on; one that closes may cut a write.
LEMMA WindowLogs ==
  ASSUME IInv, IInv', Activate \/ Close
  PROVE  Log!Next \/ UNCHANGED Log!vars
<1>1. UNCHANGED overtaken /\ Types
  BY DEF Activate, Close, told, IInv
<1>2. CASE UNCHANGED <<disk, file>>
  BY <1>1, <1>2, LogRests
<1>3. CASE Status(pointer) = "collecting" /\ disk' = Recover(pointer) /\ UNCHANGED file
  <2>1. PICK s \in Session : s = pointer
    BY <1>3, HasState DEF IInv, Types
  <2>2. PICK d : d = [status |-> "interrupted", persisted |-> Len(file[s])]
    OBVIOUS
  <2>3. d.status \notin Terminal /\ Status(s) \notin Terminal
    BY <1>3, <2>1, <2>2 DEF Terminal
  <2>4. disk' = [disk EXCEPT ![s] = d]
    BY <1>3, <2>1, <2>2 DEF Recover
  <2> QED
    BY <1>1, <1>3, <2>3, <2>4, LogOpen
<1>4. CASE UNCHANGED disk /\ \E s \in Session : queue[s] # <<>> /\ Accepts(s, Head(queue[s])) /\ Cut(s, Head(queue[s]))
  <2>1. PICK s \in Session : queue[s] # <<>> /\ Accepts(s, Head(queue[s])) /\ Cut(s, Head(queue[s]))
    BY <1>4
  <2>2. PICK b \in Batches : b = Head(queue[s])
    BY <2>1, FirstOf DEF IInv
  <2>3. PICK e \in Seq(Nat) : file' = [file EXCEPT ![s] = file[s] \o e]
    BY <1>1, <2>1, <2>2, CutPart
  <2>4. Len(file[s]) <= Len(file'[s]) /\ \A r \in Session : r # s => file'[r] = file[r]
    BY <1>1, <2>3, Grows
  <2>5. Status(s) = "collecting"
    BY <2>1 DEF Accepts
  <2> QED
    BY <1>1, <1>4, <2>4, <2>5, WriteLogs
<1> QED
  BY <1>2, <1>3, <1>4 DEF Activate, Close, files

\* A command ends a session's log or leaves all logs alone.
LEMMA CommandStepLogs ==
  ASSUME IInv, NEW c \in Command, CommandStep(c)
  PROVE  Log!Next \/ UNCHANGED Log!vars
<1>1. ASSUME NEW s \in Session, Status(s) \notin Terminal, NEW d, d.status \notin Terminal,
             UNCHANGED <<file, overtaken>>, disk' = [disk EXCEPT ![s] = d]
      PROVE  UNCHANGED Log!vars
  BY <1>1, LogOpen
<1>2. CASE GetsOf(c)
  BY <1>2, GetLogs DEF GetsOf
<1>3. CASE StartState(c)
  <2>1. UNCHANGED <<file, overtaken>>
    BY <1>3 DEF StartState, told
  <2>2. CASE /\ \E s \in Session : Status(s) = "absent"
             /\ disk' = [disk EXCEPT ![NewSession] = [status |-> "collecting", persisted |-> 0]]
    <3>1. PICK s \in Session : s = NewSession /\ Status(s) = "absent"
      BY <2>2 DEF NewSession
    <3>2. PICK d : d = [status |-> "collecting", persisted |-> 0]
      OBVIOUS
    <3>3. d.status \notin Terminal /\ Status(s) \notin Terminal
      BY <3>1, <3>2 DEF Terminal
    <3> QED
      BY <1>1, <2>1, <2>2, <3>1, <3>2, <3>3
  <2>3. CASE UNCHANGED disk
    BY <2>1, <2>3, LogRests
  <2> QED
    BY <1>3, <2>2, <2>3 DEF StartState
<1>4. CASE Finalize(c)
  <2>1. UNCHANGED <<file, overtaken>>
    BY <1>4 DEF Finalize
  <2>2. CASE Status(active) = "collecting" /\ disk' = [disk EXCEPT ![active].status = "finalizing"]
    <3>1. PICK s \in Session : s = active
      BY <2>2, HasState DEF IInv, Types
    <3>2. PICK d : d = [disk[s] EXCEPT !.status = "finalizing"]
      OBVIOUS
    <3>3. d.status \notin Terminal /\ Status(s) \notin Terminal /\ disk' = [disk EXCEPT ![s] = d]
      <4>1. disk[s] \in DiskRows
        BY DEF IInv, Types
      <4> QED
        BY <2>2, <3>1, <3>2, <4>1 DEF Terminal, DiskRows
    <3> QED
      BY <1>1, <2>1, <3>3
  <2>3. CASE UNCHANGED disk
    BY <2>1, <2>3, LogRests
  <2> QED
    BY <1>4, <2>2, <2>3 DEF Finalize, MayLeave
<1>5. CASE EndSession(c)
  <2>1. UNCHANGED <<file, overtaken>>
    BY <1>5 DEF EndSession, told
  <2>2. CASE Status(cmd[c].s) = "finalizing" /\ disk' = [disk EXCEPT ![cmd[c].s].status = cmd[c].outcome]
    <3>1. cmd[c].s \in Session \cup {None} /\ cmd[c].outcome \in Terminal
      BY DEF IInv, Types, CommandRows
    <3>2. PICK s \in Session, o \in Terminal : s = cmd[c].s /\ o = cmd[c].outcome
      BY <2>2, <3>1, HasState
    <3>3. PICK d : d = [disk[s] EXCEPT !.status = o]
      OBVIOUS
    <3>4. d.status = o /\ disk'[s] = d /\ \A r \in Session : r # s => disk'[r] = disk[r]
      <4>1. disk[s] \in DiskRows /\ disk \in [Session -> DiskRows]
        BY DEF IInv, Types
      <4> QED
        BY <2>2, <3>2, <3>3, <4>1 DEF DiskRows
    <3>5. Status(s)' = o /\ Status(s) = "finalizing" /\ \A r \in Session : r # s => Status(r)' = Status(r)
      BY <2>2, <3>2, <3>4, NoneNotSession DEF Status
    <3>6. Endings' = [Endings EXCEPT ![s] = o] /\ Endings[s] = "open"
      BY <3>5 DEF Endings, Terminal
    <3>7. o \in Log!Ending
      BY DEF Log!Ending, Terminal
    <3>8. Log!End(s)
      BY <2>1, <3>6, <3>7 DEF Log!End, Endings
    <3> QED
      BY <3>8 DEF Log!Next
  <2>3. CASE UNCHANGED disk
    BY <2>1, <2>3, LogRests
  <2> QED
    BY <1>5, <2>2, <2>3 DEF EndSession, MayLeave
<1>6. CASE ResumeWrite(c)
  <2>1. UNCHANGED <<file, overtaken>>
    BY <1>6 DEF ResumeWrite, told
  <2>2. CASE Status(cmd[c].s) = "interrupted" /\ disk' = [disk EXCEPT ![cmd[c].s].status = "collecting"]
    <3>0. cmd[c].s \in Session \cup {None}
      BY DEF IInv, Types, CommandRows
    <3>1. PICK s \in Session : s = cmd[c].s
      BY <2>2, <3>0, HasState
    <3>2. PICK d : d = [disk[s] EXCEPT !.status = "collecting"]
      OBVIOUS
    <3>3. d.status \notin Terminal /\ Status(s) \notin Terminal /\ disk' = [disk EXCEPT ![s] = d]
      <4>1. disk[s] \in DiskRows
        BY DEF IInv, Types
      <4> QED
        BY <2>2, <3>1, <3>2, <4>1 DEF Terminal, DiskRows
    <3> QED
      BY <1>1, <2>1, <3>3
  <2>3. CASE UNCHANGED disk
    BY <2>1, <2>3, LogRests
  <2> QED
    BY <1>6, <2>2, <2>3 DEF ResumeWrite, MayLeave
<1>7. CASE StartFind(c) \/ StartPoint(c) \/ AskToFinish(c) \/ ClearPointer(c) \/ Unlink(c) \/ ResumeOwn(c)
  <2>1. UNCHANGED <<disk, file, overtaken>>
    BY <1>7 DEF StartFind, StartPoint, AskToFinish, ClearPointer, Unlink, ResumeOwn, files, told
  <2> QED
    BY <2>1, LogRests
<1>8. CASE Report(c) \/ Analyze(c) \/ ExportFiles(c) \/ ExportManifest(c) \/ Failed(c)
  <2>1. UNCHANGED <<disk, file, overtaken>>
    BY <1>8 DEF Report, Analyze, ExportFiles, ExportManifest, Failed, files, told
  <2> QED
    BY <2>1, LogRests
<1> QED
  BY <1>2, <1>3, <1>4, <1>5, <1>6, <1>7, <1>8 DEF CommandStep

\* Every step is one of EvidenceLog, or none.
LEMMA NextLogs ==
  ASSUME IInv, IInv', [Next]_vars
  PROVE  [Log!Next]_Log!vars
<1>1. CASE Activate \/ Close
  BY <1>1, WindowLogs
<1>2. CASE Record \/ Flush \/ (\E c \in Command : Start(c) \/ Finish(c) \/ Resume(c) \/ Ask(c)) \/ UNCHANGED vars
  <2>1. UNCHANGED <<disk, file, overtaken>>
    BY <1>2 DEF Record, Flush, Start, Finish, Resume, Ask, vars, files, told
  <2> QED
    BY <2>1, LogRests
<1>3. CASE FlushStep
  <2>1. CASE \E s \in Session : AppendEvents(s) \/ AppendState(s)
    BY <2>1, AppendEventsLogs, AppendStateLogs
  <2>2. CASE GetsOf(NoCommand)
    BY <2>2, GetLogs DEF GetsOf
  <2> QED
    BY <1>3, <2>1, <2>2 DEF FlushStep
<1>4. CASE \E c \in Command : CommandStep(c)
  BY <1>4, CommandStepLogs
<1> QED
  BY <1>1, <1>2, <1>3, <1>4 DEF Next

\* The files of the extension keep the evidence as EvidenceLog says, however many
\* commands overlap: each step extends one open session by the next numbers, ends one,
\* leaves the evidence alone, or is of a session that a late get has overtaken
\* (eventWriter.flush, append, transition, get).
THEOREM EvidenceKept == Spec => KeepsEvidence
<1>1. Init => Log!Init
  BY InitLogs
<1>2. IInv /\ IInv' /\ [Next]_vars => [Log!Next]_Log!vars
  BY NextLogs
<1>3. Spec => []IInv
  BY Invariant
<1> QED
  BY <1>1, <1>2, <1>3, PTL DEF Spec, KeepsEvidence, Log!Spec
=============================================================================
