--------------------------- MODULE MCDesktopCapture ---------------------------
(* Instances of DesktopCapture for TLC: a behaviour is of one of five parts,  *)
(* in each of which something else happens in every order.                   *)
EXTENDS DesktopCapture

VARIABLE part

Part == {"capture", "sessions", "export", "overlap", "recovery"}

MCInit == part \in Part /\ Init
MCNext == Next /\ UNCHANGED part
MCSpec == MCInit /\ [][MCNext]_<<vars, part>> /\ Fairness

First == CHOOSE c \in Command : TRUE
Alone == \A c \in Command : c = First \/ cmd[c] = Idle
OneSession == Status(MaxSession) = "absent"
OneEvent == factory.next <= 2
OneTimer == Cardinality({g \in gets : g.by = NoCommand}) <= 1
Only(ops) == \A c \in Command : cmd[c].op \in ops \cup {"idle"}
Complete == \A c \in Command : cmd[c].outcome # "abandoned"

\* A window that closes and a failure, with one command at a time and two events.
Capture ==
  Alone /\ OneSession /\ Complete /\ Only({"start", "finish", "resume", "end"})

\* Two sessions of one event each; the second begins after the windows have been closed,
\* and only it is abandoned.
Sessions ==
  /\ Alone /\ OneEvent /\ OneTimer /\ Only({"start", "finish", "resume", "end"})
  /\ left.crash = 0 \/ OneSession
  /\ \A c \in Command : cmd[c].outcome = "abandoned" => cmd[c].s = MaxSession

\* Analysis and export, of one session of one event.
Exports == Alone /\ OneSession /\ OneEvent /\ OneTimer /\ Complete

\* Two commands at once that start and finish two sessions, and export them while they
\* are under way; nothing fails and no brief is made.
Overlap ==
  /\ left.crash = MaxCrash /\ left.fault = MaxFault
  /\ OneEvent /\ OneTimer /\ Complete /\ Only({"start", "finish", "export"})
  /\ \A s \in Session : artifacts[s] = {}

\* Two commands at once that start and resume, after the window was closed.
Recovery ==
  /\ left.fault = MaxFault
  /\ OneSession /\ OneEvent /\ OneTimer /\ Only({"start", "resume"})
  /\ left.crash = MaxCrash => Alone

Short ==
  CASE part = "capture" -> Capture
    [] part = "sessions" -> Sessions
    [] part = "export" -> Exports
    [] part = "overlap" -> Overlap
    [] part = "recovery" -> Recovery
=============================================================================
