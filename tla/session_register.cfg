CONSTANTS
  Session = {s1, s2}
  Ticket = {t1, t2}
  Submission = {b1}
  Upload = {u1, u2}
  Beat = {h1}
  TeacherEnd = {}
  Worker = {w1}
  Content = {c1, c2}
  CodeFirst = {c1, c2}
  MaxSeq = 1
  SchedEnd = 1
  Grace = 0
  Lease = 1
  TicketTTL = 2
  MaxTime = 2
  MaxCrash = 0
  None = None
SPECIFICATION Spec
SYMMETRY Symmetry
CHECK_DEADLOCK FALSE
INVARIANTS SubmissionOnce ReceiptsHonoured
PROPERTIES OneLogicalBrief
