CONSTANTS
  Session = {s1}
  Ticket = {t1}
  Submission = {b1}
  Upload = {u1}
  Beat = {}
  TeacherEnd = {e1}
  Worker = {w1, w2}
  Content = {code, other}
  CodeFirst = {code}
  MaxSeq = 1
  SchedEnd = 1
  Grace = 1
  Lease = 1
  TicketTTL = 1
  MaxTime = 4
  MaxCrash = 1
  None = None
SPECIFICATION FairSpec
CHECK_DEADLOCK FALSE
INVARIANTS RowsAgree RevisionPerClaim
PROPERTIES DeadlineNotEarly JobsSettle
