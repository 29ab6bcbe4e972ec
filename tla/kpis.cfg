SPECIFICATION Spec
CONSTANTS
  Users = {ann, bob, cid}
  Messages = {m1, m2}
  Spans <- MCSpans
  Recipients = 2
  StartTime = 3
  MaxTime = 4
  MaxBatches = 1
  MaxMoves = 2
  MaxPast = 3
  Never = Never
  Unread = Unread
SYMMETRY Symmetry
INVARIANTS ColumnsNest LaterMailsNeverMore DropIsReal
CHECK_DEADLOCK FALSE
