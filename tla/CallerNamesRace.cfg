SPECIFICATION Spec
CONSTANTS
  Thread = {t1, t2}
  t1 = t1
  t2 = t2
  u1 = u1
  Uid = {u1}
  Name = {ann}
  ann = ann
  Absent = Absent
  Unknown = Unknown
  Free = Free
  MaxCalls = 1
  MaxChanges = 1
CHECK_DEADLOCK FALSE
INVARIANTS
  RacersAgree
