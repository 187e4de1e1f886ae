SPECIFICATION FairSpec
CONSTANTS
  Thread = {t1, t2}
  t1 = t1
  t2 = t2
  u1 = u1
  u2 = u2
  Uid = {u1, u2}
  Name = {ann}
  ann = ann
  Absent = Absent
  Unknown = Unknown
  Free = Free
  MaxCalls = 3
  MaxChanges = 2
CHECK_DEADLOCK FALSE
INVARIANTS
  TypeOK
  FailureIsNotCached
  LookupsAreBounded
  QuietRacersAgree
PROPERTIES
  CachedNeverWaits
  SettledForGood
