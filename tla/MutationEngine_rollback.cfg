\* A crash in the middle of an explicit rollback.
SPECIFICATION Spec
CONSTANTS
  a = a
  b = b
  old = old
  new = new
  Absent = Absent
  Paths = {a, b}
  Contents = {old, new}
  Txs = {t1}
  NoTx = NoTx
  NoPlan = NoPlan
  Plans <- MCSmallPlans
  Adversity = {"rollback crash"}
PROPERTIES AllOrNothing
