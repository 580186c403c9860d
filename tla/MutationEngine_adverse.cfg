\* Everything the environment can do to one transaction, any number of times.
SPECIFICATION Spec
CONSTANTS
  a = a
  b = b
  old = old
  new = new
  Absent = Absent
  Paths = {a, b}
  Contents = {old, new}
  Txs = {t1}
  NoTx = NoTx
  NoPlan = NoPlan
  Plans <- MCPlans
  Adversity = {"edit race", "rollback crash", "undo fault", "recommit"}
INVARIANTS BackupFaithful MarkerAgrees
PROPERTIES AlwaysServesAgain
