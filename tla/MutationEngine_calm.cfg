\* Ordinary crashes, faults and foreign edits: two transactions on two files.
SPECIFICATION Spec
CONSTANTS
  a = a
  b = b
  old = old
  new = new
  Absent = Absent
  Paths = {a, b}
  Contents = {old, new}
  Txs = {t1, t2}
  NoTx = NoTx
  NoPlan = NoPlan
  Plans <- MCPlans
  Adversity = {}
SYMMETRY MCSymmetry
INVARIANTS TypeOK SettledWhenIdle 
PROPERTIES AllOrNothing 
