\* Does a lease keep the rollbacks of another agent away?
SPECIFICATION Spec
CONSTANTS
  p = p
  q = q
  new = new
  Absent = Absent
  Paths = {p, q}
  Contents = {new}
  Txs = {t1, t2}
  Plans <- MCBoth
  NoPlan = NoPlan
  Agents = {a1, a2}
  Anyone = Anyone
  Free = Free
  Episodes = {}
  NoEpisode = NoEpisode
  Approvals = {}
  NoApproval = NoApproval
  Policy <- MCOpen
  CrashPoints = {}
SYMMETRY MCSymmetry
PROPERTIES NoOverlap
