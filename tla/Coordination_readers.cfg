\* Two agents and two transactions; the process may die anywhere but before an invalidation.
SPECIFICATION Spec
CONSTANTS
  p = p
  q = q
  new = new
  Absent = Absent
  Paths = {p, q}
  Contents = {new}
  Txs = {t1, t2}
  Plans <- MCBoth
  NoPlan = NoPlan
  Agents = {a1, a2}
  Anyone = Anyone
  Free = Free
  Episodes = {}
  NoEpisode = NoEpisode
  Approvals = {}
  NoApproval = NoApproval
  Policy <- MCOpen
  CrashPoints = {"begin", "own", "link", "release"}
SYMMETRY MCSymmetry
INVARIANTS TypeOK
  
