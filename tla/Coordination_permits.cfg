\* One agent and the anonymous client, two transactions, one episode and two tokens; the process may die anywhere.
SPECIFICATION Spec
CONSTANTS
  p = p
  q = q
  new = new
  Absent = Absent
  Paths = {q}
  Contents = {new}
  Txs = {t1, t2}
  Plans <- MCOne
  NoPlan = NoPlan
  Agents = {a1}
  Anyone = Anyone
  Free = Free
  Episodes = {e}
  NoEpisode = NoEpisode
  Approvals = {k1, k2}
  NoApproval = NoApproval
  Policy <- MCGuarded
  CrashPoints = {"begin", "own", "link", "notify", "release"}
SYMMETRY MCSymmetryTokens
INVARIANTS OneTokenEach
 
