\* One world on two files; crashes between requests and edits that are perceived.
SPECIFICATION Spec
CONSTANTS
  p = p
  q = q
  x = x
  y = y
  z = z
  Absent = Absent
  Paths = {p, q}
  Slots = {1, 2}
  Tokens = {x, y, z}
  Start <- MCStart
  Batches <- MCBatches
  Worlds = {w1}
  Txs = {t1, t2}
  NoPlan = NoPlan
  NoWorld = NoWorld
  MaxGeneration = 2
  Drafts <- MCDrafts
  Hazards = {}
INVARIANTS TypeOK VerdictOfThisOverlay LandsOnce
PROPERTIES LandsAsTested FailedNeverLands
