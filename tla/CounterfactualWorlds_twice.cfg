\* Two edits of one file before the verification.
SPECIFICATION Spec
CONSTANTS
  p = p
  q = q
  x = x
  y = y
  z = z
  Absent = Absent
  Paths = {p, q}
  Slots = {1, 2}
  Tokens = {x, y, z}
  Start <- MCStart
  Batches <- MCTwice
  Worlds = {w1}
  Txs = {t1}
  NoPlan = NoPlan
  NoWorld = NoWorld
  MaxGeneration = 2
  Drafts <- MCDrafts
  Hazards = {"second edit"}
PROPERTIES LandsAsTested
