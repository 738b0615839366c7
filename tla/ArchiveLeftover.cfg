SPECIFICATION Spec
CONSTANTS
  MaxExports = 3
  Conversations = {c}
  Projects = {p1}
  Messages = {m1, m2, other, odd}
  Hidden = {other}
  Unnamed = {odd}
  Body <- MCBody
  NoParts = empty
  None = none
  Owners = {u1, u2}
  Large = {big, "R"}
  Uploads = {uA, uB, uC}
  Parsers = {1, 2}
  Importers = {1}
  Reading <- MCReading
  Snapshots <- MCSnapshots
  MaxDeletions = 2
  MaxInputs = 5
  c = c
  p1 = p1
  m1 = m1
  m2 = m2
  other = other
  odd = odd
  none = none
  x = x
  y = y
  big = big
  empty = empty
  uA = uA
  uB = uB
  uC = uC
INVARIANT DeletedContentIsGone
CHECK_DEADLOCK FALSE
