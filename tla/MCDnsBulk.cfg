CONSTANTS
  c1 = c1
  c2 = c2
  c3 = c3
  Calls = {c1, c2, c3}
  Hosts = {h1}
  Valid = {a1}
  Foreign = {}
  Parsed <- AllValid
  Dropped = Dropped
  MaxAddresses = 1
  Omitted = Omitted
  Absent = Absent
  NoMessage = NoMessage
  Batch <- MCBatch

SPECIFICATION MCSpec

INVARIANTS
  CountsMatchEffects
  NothingAfterFailure
  LastEntryWins

PROPERTIES
  ImplementsOrderedBatch
  BatchReturns
  EveryCallReturns

\* The batch and the other call return.
CHECK_DEADLOCK FALSE
