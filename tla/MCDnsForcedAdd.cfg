\* Two calls.
CONSTANTS
  a1 = a1
  a2 = a2
  b1 = b1
  b2 = b2
  Calls = {c1, c2}
  Hosts = {h1}
  Valid = {a1}
  Foreign = {}
  Parsed <- AllValid
  Dropped = Dropped
  MaxAddresses = 1
  Omitted = Omitted
  Absent = Absent
  NoMessage = NoMessage

SPECIFICATION MCFairSpec

PROPERTY
  ForcedAddNeverFailsAsExisting

CHECK_DEADLOCK FALSE
