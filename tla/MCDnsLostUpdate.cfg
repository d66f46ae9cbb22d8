\* Two calls, no unusable address.
CONSTANTS
  a1 = a1
  a2 = a2
  b1 = b1
  b2 = b2
  Calls = {c1, c2}
  Hosts = {h1}
  Valid = {a1}
  Foreign = {}
  Parsed <- AllValid
  Dropped = Dropped
  MaxAddresses = 1
  Omitted = Omitted
  Absent = Absent
  NoMessage = NoMessage

SPECIFICATION FairSpec

INVARIANT
  AddressUpdateKeepsReverse

CHECK_DEADLOCK FALSE
