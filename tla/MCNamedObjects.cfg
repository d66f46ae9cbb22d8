CONSTANTS
  c1 = c1
  c2 = c2
  Calls = {c1, c2}
  rule = rule
  rAndD = rAndD
  rd = rd
  singleton = singleton
  Names = {rule, rAndD}
  Singles = {singleton}
  f = f
  odd = odd
  s1 = s1
  s2 = s2
  Fields = {f, odd}
  Tags = {s1, s2, odd}
  BadTags = {odd}
  Password = f
  Schedule = f
  ab = ab
  aAndB = aAndB
  Texts = {rule, rAndD, rd, ab, aAndB}
  Decoded <- MCDecoded
  NoText = NoText
  MaxItems = 2
  Payloads <- MCPayloads
  Omitted = Omitted
  Absent = Absent
  NoMessage = NoMessage

SPECIFICATION MCSpec

INVARIANTS
  ObjectTypeOK
  NamesKept
  UnracedUpdateKeepsUnnamed
  UpdateHonoured
  UnwritableNotDropped

\* Every call may have returned.
CHECK_DEADLOCK FALSE
