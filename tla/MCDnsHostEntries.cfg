CONSTANTS
  a1 = a1
  a2 = a2
  b1 = b1
  b2 = b2
  Calls = {c1, c2}
  Hosts = {h1, h2}
  Valid = {a1, a2}
  Foreign = {b1, b2}
  Parsed <- MCParsed
  Dropped = Dropped
  MaxAddresses = 1
  Omitted = Omitted
  Absent = Absent
  NoMessage = NoMessage

SPECIFICATION MCSpec
SYMMETRY NameSymmetry

INVARIANTS
  TypeOK
  AnswerMatchesEffect
  UnforcedAddNeverReplaces
  ReportedActionHappened
  OnlyValidEntriesWritten
  UnracedUpdateKeepsOmitted
  UnracedCallIsAtomic

PROPERTIES
  ImplementsConfigStore
  NothingResent

\* Every call may have returned.
CHECK_DEADLOCK FALSE
