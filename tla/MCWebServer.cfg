CONSTANTS
  c1 = c1
  c2 = c2
  h1 = h1
  e1 = e1
  Calls = {c1, c2}
  MaxThreads = 1
  Keys = {h1, h2}
  Contents = {e1}
  Entries = {e1}
  Omitted = Omitted
  Absent = Absent
  NoMessage = NoMessage
  Operation <- MCOperation
  Rejected <- MCRejected
  Reads <- MCReads
  Readable <- MCReadable
  Seen <- MCSeen
  Decision <- MCDecision
  Act <- MCAct
  Written <- MCWritten
  Success <- MCSuccess
  Intent <- MCIntent

SPECIFICATION MCSpec

INVARIANTS
  WebTypeOK
  StatusMatchesEffect
  ShutdownClean

PROPERTIES
  EveryRequestAnswered
  ShutdownCompletes
  WebImplementsConfigStore

\* The process has exited, or no signal comes.
CHECK_DEADLOCK FALSE
