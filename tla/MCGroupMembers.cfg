CONSTANTS
  c1 = c1
  c2 = c2
  c3 = c3
  g = g
  r_and_d = r_and_d
  Calls = {c1, c2, c3}
  Names = {g, r_and_d}
  Misread = {r_and_d}
  ab = ab
  a_and_b = a_and_b
  text = text
  icmp = icmp
  Members = {ab, a_and_b}
  Broken = {a_and_b}
  Requests = {{ab}, {a_and_b}}
  Texts = {text}
  Decoded <- MCDecoded
  ServiceTypes = {tcp, icmp}
  Foreign = Foreign
  Plain = Plain
  NoText = NoText
  Omitted = Omitted
  Absent = Absent
  NoMessage = NoMessage

SPECIFICATION MCSpec
ACTION_CONSTRAINT ThirdCall

INVARIANT UnmentionedMembersKept

\* Every call may have returned.
CHECK_DEADLOCK FALSE
