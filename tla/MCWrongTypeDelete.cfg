CONSTANTS
  c1 = c1
  c2 = c2
  h = h
  r_and_d = r_and_d
  Calls = {c1, c2}
  Names = {h, r_and_d}
  Misread = {r_and_d}
  x = x
  y = y
  Addresses = {x, y}
  Missing = Missing
  Unparsable = Unparsable
  ab = ab
  a_and_b = a_and_b
  text = text
  Groups = {ab, a_and_b}
  Texts = {text}
  Decoded <- MCDecoded
  Foreign = Foreign
  Plain = Plain
  NoText = NoText
  Omitted = Omitted
  Absent = Absent
  NoMessage = NoMessage

SPECIFICATION MCSpec

INVARIANT WrongTypeNotDeleted

\* Every call may have returned.
CHECK_DEADLOCK FALSE
