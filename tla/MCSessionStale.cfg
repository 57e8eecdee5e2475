SPECIFICATION Spec
CONSTANTS
  s1 = s1
  s2 = s2
  Sessions = {s1, s2}
  Blank = Blank
  Transient = Transient
  SessionKeys = {k1}
  NoEnvelope = NoEnvelope
  Requests <- AllKinds
PROPERTIES
  StaleSessionStaysOut
