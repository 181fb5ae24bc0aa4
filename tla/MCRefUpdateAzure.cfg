SPECIFICATION Spec
CONSTANTS
  g = g
  a = a
  b = b
  t1 = t1
  me = me
  you = you
  v1 = v1
  v2 = v2
  None = None
  Absent = Absent
  Torn = Torn
  Second = "awskms"
  Third = "azkms"
  Refs = {b}
  Backend <- RefBackend
  Targets = {t1}
  TargetOf <- RefTarget
  Keys = {me, you}
  Me = me
  Values = {v1, v2}
  Settings <- SomeSettings
  MaxCommands = 1
  MaxEvents = 0
INVARIANT NamedIsUsed
CHECK_DEADLOCK FALSE
