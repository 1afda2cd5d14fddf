CONSTANTS
    Client = {c1, c2, c3}
    Key = {"k"}
    Val = {v1, v2}
    Absent = Absent
    NoKey = NoKey
    Capacity = 2
    MaxCalls = 2
SPECIFICATION Spec
CHECK_DEADLOCK FALSE
INVARIANTS
  TypeOK
  NobodyForgotten
PROPERTIES
  ReadersAreTold
  ImplementsRegister
