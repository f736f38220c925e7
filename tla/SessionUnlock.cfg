SPECIFICATION Spec
CONSTANTS
  Owners = {o1, o2}
  NoOwner = none
  Lifetime = 2
  Observation = 2
INVARIANTS RequestAttended
PROPERTIES WithinPermit
