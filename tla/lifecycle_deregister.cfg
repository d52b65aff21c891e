SPECIFICATION Spec
CONSTANTS
  Unary = {u1}
  Streams = {s1}
INVARIANTS
  DeregisteredFirst
