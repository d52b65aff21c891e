SPECIFICATION FairSpec
CONSTANTS
  Calls = {c1, c2}
  Addrs = {a1, a2}
  Methods = {m1}
  Types = {t1, t2}
  None = None
  Untyped = Untyped
  MaxConns = 2
INVARIANTS
  TypeOK
  LabelOfItsNode
  UntypedIsItsOwnFailure
PROPERTIES
  RepliesHandedOn
