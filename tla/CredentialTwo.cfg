SPECIFICATION CredSpec
CONSTANTS
  Faults = {}
  Nil = Nil
  CredId = {k1}
  User = {u1}
  Admin = {a1, a2}
  MaxCount = 0
INVARIANT UsableIsListed
