SPECIFICATION CredSpec
CONSTANTS
  Faults = {}
  Nil = Nil
  CredId = {k1}
  User = {u1, u2}
  Admin = {a1}
  MaxCount = 0
INVARIANT ListedIsRegistered
