SPECIFICATION LoginSpec
CONSTANTS
  Faults = {"noconnect"}
  Nil = Nil
  Worker = {w1}
  Challenge = {n1}
  ChallengeTtl = 1
  RateMax = 0
  RateWindow = 1
  MaxHits = 1
  CredId = {k1}
  User = {u1}
  Admin = {a1}
  MaxCount = 0
  RequireUv = FALSE
  CloneDetection = "strict"
  Presented <- SoundOnly
INVARIANT NoPartialRecord
