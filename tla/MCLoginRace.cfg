SPECIFICATION LoginSpec
CONSTANTS
  Faults = {"noconnect"}
  Nil = Nil
  Worker = {w1, w2}
  Challenge = {n1, n2}
  ChallengeTtl = 1
  RateMax = 0
  RateWindow = 1
  MaxHits = 1
  CredId = {k1}
  User = {u1}
  Admin = {a1}
  MaxCount = 1
  RequireUv = FALSE
  CloneDetection = "strict"
  Presented <- SoundOnly
PROPERTY AcceptedAdvance
