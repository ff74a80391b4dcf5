SPECIFICATION LoginSpec
CONSTANTS
  Faults = {"noconnect", "refused", "unsent", "lost", "killed", "nomem"}
  Nil = Nil
  Worker = {w1, w2}
  Challenge = {n1, n2}
  ChallengeTtl = 1
  RateMax = 0
  RateWindow = 1
  MaxHits = 1
  CredId = {k1}
  User = {u1, u2}
  Admin = {a1}
  MaxCount = 0
  RequireUv = TRUE
  CloneDetection = "strict"
  Presented <- SoundAndForged
SYMMETRY LoginSymmetry
INVARIANTS LoginTypeOK LoginInv OneSessionPerChallenge UsableIffRegistered
PROPERTY OneShotSpec
