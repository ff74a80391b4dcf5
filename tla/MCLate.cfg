SPECIFICATION LateSpec
CONSTANTS
  Faults = {"unsent", "killed"}
  Nil = Nil
  Worker = {w1}
  Challenge = {n1, n2}
  ChallengeTtl = 1
  RateMax = 1
  RateWindow = 1
  MaxHits = 1
  CredId = {k1}
  User = {u1}
  Admin = {a1}
  MaxCount = 0
  RequireUv = TRUE
  CloneDetection = "strict"
  Presented <- SoundOnly
  MaxLimbo = 1
SYMMETRY LoginSymmetry
INVARIANTS LastWordHolds LateSetHarmless
PROPERTY OneShotSpec
