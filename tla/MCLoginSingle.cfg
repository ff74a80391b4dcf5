SPECIFICATION FairLoginSpec
CONSTANTS
  Faults = {"noconnect", "lost", "killed", "nomem"}
  Nil = Nil
  Worker = {w1}
  Challenge = {n1, n2}
  ChallengeTtl = 1
  RateMax = 0
  RateWindow = 1
  MaxHits = 1
  CredId = {k1}
  User = {u1}
  Admin = {a1}
  MaxCount = 1
  RequireUv = TRUE
  CloneDetection = "strict"
  Presented <- SoundAndFlawed
INVARIANT MintJustified
PROPERTIES AcceptedAdvance EveryRequestEnds
