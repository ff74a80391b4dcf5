SPECIFICATION AccessSpec
CONSTANTS
  Faults = {"lost", "nomem", "killed"}
  Nil = Nil
  Worker = {w1}
  Challenge = {n1}
  ChallengeTtl = 1
  RateMax = 0
  RateWindow = 1
  MaxHits = 1
  CredId = {k1}
  User = {u1, u2}
  Admin = {a1}
  MaxCount = 0
  RequireUv = TRUE
  CloneDetection = "strict"
  Presented <- SoundOnly
  Minter <- OurMinter
  Gate <- Gates
  Foreign <- ForeignTokens
  JwtTtl = 1
  MaxLag = 1
  MaxTime = 2
SYMMETRY UserSymmetry
INVARIANTS SessionsDated IdentityIsOwnSession
PROPERTY PromiseSpec
