SPECIFICATION ChallengeSpec
CONSTANTS
  Faults = {"noconnect", "refused", "unsent", "lost", "killed", "nomem"}
  Nil = Nil
  Worker = {w1, w2}
  Challenge = {n1, n2, n3}
  ChallengeTtl = 2
  RateMax = 1
  RateWindow = 2
  MaxHits = 2
INVARIANTS ChallengeTypeOK BurstBound
PROPERTIES WindowNeverExtended LockoutEnds ChallengeExpires ChallengeAnswered
