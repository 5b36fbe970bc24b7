SPECIFICATION FairSpec
CONSTANTS
  Deposits = {d1}
  Recoveries = {r1}
  Callbacks = {c1, c2}
  Staff = {a1}
  Clearers = {k1, k2}
  MaxSaves = 1
  MaxSpent = 1
  None = None
INVARIANTS DoneIffCredited RecoveredOnce DebtsWereSpent
PROPERTIES CreditedOnce DebtsCollected FinalIsTaken
CHECK_DEADLOCK FALSE
