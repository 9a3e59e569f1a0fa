CONSTANTS
  k1 = k1
  k2 = k2
  Keys <- MCKeys
  MaxTier = 2
  MaxAge = 1
  Cooldown = 2
  Horizon = 5
SPECIFICATION LiveSpec
INVARIANTS
  TypeOK
  CooldownClock
  LadderCountsSightings
PROPERTIES
  ReentryOnlyAfterCooldown
  GuardSpec
