CONSTANTS
  Keys = {s1, s2}
  MaxValues = 2
  MaxCalls = 3
  MaxNow = 2
  MaxSends = 1
  TTL = 1
SPECIFICATION RedisSpec
SYMMETRY SymmetricSessions
INVARIANTS ConsumedOnce ReplacedIsGone
PROPERTIES RedisKeepsContract
CHECK_DEADLOCK FALSE
