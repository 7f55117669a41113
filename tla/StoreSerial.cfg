SPECIFICATION Spec
CONSTANTS p1 = p1
          p2 = p2
          p3 = p3
          Puts = {p1, p2, p3}
          Size <- Sizes
          NoList = NoList
          MaxCrashes = 2
          OneAtATime = TRUE
INVARIANTS TypeOK NeverTorn MemoryIsDisk
PROPERTIES ListIsDurable
CHECK_DEADLOCK FALSE
