SPECIFICATION Spec
CONSTANTS Callers = {c1, c2}
          Nobody = Nobody
          ReadCap = 2
          MaxSessions = 1
          MaxOps = 3
          MaxVer = 3
INVARIANT OldestThere
CHECK_DEADLOCK FALSE
