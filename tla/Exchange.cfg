SPECIFICATION FairSpec
CONSTANTS Callers = {c1, c2}
          Nobody = Nobody
          ReadCap = 2
          MaxSessions = 2
          MaxOps = 2
          MaxVer = 2
INVARIANTS TypeOK ReadsAreFresh ResponseNotStolen AckIsMine
PROPERTIES CallsReturn
CHECK_DEADLOCK FALSE
