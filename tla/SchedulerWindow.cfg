SPECIFICATION FairSpec
CONSTANTS Day = 4
          Lists <- EachWindow
          MaxLen = 1
          MaxEdits = 0
          Failures = TRUE
          LostAcks = FALSE
          Restarts = FALSE
          Manual = FALSE
          Punctual = FALSE
INVARIANTS HeatsInsideWindows
PROPERTIES EdgesRetried
