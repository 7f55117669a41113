SPECIFICATION Spec
CONSTANTS Day = 6
          Lists <- AdjacentWindows
          MaxLen = 2
          MaxEdits = 0
          Failures = FALSE
          LostAcks = FALSE
          Restarts = FALSE
          Manual = FALSE
          Punctual = TRUE
INVARIANT HeatsInsideWindows
