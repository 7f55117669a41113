SPECIFICATION Spec
CONSTANTS Day = 6
          Lists <- EditedLists
          MaxLen = 2
          MaxEdits = 2
          Failures = TRUE
          LostAcks = TRUE
          Restarts = TRUE
          Manual = TRUE
          Punctual = FALSE
INVARIANTS TypeOK MembershipIsLit NoForgottenHeat
PROPERTIES ManualNotStomped
