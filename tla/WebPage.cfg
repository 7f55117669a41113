SPECIFICATION FairSpec
CONSTANTS Toggles = {heat}
          MaxClicks = 3
          MaxOutside = 1
          MaxPushes = 1
INVARIANTS TypeOK OneAtATime
PROPERTIES PageConverges ClicksEnd
CHECK_DEADLOCK FALSE
