SPECIFICATION FairSpec
CONSTANTS Streams = {s1}
          Nobody = Nobody
          Other = Other
          MaxStreams = 1
          MaxOthers = 1
          Buffer = 1
          MaxSessions = 2
          Statuses = {1, 2}
INVARIANTS TypeOK ChannelsClosedOnce SlotsAreExact StreamShowsNewest
PROPERTIES StreamsEnd
CHECK_DEADLOCK FALSE
