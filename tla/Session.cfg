SPECIFICATION FairSpec
CONSTANTS MaxConns = 2
          CloseConcurrently = TRUE
INVARIANTS TypeOK SessionAuthenticated NoLeakedSocket StopClosedOnce LiveSessionBeats
PROPERTIES KeepsPromise ConnectReturns ReplacedReaderEnds
CHECK_DEADLOCK FALSE
