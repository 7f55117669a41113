SPECIFICATION Spec
CONSTANTS MaxConns = 2
          CloseConcurrently = FALSE
INVARIANT LoggedInHasConn
CHECK_DEADLOCK FALSE
