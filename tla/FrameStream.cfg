SPECIFICATION Spec
CONSTANTS Streams <- AllStreams
          Pieces = {1, 2, 3, 7, 11, 130}
INVARIANTS TypeOK DispatchedInOrder NothingInvented
CHECK_DEADLOCK FALSE
