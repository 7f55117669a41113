SPECIFICATION Spec
CONSTANTS Posts = {r1, r2}
          Edges = {e1}
          Commands = {c1}
          Bodies <- AllBodies
          Arguments <- Words
          States <- TwoStates
          HandUses <- Panel
          MaxHand = 1
          MaxWriters = 2
INVARIANTS TypeOK AnswerShowsWrite LogIsTrue VerdictIsTrue
PROPERTIES WriteDoesAsAsked
CHECK_DEADLOCK FALSE
