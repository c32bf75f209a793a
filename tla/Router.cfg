CONSTANTS
  GET = GET  POST = POST  root = root  print = print
  Callers = {w1}
  Methods <- TwoMethods
  Paths <- TwoPaths
  MaxEdits = 4
  MaxCalls = 3
  MaxBody = 1
SPECIFICATION Spec
SYMMETRY Symmetry
INVARIANTS TypeOK UndueAnswersAreRaces FramedOnce LengthIsBody
