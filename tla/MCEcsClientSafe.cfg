SPECIFICATION Spec
CONSTANTS
  Callers = {a, b, c}
  Nobody = nobody
  Slots = 2
  MaxAttempts = 2
  Threshold = 2
  OpenTicks = 1
  MaxTokens = 5
SYMMETRY CallerSymmetry
INVARIANTS
  SlotsAreReturned
  RequestsAreBounded
  LoginsAreBounded
  BreakerAgrees
  IInv
