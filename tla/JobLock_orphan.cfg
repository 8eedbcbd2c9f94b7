SPECIFICATION Spec
CONSTANTS
  a = a
  b = b
  a1 = a1
  a2 = a2
  b1 = b1
  Replica = {a, b}
  Run = {a1, a2, b1}
  Home <- MCHome
  Timeout = 2
  Grace = 1
  MaxHandlers = 2
  Nobody = Nobody
INVARIANTS HandlerIsLocked
