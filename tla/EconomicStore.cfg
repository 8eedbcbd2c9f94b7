SPECIFICATION Spec
CONSTANTS
  p1 = p1  p2 = p2  y1 = y1  y2 = y2  a = a  b = b
  Nil = Nil
  Pass = {p1, p2}
  Period = {y1}
  Value = {a, b}
  MaxTime = 2
  MaxChanges = 2
  PeriodEnd <- MCPeriodEnd
  Skewed = TRUE
SYMMETRY Symmetry
INVARIANTS VintageMonotone NoSpuriousRevision
