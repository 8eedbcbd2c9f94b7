SPECIFICATION SciSpec
CONSTANTS
  p1 = p1  p2 = p2  m1 = m1  m2 = m2  a = a  b = b
  Nil = Nil
  Pass = {p1, p2}
  Period = {m1, m2}
  Value = {a, b}
  Edition = {0, 1, 2, 3}
  Content <- MCContent
  MonthEnd <- MCMonthEnd
  MaxPosts = 2
INVARIANT EditionOrder
CHECK_DEADLOCK FALSE
