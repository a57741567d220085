SPECIFICATION Spec
CONSTANTS
  x = x
  Roots = {x}
  Paths <- ArrayPaths
  Indices = {e1, e2}
  Refs = {r}
  Values = {v}
  DropReads = {v}
  MaxDepth = 3
  MaxOps = 4
  AliasedFors = 0
  Reborrows = 1
  Temp = Temp
INVARIANTS LoansCovered
SYMMETRY Elements
\* The bound on the program's length ends the run.
CHECK_DEADLOCK FALSE
