SPECIFICATION Spec
CONSTANTS
  x = x
  Roots = {x}
  Paths <- ArrayPaths
  Indices = {e1, e2}
  Refs = {r}
  Values = {v}
  DropReads = {v}
  MaxDepth = 3
  MaxOps = 4
  AliasedFors = 1
  Reborrows = 0
  Temp = Temp
INVARIANTS NoAliasedWrite
SYMMETRY Elements
\* The bound on the program's length ends the run.
CHECK_DEADLOCK FALSE
