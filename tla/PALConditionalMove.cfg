SPECIFICATION Spec
CONSTANTS
  x = x
  Roots = {x}
  Paths <- WholeOnly
  Indices = {e1}
  Refs = {}
  Values = {v}
  DropReads = {v}
  MaxDepth = 3
  MaxOps = 5
  AliasedFors = 0
  Reborrows = 0
  Temp = Temp
INVARIANTS NoFlaggedDrop
\* The bound on the program's length ends the run.
CHECK_DEADLOCK FALSE
