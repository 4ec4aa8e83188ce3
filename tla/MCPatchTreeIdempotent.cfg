CONSTANTS
  GMP = GMP
  OB = OB
  Last = 4
  Trees = {GMP, OB}
  TreeOf <- MCTreeOf
  OpenBLAS = OB
  Ported <- MCPorted
  Tolerant = {GMP}
  Stacks = {3, 4}
  MaxRuns = 3
  MaxBuilds = 1
SPECIFICATION Spec
PROPERTY Idempotent
