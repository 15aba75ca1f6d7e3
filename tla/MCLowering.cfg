SPECIFICATION Spec
CONSTANTS
  Bits <- WidthOf
  Programs <- TestPrograms
  MaxSteps = 2000
  Compile <- lower_function
  Verified <- ir_verify_function
  Means <- Did
INVARIANTS
  LoweredVerifies
  SameEffects
  NothingUndefined
  ErrorParked
  SymbolsRight
