SPECIFICATION Spec
CONSTANTS
  Bits <- WidthOf
  Programs <- DeferInTry
  MaxSteps = 2000
  Compile <- lower_function
  Verified <- ir_verify_function
  Means <- Did
INVARIANT DeferRunsOnce
