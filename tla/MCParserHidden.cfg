CONSTANTS
    Names <- MCNames
    target <- MCTarget
    knownValues <- MCKnown
    Sources <- NoSources
    Broken <- Variables
SPECIFICATION Spec
INVARIANTS MistakeHidesNothing
