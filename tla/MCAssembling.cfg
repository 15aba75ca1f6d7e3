CONSTANTS
    NameSize = 3
    MaxExtra = 2
    MaxLibraries = 2
    Sources <- MCSources
    Objects <- MCObjects
    Libraries <- MCLibraries
    Spelling <- MCSpelling
    Encode <- asm_encode
    Executed <- Decode
    Unsupported <- MCUnsupported
SPECIFICATION Spec
INVARIANTS EncodedRight JumpsLand ReferencesReach ObjectKept RefusedRightly
PROPERTY LayoutEnds
