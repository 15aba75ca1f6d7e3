CONSTANTS
    Names <- MCNames
    target <- MCTarget
    knownValues <- MCKnown
    Sources <- MCSources
    Broken <- MCBroken
    Texts <- MCTexts
    Letters <- MCLetters
    Digits <- MCDigits
    HexLetters <- MCHexLetters
    Radix <- MCRadix
    Keywords <- MCKeywords
    Operators <- MCOperators
    WideBytes <- MCWideBytes
    Escapes <- MCEscapes
    Bits = 6
    MaxPieces = 3
SPECIFICATION FrontSpec
INVARIANTS TokensExact PrefixedExact ReadsBack MistakeContained DeclaredOrPoisoned CleanBetween
PROPERTY MovesOn
