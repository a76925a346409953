SPECIFICATION MCSpec
CONSTANTS
    Parents <- MCParents
    RefClass <- MCRefClass
    Bits <- MCBits
    Signature <- MCSignature
    Programs <- MCPrograms
INVARIANT ValuesKept
INVARIANT NoWildRead
INVARIANT EffectsOnce
INVARIANT NullSafe
INVARIANT LibraryAnswers
