SPECIFICATION Spec
CONSTANTS
    Inputs <- AllInputs
    MaxDepth = 3
INVARIANTS RoundTrip NothingDropped ParseEnds MacrosHygienic
CHECK_DEADLOCK FALSE
