CONSTANTS
    Inputs <- AllInputs
    Main <- MCMain
    Callee <- MCCallee
    Fuel = 7
SPECIFICATION Spec
INVARIANTS SameBehaviour CfgConsistent
