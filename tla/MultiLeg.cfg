\* Every decision of the genomes, every refusal and rejection.
SPECIFICATION Spec
CONSTANTS
    Legs <- MCLegs
    Policies <- MCPolicies
    Instruments <- MCInstruments
    BaseSize = 10
    MaxBars = 5
INVARIANTS LegsAtTarget PositionsOnTarget
CHECK_DEADLOCK FALSE
