SPECIFICATION Spec
CONSTANTS
    Inputs <- ProbeInputs
    MaxEvents = 2
INVARIANTS HighConfidenceProbeAnswered
