SPECIFICATION Spec
CONSTANTS
    MaxHolePunchAttempts = 1
    Members = {"m1"}
INVARIANTS
    ConePeerKnown
