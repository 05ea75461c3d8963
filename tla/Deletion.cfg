SPECIFICATION Spec
CONSTANTS
    Retention = 1
    HoldFor = 1
    MaxAge = 0
    Keep = 1
    MaxFaults = 1
    MaxHands = 2
INVARIANTS KeptUntilDue ErasedStaysErased
PROPERTY CarriedOut
