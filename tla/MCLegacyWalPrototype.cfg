SPECIFICATION Spec
CONSTANTS
    MaxSource = 3
    Configurations <- PrototypeWithSnapshot
    Torn = Torn
INVARIANT AppliedOnce
