SPECIFICATION Spec
CONSTANTS
    MaxSource = 4
    Configurations <- MCConfigurations
    Torn = Torn
INVARIANTS TypeOK OnlyTornTailRefused AcknowledgedIsRecoverable AppliedOnce
PROPERTY PublishedNeverShrinks
