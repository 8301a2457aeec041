SPECIFICATION Spec
CONSTANTS
    Conditions <- PlainOnly
    MaxSells = 1
INVARIANTS NeverShort
CHECK_DEADLOCK FALSE
