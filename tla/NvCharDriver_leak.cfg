CONSTANTS
    Slot = {s1, s2, s3}
    MaxBinds = 3
SPECIFICATION Spec
CHECK_DEADLOCK FALSE
INVARIANT IdleHasNoClass
