SPECIFICATION Spec
CONSTANTS
    IdSpan = 8
    Kinds = {0, 2, 7}
INVARIANTS
    RightKind
    NoConflict
