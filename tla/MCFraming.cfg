SPECIFICATION Spec
CONSTANTS
    HEAD = 2
    Body <- MCBody
    MaxLength = 2
    Lost = Lost
    None = None
INVARIANT Framed
CHECK_DEADLOCK FALSE
