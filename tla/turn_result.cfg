SPECIFICATION Spec
CONSTANTS
    x1 = x1
    x2 = x2
    e1 = e1
    e2 = e2
    Texts = {x1, x2}
    Oversized = {x2}
    Errors = {e1, e2}
    MaxEvents = 5
    None = None
SYMMETRY Symmetry
CHECK_DEADLOCK FALSE
INVARIANTS TypeOK OutcomeIsTheTurns SuccessIsEarned
