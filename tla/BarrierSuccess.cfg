CONSTANTS
    Request = {r1, r2}
    Faults = {}
    Janitor = FALSE
    Refusable = FALSE
    Null = Null
SPECIFICATION Spec
INVARIANT SuccessTruthful
