CONSTANTS
    Request = {r1, r2}
    Faults = {"restart", "power"}
    Janitor = TRUE
    Refusable = FALSE
    Null = Null
SPECIFICATION Spec
INVARIANTS BarrierInv CancelledStays FinalIsFinal
PROPERTIES ReceiptFinal NeededSpared
SYMMETRY RequestSymmetry
