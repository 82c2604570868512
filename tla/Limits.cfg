CONSTANTS
    Key = {k1}
    Request = {r1, r2, r3}
    Rate <- RateOf
    Burst <- BurstOf
    Idle = 2
    Max = 2
    Window = 2
    Null = Null
SPECIFICATION Spec
SYMMETRY Symmetry
INVARIANTS LimitsInv WithinRate SlotsExact
