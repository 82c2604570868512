CONSTANTS
    Upload = {u1, u2}
    Left = {}
    Done = {u2}
    Worker = {w1}
    Hook = {h1}
    Reconciler = Reconciler
    Op = {o1, o2}
    Slots = 1
    Null = Null
SPECIFICATION FairSpec
CHECK_DEADLOCK FALSE
INVARIANTS LifecycleInv RegistryExact Attentive ClosedQuietly
PROPERTIES CallersAnswered Stops
