CONSTANTS
    Request = {r1}
    Faults = {"restart", "power", "hide", "delay", "legacy"}
    Janitor = FALSE
    Refusable = TRUE
    Null = Null
SPECIFICATION FairSpec
INVARIANTS CommittedComplete HookTruthful
PROPERTIES CompleteSettles CondemnedReclaimed PromiseKept
