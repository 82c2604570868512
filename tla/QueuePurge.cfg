CONSTANTS
    Upload = {u1, u2}
    Worker = {w1}
    Moderated = {u1, u2}
    Content = {"c"}
    ContentOf <- SameContent
    Verdict <- AllAccepted
    Null = Null
    good = u1
SPECIFICATION FairSpec
INVARIANTS PublishedHasOriginal KeptCopy
PROPERTIES RemovalDecided PendingSettles
