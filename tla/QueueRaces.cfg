CONSTANTS
    Upload = {u1, u2}
    Worker = {w1, w2}
    Moderated = {}
    Content = {"c"}
    ContentOf <- SameContent
    Verdict <- AllAccepted
    Null = Null
    good = u1
SPECIFICATION Spec
SYMMETRY AllSymmetry
INVARIANTS TypeOK TerminalSourceGone QueueInv
PROPERTY PromiseKept
