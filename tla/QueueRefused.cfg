CONSTANTS
    Upload = {u1, u2}
    Worker = {w1, w2}
    Moderated = {}
    Content = {"c"}
    ContentOf <- SameContent
    Verdict <- OneRefused
    Null = Null
    good = u1
SPECIFICATION Spec
SYMMETRY WorkerSymmetry
INVARIANT RejectedNeverShown
PROPERTY PromiseKept
