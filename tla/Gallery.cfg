CONSTANTS
    Media = {1, 2, 3}
    Settled = {2}
    Sort = {"uploaded", "captured"}
    Key <- UploadedOrCaptured
    PageSize = 2
    Cap = 3
    Request = {r1, r2}
    Null = Null
SPECIFICATION Spec
SYMMETRY SlotSymmetry
INVARIANTS GalleryInv PendingOnlyUnderApproval NothingSkipped
