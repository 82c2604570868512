------------------------------ MODULE MCGallery ------------------------------
EXTENDS Gallery, TLC

\* By upload time the two oldest items tie; by capture time the newest is last.
UploadedOrCaptured ==
    [s \in {"uploaded", "captured"} |-> [m \in Media |->
        IF m = 3 THEN (IF s = "uploaded" THEN 2 ELSE 0) ELSE 1]]

SlotSymmetry == Permutations(Request)
=============================================================================
