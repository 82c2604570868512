--------------------------- MODULE MCIngestBarrier ---------------------------
(***************************************************************************)
(* Small instances of IngestBarrier: one upload, one or two requests.      *)
(***************************************************************************)
EXTENDS IngestBarrier, TLC

RequestSymmetry == Permutations(Request)
=============================================================================
