--------------------------- MODULE MCIngestQueue ---------------------------
EXTENDS IngestQueue, TLC

SameContent == [u \in Upload |-> "c"]
AllAccepted == [u \in Upload |-> "accept"]

\* One upload with acceptable bytes and one the pipeline refuses.
CONSTANT good
OneRefused == [u \in Upload |-> IF u = good THEN "accept" ELSE "unsupported_type"]

WorkerSymmetry == Permutations(Worker)
AllSymmetry == Permutations(Worker) \cup Permutations(Upload)
=============================================================================
