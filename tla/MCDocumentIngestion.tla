------------------------- MODULE MCDocumentIngestion -------------------------
(* Model values and symmetry for the runs of DocumentIngestion.            *)
EXTENDS DocumentIngestionInv, TLC

Symmetry == Permutations(Workers) \cup Permutations(Settings)
SharedSymmetry == Symmetry \cup Permutations(Docs)
=============================================================================
