--------------------------- MODULE MCExternalEffect ---------------------------
(* Small instances of ExternalEffect for TLC.                              *)
EXTENDS ExternalEffectInv, TLC

Symmetry == Permutations(Workers)
=============================================================================
