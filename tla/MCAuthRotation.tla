--------------------------- MODULE MCAuthRotation ---------------------------
(* Instances of AuthRotation for TLC.                                      *)
EXTENDS AuthRotation, TLC

\* Sessions are interchangeable; for the runs without liveness only.
Symmetry == Permutations(Sessions)
=============================================================================
