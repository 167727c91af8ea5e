----------------------------- MODULE MCSurfaces -----------------------------
(* Instances of Surfaces for TLC.                                          *)
EXTENDS Surfaces, TLC

\* Namespaces are interchangeable, and so are queries.
Symmetry == Permutations(Namespaces) \cup Permutations(Queries)
=============================================================================
