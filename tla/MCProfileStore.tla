--------------------------- MODULE MCProfileStore ---------------------------
(* Instances of ProfileStore for TLC.                                      *)
EXTENDS ProfileStore, TLC

\* Processes, addresses and names are interchangeable.
Symmetry == Permutations(Processes) \cup Permutations(Addresses) \cup Permutations(Names)
=============================================================================
