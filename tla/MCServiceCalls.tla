--------------------------- MODULE MCServiceCalls ---------------------------
(* Instances of ServiceCalls for TLC.                                      *)
EXTENDS ServiceCalls

\* Every operation there is.
Everything == AllOperations
=============================================================================
