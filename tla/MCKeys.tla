------------------------------- MODULE MCKeys -------------------------------
(* Instances of ProviderKeys for TLC.                                      *)
EXTENDS ProviderKeys

Ceilings == [aws |-> 2, gcp |-> 3, azure |-> 5]
=============================================================================
