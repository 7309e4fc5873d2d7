------------------------------ MODULE MCStore -------------------------------
(* Instances of Store for TLC.                                             *)
EXTENDS Store, TLC

CONSTANTS a, b, i1, i2, t1, t2, aws

OneHost == [t \in Threads |-> i1]
TwoHosts == (t1 :> i1) @@ (t2 :> i2)
SameProvider == [id \in Ids |-> aws]
DiscoverA == <<a>>
=============================================================================
