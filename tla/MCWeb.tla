------------------------------- MODULE MCWeb --------------------------------
(* Instances of Web for TLC.                                               *)
EXTENDS Web
=============================================================================
