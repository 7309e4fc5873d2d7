----------------------------- MODULE MCSweeper ------------------------------
(* Instances of Sweeper for TLC.                                           *)
EXTENDS Sweeper
=============================================================================
