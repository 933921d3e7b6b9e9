------------------------------- MODULE MCUfs -------------------------------
(* An instance of Ufs for TLC.                                               *)
EXTENDS Ufs
=============================================================================
