------------------------------- MODULE MCSta -------------------------------
(* Instances of Sta for TLC.                                               *)
EXTENDS Sta
=============================================================================
