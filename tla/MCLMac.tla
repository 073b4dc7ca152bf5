------------------------------- MODULE MCLMac -------------------------------
(* LMac for TLC.  The interfaces are alike, so that what holds for the     *)
(* operations of one of them holds for those of all.                       *)
EXTENDS LMac

CONSTANTS i1, i2

(* Every attempt of i1 to begin an operation ends: see BeginReturns.       *)
I1BeginReturns == BeginReturns(i1)
=============================================================================
