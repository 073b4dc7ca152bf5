------------------------------- MODULE MCAwdl ------------------------------
(* Instances of Awdl for model checking.                                   *)
EXTENDS Awdl

CONSTANTS p1, p2

(* A weaker and a stronger peer of version 2, and a stronger one of        *)
(* version 1 that follows us.  A peer may follow the other one too: the    *)
(* root of an advert is not tied to its sender.                            *)
MixedAdverts ==
  {[metric |-> 1, counter |-> 0, root |-> p1, distance |-> 0],
   [metric |-> 3, counter |-> 0, root |-> p2, distance |-> 0],
   [metric |-> 3, counter |-> None, root |-> Self, distance |-> 1]}

(* A peer with a larger counter and a smaller metric.                      *)
CountingAdverts == {[metric |-> 1, counter |-> 1, root |-> p1, distance |-> 0]}
=============================================================================
