---------------------------- MODULE MCRxRouter ----------------------------
(* RxRouter with the operations of the station, and with operations that   *)
(* may run together.                                                       *)
EXTENDS RxRouter

StaOperations == {"Authenticating", "Associating", "Scanning"}
StaSteps == {"Authenticating", "Associating"}
StaFrames == {"Authentication", "AssociationResponse", "Beacon"}
StaRelevant == [o \in StaOperations |->
                  CASE o = "Authenticating" -> {"Authentication"}
                    [] o = "Associating" -> {"AssociationResponse"}
                    [] o = "Scanning" -> {"Beacon"}]
NoPairs == {}
SamePairs == {<<o, o>> : o \in StaOperations}
===========================================================================
