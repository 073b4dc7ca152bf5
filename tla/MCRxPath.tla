------------------------------ MODULE MCRxPath ------------------------------
(* RxPath for TLC: a frame of every kind for the station, one for the AWDL *)
(* interface and one for both.                                             *)
EXTENDS RxPath

SomeFrames ==
  [to : {{"Sta"}}, kind : Kinds] \cup [to : {{"Awdl"}, {"Sta", "Awdl"}}, kind : {"Mgmt"}]
=============================================================================
