---------------------------- MODULE MCSessions ------------------------------
(* Instances of Sessions for TLC. *)
EXTENDS Sessions

TwoRequests == {1, 2}
NoFaults    == {}
LostAnswers == {"lost"}
LostKilled  == {"lost", "killed"}
LostOffice  == {"lost", "office"}
AllFaults   == FaultKinds
=============================================================================
