----------------------------- MODULE MCTripRuns -----------------------------
(***************************************************************************)
(* Two requests at a time, on the runs the .cfg gives.  FAILED and SKIPPED *)
(* are treated alike everywhere, so one of them is reported; ARRIVED       *)
(* leaves a stop open and changes nothing else.                            *)
(***************************************************************************)
EXTENDS TripRuns, TLC

Closings == {"DONE", "FAILED"}
Asked == {<<"ACTIVE", Same>>, <<"CANCELLED", Same>>}
AskedOrHanded == Asked \union {<<Same, d>> : d \in Drivers}
=============================================================================
