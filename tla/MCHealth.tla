------------------------------ MODULE MCHealth ------------------------------
(* Instances of Health: every event of the application's interface through   *)
(* queues of three, and the firmware as it is.                              *)
EXTENDS Health

AllOpenEvents ==
  {"DISPATCH_STARTED", "DISPATCH_FINISHED", "SOFT_ERROR", "HARD_ERROR"}
=============================================================================
