------------------------------- MODULE MCBoot -------------------------------
(* Instance of Boot: a watchdog of three ticks, the firmware's eight stacks. *)
EXTENDS Boot
=============================================================================
