---------------------------- MODULE MCAcquisition ----------------------------
(* A pool of two and the shortest event queue the design allows, so that   *)
(* both fill up: six reports are enough for a burst, a drain that overlaps *)
(* a second burst, and a dropped wakeup.                                   *)
EXTENDS Acquisition
=============================================================================
