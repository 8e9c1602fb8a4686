------------------------------ MODULE MCControl ------------------------------
(* The firmware as it is, with its queues of twenty.  The delays keep the    *)
(* ratios of the configuration: 30 s doubling up to 900 s.                  *)
EXTENDS Control
=============================================================================
