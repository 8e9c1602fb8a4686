------------------------------- MODULE MCLink -------------------------------
(* All eight sub-bands, three of the rates and a life of four join requests; *)
(* and frames of four bytes, which is enough for one to be cut before,      *)
(* inside and behind its middle.                                           *)
EXTENDS Link
=============================================================================
