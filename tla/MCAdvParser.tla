---------------------------- MODULE MCAdvParser ----------------------------
(* Frames of two bytes, which is only the company, behind elements of up to *)
(* three: every payload of up to seven bytes that are a length, a type or a *)
(* company byte.                                                           *)
EXTENDS AdvParser

MCCompany == 1 + 256 * 2
=============================================================================
