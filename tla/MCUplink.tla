------------------------------- MODULE MCUplink ------------------------------
(* Instances of Uplink with the sizes of the wire format: 12 bytes of        *)
(* header, 26 of record.  Of the payloads, 11 bytes hold nothing, 30 a       *)
(* header, 53 one record and 64 two.                                        *)
EXTENDS Uplink
=============================================================================
