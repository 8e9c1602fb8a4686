---------------------------- MODULE MCDeviceTable ----------------------------
(* Small instances of DeviceTable.  Addresses are interchangeable: the code *)
(* only compares them for equality.                                         *)
EXTENDS DeviceTable, TLC

AddressSymmetry == Permutations(Address)
=============================================================================
