------------------------------- MODULE Mailbox -------------------------------
(***************************************************************************)
(* What the device table promises, without slots, sequence numbers, clocks *)
(* or locks: one box per device, which holds the newest reading of the     *)
(* device until it is replaced, or until the box is needed for another     *)
(* device.  A reading leaves at most once, and a box is settled only when  *)
(* the reading it holds has left.                                          *)
(***************************************************************************)
EXTENDS Naturals, FiniteSets

CONSTANTS
  Address,    (* devices that may be heard                                  *)
  Capacity    (* how many of them are remembered at a time                  *)

VARIABLES
  newest,     (* the reading in each device's box, 0 if it has none         *)
  settled,    (* the devices whose reading is known to have left            *)
  sent,       (* the readings that left                                     *)
  heard       (* the last reading's number                                  *)

vars == <<newest, settled, sent, heard>>

Held == {a \in Address : newest[a] # 0}

Init ==
  /\ newest = [a \in Address |-> 0]
  /\ settled = {}
  /\ sent = {}
  /\ heard = 0

(* A device that has a box, or for which there is room. *)
Hear(a) ==
  /\ a \in Held \/ Cardinality(Held) < Capacity
  /\ heard' = heard + 1
  /\ newest' = [newest EXCEPT ![a] = heard + 1]
  /\ settled' = settled \ {a}
  /\ UNCHANGED sent

(* A device for which there is room only in place of another. *)
Replace(a, b) ==
  /\ a \notin Held /\ b \in Held
  /\ Cardinality(Held) = Capacity
  /\ heard' = heard + 1
  /\ newest' = [newest EXCEPT ![a] = heard + 1, ![b] = 0]
  /\ settled' = settled \ {a, b}
  /\ UNCHANGED sent

(* Some readings leave: none that was not heard, none for the second time. *)
Send(R) ==
  /\ R \subseteq 1..heard
  /\ R \cap sent = {}
  /\ sent' = sent \cup R
  /\ UNCHANGED <<newest, settled, heard>>

Settle(a) ==
  /\ newest[a] \in sent
  /\ settled' = settled \cup {a}
  /\ UNCHANGED <<newest, sent, heard>>

Next ==
  \/ \E a \in Address : Hear(a) \/ Settle(a)
  \/ \E a, b \in Address : Replace(a, b)
  \/ \E R \in SUBSET (1..heard) : Send(R)

Spec == Init /\ [][Next]_vars
=============================================================================
