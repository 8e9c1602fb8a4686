------------------------------ MODULE AdvParser ------------------------------
(***************************************************************************)
(* parse_custom_frame(): the walk over the AD structures of one             *)
(* advertisement in search of a frame of ours.  An AD structure is a length *)
(* byte, a type byte and a value, and the length counts the last two.       *)
(*                                                                         *)
(* One round of the loop is one action, one action per way it can go.       *)
(***************************************************************************)
EXTENDS Integers

CONSTANTS
  MaxData,       (* hal::ble::MAX_ADV_DATA_SIZE                             *)
  FrameSize,     (* sizeof(ManufacturerFrame)                               *)
  Byte,          (* what a received byte may be                             *)
  Manufacturer,  (* AD_TYPE_MANUFACTURER_SPECIFIC                           *)
  Company        (* config::EXPECTED_COMPANY_ID                             *)

ASSUME ParserConstants ==
  /\ MaxData \in Nat
  /\ FrameSize \in Nat /\ FrameSize >= 2
  /\ Byte \subseteq 0..255
  /\ Company \in Nat

VARIABLES
  data,          (* the report's bytes; scan_callback() leaves the rest zero *)
  data_length,   (* how many of them were received                          *)
  offset,        (* the length byte of the element the walk has come to     *)
  verdict,       (* what parse_custom_frame() returned, or "open"           *)
  reach          (* history: the end of the farthest byte it has read       *)

parserVars == <<data, data_length, offset, verdict, reach>>

(* scan_callback() keeps what fits in the report and cuts off the rest.      *)
ParserInit ==
  /\ data_length \in 0..MaxData
  /\ \E received_bytes \in [0..(data_length - 1) -> Byte] :
       data = [i \in 0..(MaxData - 1) |->
                 IF i < data_length THEN received_bytes[i] ELSE 0]
  /\ offset = 0
  /\ verdict = "open"
  /\ reach = 0

-----------------------------------------------------------------------------
Farthest(n) == IF n > reach THEN n ELSE reach

After(o) == o + 1 + data[o]

HasElement(o) == o + 1 < data_length
ClaimsMoreButForType(o) == o + data[o] > data_length
ClaimsMore(o) == After(o) > data_length
HasFrameSizeAtLeast(o) == data[o] - 1 >= FrameSize
HasFrameSize(o) == data[o] - 1 = FrameSize

(* A plain copy of the first two bytes reads them low byte first. *)
CompanyId(o) == data[o + 2] + 256 * data[o + 3]
IsOurs(o) == CompanyId(o) = Company

(* Fewer than two bytes are left: nothing is read. *)
Exhausted ==
  /\ ~HasElement(offset)
  /\ verdict' = "foreign"
  /\ UNCHANGED <<offset, reach>>

(* A zero length ends the sequence, a length beyond the data discards it. *)
Discard ==
  /\ HasElement(offset)
  /\ data[offset] = 0 \/ ClaimsMore(offset)
  /\ verdict' = "foreign"
  /\ reach' = Farthest(offset + 1)
  /\ UNCHANGED offset

(* The element to look at: from here on its type byte is read as well. *)
Whole(o) == HasElement(o) /\ data[o] # 0 /\ ~ClaimsMore(o)

Skip ==
  /\ Whole(offset) /\ data[offset + 1] # Manufacturer
  /\ offset' = After(offset)
  /\ reach' = Farthest(offset + 2)
  /\ UNCHANGED verdict

(* Manufacturer data of another size is somebody else's. *)
Mismatch ==
  /\ Whole(offset) /\ data[offset + 1] = Manufacturer
  /\ ~HasFrameSize(offset)
  /\ verdict' = "foreign"
  /\ reach' = Farthest(offset + 2)
  /\ UNCHANGED offset

(* memcpy() of the frame, then the filter on the company. *)
Copy ==
  /\ Whole(offset) /\ data[offset + 1] = Manufacturer
  /\ HasFrameSize(offset)
  /\ verdict' = IF IsOurs(offset) THEN "ours" ELSE "foreign"
  /\ reach' = Farthest(offset + 2 + FrameSize)
  /\ UNCHANGED offset

ParserNext ==
  /\ verdict = "open"
  /\ Exhausted \/ Discard \/ Skip \/ Mismatch \/ Copy
  /\ UNCHANGED <<data, data_length>>

ParserSpec == ParserInit /\ [][ParserNext]_parserVars

-----------------------------------------------------------------------------
(* Every variable holds a value of its type, and the walk does not leave the *)
(* data.                                                                    *)
ParserTypeOK ==
  /\ data \in [0..(MaxData - 1) -> Byte \cup {0}]
  /\ data_length \in 0..MaxData
  /\ offset \in 0..data_length
  /\ verdict \in {"open", "ours", "foreign"}
  /\ reach \in Nat

(* Whatever lengths the advertisement claims, no byte outside what was       *)
(* received is read (subsystem.cpp:112-118).                               *)
ReadsWhatWasReceived == reach <= data_length

(* What an advertisement of ours is, said without a walk: elements can be    *)
(* laid out from its first byte on, each starting where the one before ends, *)
(* up to one with manufacturer data, and that one holds a frame of ours.    *)
Lies(start, length) == start + length <= data_length
AnotherElement(p) ==
  Lies(p, 2) /\ data[p] > 0 /\ Lies(p, 1 + data[p]) /\ data[p + 1] # Manufacturer
Frame(p) ==
  /\ Lies(p, 2 + FrameSize)
  /\ data[p] = 1 + FrameSize /\ data[p + 1] = Manufacturer
  /\ data[p + 2] = Company % 256 /\ data[p + 3] = Company \div 256
LaidOut(starts, last) ==
  /\ 0 \in starts /\ last \in starts
  /\ \A p \in starts \ {last} : AnotherElement(p) /\ p + 1 + data[p] \in starts
Ours ==
  \E last \in 0..data_length :
    Frame(last) /\ \E starts \in SUBSET (0..last) : LaidOut(starts, last)

(* The walk accepts the advertisements of our endpoints and no others,       *)
(* wherever in them the frame is (subsystem.cpp:94-99).                    *)
VerdictIsRight == verdict # "open" => (verdict = "ours" <=> Ours)
=============================================================================
