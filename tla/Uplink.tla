-------------------------------- MODULE Uplink -------------------------------
(***************************************************************************)
(* svc::comms::dispatch(): what one dispatch cycle sends, given what is     *)
(* pending in the device table and what the link can carry, against a LoRa  *)
(* network that adapts the data rate to the uplinks it hears.               *)
(*                                                                         *)
(* A device is its slot, and keeps it: claiming and evicting slots is       *)
(* module DeviceTable's.  A dispatch is allowed and the link was joined:    *)
(* that is module Control's.  Time is only the silence since the last       *)
(* uplink the far end could see.                                           *)
(***************************************************************************)
EXTENDS Integers, FiniteSets

CONSTANTS
  NumDevices,           (* devices in range, in slots 1..NumDevices         *)
  HeaderSize,           (* sizeof(UplinkHeader): 12                         *)
  RecordSize,           (* sizeof(EndpointRecord): 26                       *)
  Payloads,             (* payload sizes the link may report, in bytes      *)
  MaxUplinks,           (* get_max_uplinks_per_dispatch()                   *)
  MaxSilence,           (* HEARTBEAT_MAX_SILENCE_S, 0 for no heartbeats     *)
  SeqMod,               (* 2^16: s_sequence is a uint16_t                   *)
  SendFailureDropsLink  (* socket transports; LoRaWAN stays joined          *)

ASSUME UplinkConstants ==
  /\ NumDevices \in Nat \ {0}
  /\ HeaderSize \in Nat
  /\ RecordSize \in Nat \ {0}
  /\ Payloads \subseteq 0..255 /\ Payloads # {}
  /\ MaxUplinks \in 1..255
  /\ MaxSilence \in Nat
  /\ SeqMod \in Nat \ {0, 1}
  /\ SendFailureDropsLink \in BOOLEAN

VARIABLES
  pending,    (* devices with update_seq # reported_seq                     *)
  fresh,      (* devices heard within DEVICE_STALE_AFTER_S                  *)
  moved,      (* devices heard since the snapshot was taken                 *)
  silent,     (* uptime - s_last_uplink_uptime_s, stuck above MaxSilence    *)
  connected,  (* is_connected()                                             *)
  ceiling,    (* get_max_payload_size(): the data rate's limit              *)
  available,  (* get_available_payload_size(): less MAC traffic             *)
  measured,   (* the network has heard a frame at this data rate            *)
  phase,      (* where dispatch() is                                        *)
  budget,     (* available, as this cycle has read it                       *)
  room,       (* records_per_fragment                                       *)
  batch,      (* devices of the snapshot not sent yet                       *)
  index,      (* fragment_index                                             *)
  count,      (* fragment_count                                             *)
  sequence,   (* s_sequence                                                 *)
  boot_sent,  (* s_boot_uplink_sent                                         *)
  frame,      (* history: the last frame with a header that was accepted    *)
  cycles,     (* history: dispatches that got a frame through: 0, 1, 2+     *)
  unsent,     (* history: devices whose latest reading never got through    *)
  waiting,    (* history: devices heard since a frame last carried them     *)
  gap         (* history: cycles numbered since frame, stuck at SeqMod      *)

readings == <<pending, fresh, unsent, waiting>>
radio == <<ceiling, available, measured>>
heard_of == <<frame, cycles>>
numbering == <<sequence, gap>>
fragment == <<budget, room, batch, index, count>>
vars == <<pending, fresh, moved, silent, connected, ceiling, available,
          measured, phase, budget, room, batch, index, count, sequence,
          boot_sent, frame, cycles, unsent, waiting, gap>>

Device == 1..NumDevices
SilenceCap == MaxSilence + 1
TopPayload == CHOOSE p \in Payloads : \A q \in Payloads : q <= p

NoFrame == [sequence |-> 0, index |-> 0, count |-> 0, boot |-> FALSE]

(* The first n devices of S in slot order. *)
Leading(S, n) == {d \in S : Cardinality({e \in S : e < d}) < n}

Smaller(m, n) == IF m <= n THEN m ELSE n

-----------------------------------------------------------------------------
(* Joined, nothing heard yet. *)
Init ==
  /\ pending = {} /\ fresh = {} /\ moved = {}
  /\ unsent = {} /\ waiting = {}
  /\ silent = 0
  /\ connected = TRUE
  /\ ceiling \in Payloads /\ available = ceiling
  /\ measured = FALSE
  /\ phase = "idle"
  /\ budget = 0 /\ room = 0 /\ batch = {} /\ index = 0 /\ count = 0
  /\ sequence = 0
  /\ gap = 0
  /\ boot_sent = FALSE
  /\ frame = NoFrame
  /\ cycles = 0

(* An advertisement of d is recorded by the acquisition thread. *)
Hear(d) ==
  /\ pending' = pending \cup {d}
  /\ fresh' = fresh \cup {d}
  /\ unsent' = unsent \cup {d}
  /\ waiting' = waiting \cup {d}
  /\ moved' = IF phase = "sending" THEN moved \cup {d} ELSE moved
  /\ UNCHANGED <<silent, connected, radio, phase, fragment, numbering, boot_sent,
                 heard_of>>

(* d has been quiet for too long: snapshot() passes over it. *)
GoStale(d) ==
  /\ d \in fresh
  /\ fresh' = fresh \ {d}
  /\ UNCHANGED <<pending, unsent, waiting, moved, silent, connected, radio, phase, fragment,
                 numbering, boot_sent, heard_of>>

Tick ==
  /\ silent < SilenceCap
  /\ silent' = silent + 1
  /\ UNCHANGED <<readings, moved, connected, radio, phase, fragment, numbering,
                 boot_sent, heard_of>>

(* The network's downlinks, which come only in answer to a frame (class A):  *)
(* MAC traffic takes part of the next packet, or the data rate changes.     *)
(* The answer owed goes out with time.                                      *)
Network(top, next) ==
  /\ ceiling' = top /\ available' = next
  /\ UNCHANGED <<readings, moved, silent, connected, phase, fragment, numbering,
                 boot_sent, heard_of>>

Squeeze ==
  /\ measured /\ measured' = FALSE
  /\ \E p \in Payloads : p < available /\ Network(ceiling, p)
SqueezePasses ==
  available < ceiling /\ Network(ceiling, ceiling) /\ UNCHANGED measured
LowerRate ==
  /\ measured /\ measured' = FALSE
  /\ \E p \in Payloads : p < ceiling /\ Network(p, p)
RaiseRate ==
  /\ measured /\ measured' = FALSE
  /\ ceiling < TopPayload /\ Network(TopPayload, TopPayload)

-----------------------------------------------------------------------------
(* dispatch(): the tests that come before the table is looked at. *)

RecordsInAllOfIt(bytes) == bytes \div RecordSize
RecordsPerFragment(bytes) == (bytes - HeaderSize) \div RecordSize

Next16(n) == (n + 1) % SeqMod

UncountedCycle ==
  /\ sequence' = sequence
  /\ gap' = Smaller(gap + 1, SeqMod)
CountCycle ==
  /\ sequence' = Next16(sequence)
  /\ gap' = Smaller(gap + 1, SeqMod)

(* send() fails; a socket transport closes the connection. *)
Refused == connected' = (connected /\ ~SendFailureDropsLink)

(* The cycle ends without a frame: not connected, or a squeezed packet. *)
SkipCycle ==
  /\ phase = "idle"
  /\ ~connected \/ (ceiling > HeaderSize /\ available <= HeaderSize)
  /\ UNCHANGED vars

(* send_adr_probe(): an empty frame gives the network something to measure. *)
DeclineToProbe == UNCHANGED <<measured, connected>>
Probe ==
  \/ measured' = TRUE /\ UNCHANGED connected
  \/ Refused /\ UNCHANGED measured

SendProbe ==
  /\ phase = "idle" /\ connected
  /\ ceiling <= HeaderSize
  /\ Probe
  /\ UNCHANGED <<readings, moved, silent, ceiling, available, phase, fragment,
                 numbering, boot_sent, heard_of>>

(* A header fits.  Without room for a record it goes out alone, as a new     *)
(* cycle; otherwise the table is asked.                                     *)
ReadLink ==
  /\ phase = "idle" /\ connected
  /\ ceiling > HeaderSize /\ available > HeaderSize
  /\ budget' = available
  /\ room' = RecordsPerFragment(available)
  /\ \/ room' = 0 /\ phase' = "header" /\ CountCycle
     \/ room' > 0 /\ phase' = "snapshot" /\ UNCHANGED numbering
  /\ UNCHANGED <<readings, moved, silent, connected, radio, batch, index, count,
                 boot_sent, heard_of>>

FragmentsRoundedDown(total) == total \div room
FragmentsNeeded(total) == (total + room - 1) \div room

ClearedBySnapshot(S) == pending \ S
PendingAfterSnapshot(S) == pending

(* device_table::snapshot() finds something, and the cycle is cut into       *)
(* fragments.                                                               *)
TakeSnapshot ==
  /\ phase = "snapshot"
  /\ pending \cap fresh # {}
  /\ phase' = "sending"
  /\ batch' = pending \cap fresh
  /\ pending' = PendingAfterSnapshot(batch')
  /\ moved' = {}
  /\ index' = 0
  /\ count' = Smaller(FragmentsNeeded(Cardinality(batch')), MaxUplinks)
  /\ CountCycle
  /\ UNCHANGED <<fresh, unsent, waiting, silent, connected, radio, budget, room, boot_sent,
                 heard_of>>

Done ==
  /\ phase' = "idle"
  /\ budget' = 0 /\ room' = 0 /\ batch' = {} /\ index' = 0 /\ count' = 0
  /\ moved' = {}

NeverDue == FALSE
HeartbeatDue == MaxSilence # 0 /\ silent >= MaxSilence

(* It finds nothing: send_heartbeat_if_due(). *)
HeartbeatIfDue ==
  /\ phase = "snapshot"
  /\ pending \cap fresh = {}
  /\ \/ HeartbeatDue /\ phase' = "header" /\ CountCycle /\ UNCHANGED <<moved, fragment>>
     \/ ~HeartbeatDue /\ Done /\ UNCHANGED numbering
  /\ UNCHANGED <<readings, silent, connected, radio, boot_sent, heard_of>>

-----------------------------------------------------------------------------
(* send_fragment(): the link accepts a frame with n records that still fits. *)
Accepted(n, i, total) ==
  /\ HeaderSize + n * RecordSize <= available
  /\ frame' = [sequence |-> sequence, index |-> i, count |-> total,
               boot |-> ~boot_sent]
  /\ cycles' = IF i = 0 /\ cycles < 2 THEN cycles + 1 ELSE cycles
  /\ gap' = 0
  /\ silent' = 0
  /\ measured' = TRUE

HeaderAccepted ==
  /\ phase = "header"
  /\ Accepted(0, 0, 1)
  /\ boot_sent' = TRUE
  /\ Done
  /\ UNCHANGED <<readings, connected, ceiling, available, sequence>>

HeaderRefused ==
  /\ phase = "header"
  /\ Refused
  /\ Done
  /\ UNCHANGED <<readings, silent, radio, numbering, boot_sent, heard_of>>

Carried == Leading(batch, room)

(* The records of an accepted fragment are marked, those excepted whose      *)
(* device was heard again meanwhile.                                        *)
FragmentAccepted ==
  /\ phase = "sending"
  /\ index < count
  /\ Accepted(Cardinality(Carried), index, count)
  /\ pending' = pending \ (Carried \ moved)
  /\ unsent' = unsent \ (Carried \ moved)
  /\ waiting' = waiting \ Carried
  /\ batch' = batch \ Carried
  /\ index' = index + 1
  /\ UNCHANGED <<fresh, moved, connected, ceiling, available, phase, budget, room,
                 count, boot_sent, sequence>>

(* The boot flag is dropped after a cycle of which any fragment got through, *)
(* complete or not.                                                         *)
SpokenIfComplete == boot_sent \/ (index = count /\ index > 0)
Spoken == boot_sent \/ index > 0

(* A refused fragment ends the cycle. *)
FragmentRefused ==
  /\ phase = "sending"
  /\ index < count
  /\ Refused
  /\ boot_sent' = Spoken
  /\ Done
  /\ UNCHANGED <<readings, silent, radio, numbering, heard_of>>

EndCycle ==
  /\ phase = "sending"
  /\ index = count
  /\ boot_sent' = Spoken
  /\ Done
  /\ UNCHANGED <<readings, silent, connected, radio, numbering, heard_of>>

Comms ==
  \/ SkipCycle \/ SendProbe \/ ReadLink \/ TakeSnapshot \/ HeartbeatIfDue
  \/ HeaderAccepted \/ HeaderRefused
  \/ FragmentAccepted \/ FragmentRefused \/ EndCycle

Next ==
  \/ \E d \in Device : Hear(d) \/ GoStale(d)
  \/ Tick \/ Squeeze \/ SqueezePasses \/ LowerRate \/ RaiseRate
  \/ Comms

Spec == Init /\ [][Next]_vars

(* The dispatch timer keeps starting cycles and a cycle keeps going.  Of the *)
(* radio: what is sent again and again is accepted sometimes, some cycle     *)
(* meets the link at its best if such moments keep coming, MAC traffic goes  *)
(* out, and a network that hears the device often raises its rate some time. *)
FairSpec ==
  /\ Spec
  /\ WF_vars(Comms)
  /\ WF_vars(Tick)
  /\ WF_vars(SqueezePasses)
  /\ SF_vars(RaiseRate)
  /\ SF_vars(SendProbe /\ measured')
  /\ SF_vars(ReadLink /\ available = TopPayload)
  /\ SF_vars(HeaderAccepted)
  /\ SF_vars(FragmentAccepted)

-----------------------------------------------------------------------------
(* Every variable holds a value of its C++ type; the fragment count fits the *)
(* header's uint8_t although the code casts it from a size_t.              *)
TypeOK ==
  /\ pending \subseteq Device /\ fresh \subseteq Device /\ moved \subseteq Device
  /\ unsent \subseteq Device /\ waiting \subseteq Device /\ batch \subseteq Device
  /\ silent \in 0..SilenceCap
  /\ connected \in BOOLEAN
  /\ ceiling \in Payloads /\ available \in Payloads /\ available <= ceiling
  /\ measured \in BOOLEAN
  /\ phase \in {"idle", "header", "snapshot", "sending"}
  /\ budget \in {0} \cup Payloads /\ room \in 0..255
  /\ count \in 0..MaxUplinks /\ index \in 0..count
  /\ sequence \in 0..(SeqMod - 1)
  /\ boot_sent \in BOOLEAN
  /\ cycles \in 0..2
  /\ gap \in 0..SeqMod

(* A device is pending exactly while its latest reading has not got through: *)
(* whichever fragment of a cycle is refused, cut off by the allowance or     *)
(* overtaken by a newer advertisement, nothing is forgotten or repeated.     *)
PendingUntilThrough == pending = unsent

(* The far end can tell cycles and fragments apart: a frame is either the    *)
(* next fragment of the cycle of the one before it, or the first fragment of *)
(* a cycle with another sequence number (comms_protocol.hpp:53-61), unless   *)
(* a whole round of sequence numbers was refused in between.                *)
FramesAreNumbered ==
  [][frame' # frame =>
       \/ /\ frame'.sequence = frame.sequence /\ frame'.count = frame.count
          /\ frame'.index = frame.index + 1 /\ frame'.index < frame.count
       \/ /\ frame'.index = 0
          /\ \/ frame'.sequence # frame.sequence
             \/ frame = NoFrame \/ gap = SeqMod]_vars

(* The BOOT flag is on every frame of the first cycle of which anything got  *)
(* through, and on none after it.                                           *)
BootIsFirstUplink == [][frame' # frame => (frame'.boot <=> cycles' = 1)]_vars

(* No fragment is larger than what the link reported when the cycle was cut  *)
(* into fragments, the last one included.                                   *)
FragmentsFit ==
  phase = "sending" => HeaderSize + Cardinality(Carried) * RecordSize <= budget

(* A data rate at which nothing fits is not for ever (comms.md:60-70).       *)
RateRecovers == ceiling <= HeaderSize ~> ceiling > HeaderSize

(* The device is never silent for good (comms.md:128-134), whether or not    *)
(* anything advertises.                                                     *)
NeverSilentForGood == silent >= MaxSilence ~> silent < MaxSilence

(* A device that is heard and does not go stale is in some later frame.  A    *)
(* cycle that has room for every device gives that; comms.md:102-109 and     *)
(* comms/subsystem.cpp:448-451 promise it of every other cycle too.         *)
EveryDeviceReported ==
  \A d \in Device : d \in waiting ~> d \notin waiting \/ d \notin fresh
=============================================================================
