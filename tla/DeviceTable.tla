----------------------------- MODULE DeviceTable -----------------------------
(***************************************************************************)
(* svc::device_table: the fixed-capacity table of last readings, keyed by  *)
(* BLE address, that the acquisition thread writes (upsert) and the comms  *)
(* thread reads (snapshot, mark_reported).                                 *)
(*                                                                         *)
(* Each call holds the table's mutex from its first access to its last, so *)
(* a call is one action.  The exception is in the code: snapshot() reads   *)
(* the uptime before it takes the mutex, so it is two actions here and     *)
(* anything may happen between them.                                       *)
(*                                                                         *)
(* The comms side is reduced to what the table sees of one dispatch: a     *)
(* snapshot, fragments the transport accepts, one mark_reported per record *)
(* of an accepted fragment, and an end that may come at any fragment.      *)
(* Which records share a fragment is left open here; module Uplink has the *)
(* exact order.                                                            *)
(***************************************************************************)
EXTENDS Integers, FiniteSets

CONSTANTS
  Address,      (* BLE addresses that may be heard                          *)
  NoAddress,    (* what the address field of a blank slot holds             *)
  MaxDevices,   (* CONFIG_APP_MAX_DEVICES                                   *)
  StaleAfter,   (* CONFIG_APP_DEVICE_STALE_AFTER_S                          *)
  SeqMod,       (* 2^16: update_seq and reported_seq are uint16_t           *)
  TimeMod,      (* 2^32: uptimes in seconds are uint32_t                    *)
  EvictedMax,   (* UINT16_MAX: the eviction counter saturates               *)
  MaxUptime,    (* bound of the model: the clock stops here                 *)
  MaxHeard,     (* bound of the model: accepted advertisements              *)
  MaxLag        (* bound: advertisements of one device between two reports  *)

ASSUME TableConstants ==
  /\ NoAddress \notin Address
  /\ MaxDevices \in Nat \ {0}
  /\ StaleAfter \in Nat
  /\ SeqMod \in Nat \ {0, 1}
  /\ TimeMod \in Nat
  /\ EvictedMax \in Nat
  /\ MaxUptime \in Nat /\ MaxUptime < TimeMod
  /\ MaxHeard \in Nat
  /\ MaxLag \in Nat

VARIABLES
  entries,        (* s_entries: one record per slot                         *)
  evicted_count,  (* s_evicted_count                                        *)
  uptime,         (* hal::system::get_uptime_seconds()                      *)
  phase,          (* where the comms thread is in its dispatch              *)
  now_s,          (* snapshot()'s local, read before the lock               *)
  outgoing,       (* records of the snapshot not handed to the link yet     *)
  marking,        (* records of the last accepted fragment still to mark    *)
  heard,          (* history: advertisements recorded; numbers the readings *)
  delivered,      (* history: readings the transport accepted               *)
  recycled        (* history: see Upsert                                    *)

table == <<entries, evicted_count>>
dispatch == <<phase, now_s, outgoing, marking>>
vars == <<entries, evicted_count, uptime, phase, now_s, outgoing, marking,
          heard, delivered, recycled>>

Slot == 1..MaxDevices
Seq16 == 0..(SeqMod - 1)

(***************************************************************************)
(* A slot.  The sensor values and the rssi are one thing, the reading, and *)
(* a reading is the number of the advertisement that brought it.  lag is a *)
(* history field: the advertisements recorded since the device entered the *)
(* table or was last marked reported.  The code has no such counter; it    *)
(* only compares update_seq with reported_seq.                             *)
(***************************************************************************)
Entry ==
  [in_use : BOOLEAN, address : Address \cup {NoAddress}, reading : Nat,
   last_seen : Nat, update_seq : Seq16, reported_seq : Seq16, lag : Nat]

Blank ==
  [in_use |-> FALSE, address |-> NoAddress, reading |-> 0,
   last_seen |-> 0, update_seq |-> 0, reported_seq |-> 0, lag |-> 0]

Pending(e) == e.update_seq # e.reported_seq

Increment16(n) == IF n = SeqMod - 1 THEN 0 ELSE n + 1

(* now_s - last_seen_uptime_s in uint32_t arithmetic. *)
Age(now, seen) == IF now >= seen THEN now - seen ELSE now - seen + TimeMod

HoldingPending(a) ==
  {s \in Slot : entries[s].address = a /\ Pending(entries[s])}
Holding(a) == {s \in Slot : entries[s].in_use /\ entries[s].address = a}
Known(a) == Holding(a) # {}

(* The scans over s_entries stop at the first slot that qualifies. *)
IsFirst(s, S) == s \in S /\ \A t \in S : s <= t

NewestSeen ==
  {s \in Slot : \A t \in Slot : entries[s].last_seen >= entries[t].last_seen}
OldestSeen ==
  {s \in Slot : \A t \in Slot : entries[s].last_seen <= entries[t].last_seen}

(* claim_slot(): a free slot if there is one, else the least recently seen *)
(* device's.                                                               *)
Claimable ==
  IF \E s \in Slot : ~entries[s].in_use
  THEN {s \in Slot : ~entries[s].in_use}
  ELSE OldestSeen

Outstanding(a) == \E r \in outgoing \cup marking : r.address = a

-----------------------------------------------------------------------------
Init ==
  /\ entries = [s \in Slot |-> Blank]
  /\ evicted_count = 0
  /\ uptime = 0
  /\ phase = "idle"
  /\ now_s = 0
  /\ outgoing = {}
  /\ marking = {}
  /\ heard = 0
  /\ delivered = {}
  /\ recycled = {}

Tick ==
  /\ uptime < MaxUptime
  /\ uptime' = uptime + 1
  /\ UNCHANGED <<table, dispatch, heard, delivered, recycled>>

(* The slot as upsert() finds it: as it stands for a known device, wiped   *)
(* and given the address for a new one.                                    *)
Prepared(s, a) ==
  IF Known(a) THEN entries[s]
  ELSE [Blank EXCEPT !.in_use = TRUE, !.address = a]

Updated(e) ==
  [e EXCEPT !.update_seq = Increment16(@), !.reading = heard + 1,
            !.last_seen = uptime, !.lag = @ + 1]

Evicts(s, a) == ~Known(a) /\ entries[s].in_use

(***************************************************************************)
(* upsert() by the acquisition thread.  recycled collects the devices that *)
(* are evicted while the dispatch in progress holds a record of them; a    *)
(* device leaves it when it is heard again with no such record about.      *)
(***************************************************************************)
Upsert(a) ==
  /\ heard < MaxHeard
  /\ \E s \in Slot :
       /\ IsFirst(s, IF Known(a) THEN Holding(a) ELSE Claimable)
       /\ Prepared(s, a).lag < MaxLag
       /\ entries' = [entries EXCEPT ![s] = Updated(Prepared(s, a))]
       /\ evicted_count' = IF Evicts(s, a) /\ evicted_count < EvictedMax
                           THEN evicted_count + 1 ELSE evicted_count
       /\ recycled' =
            (IF Outstanding(a) THEN recycled ELSE recycled \ {a})
              \cup (IF Evicts(s, a) /\ Outstanding(entries[s].address)
                    THEN {entries[s].address} ELSE {})
  /\ heard' = heard + 1
  /\ UNCHANGED <<uptime, dispatch, delivered>>

-----------------------------------------------------------------------------
(* snapshot(), first half: the clock is read outside the lock. *)
SnapshotClock ==
  /\ phase = "idle"
  /\ phase' = "clock_read"
  /\ now_s' = uptime
  /\ UNCHANGED <<table, uptime, outgoing, marking, heard, delivered, recycled>>

CopiedRegardless(e) == e.in_use /\ Age(now_s, e.last_seen) <= StaleAfter
Copied(e) ==
  /\ e.in_use
  /\ Age(now_s, e.last_seen) <= StaleAfter
  /\ Pending(e)

(* snapshot(), second half, under the lock.  The caller's buffer has       *)
(* MAX_DEVICES entries, so max_entries never cuts the copy short.          *)
SnapshotCopy ==
  /\ phase = "clock_read"
  /\ phase' = "sending"
  /\ outgoing' = {entries[s] : s \in {t \in Slot : Copied(entries[t])}}
  /\ recycled' = {a \in recycled : \A r \in outgoing' : r.address # a}
  /\ UNCHANGED <<table, uptime, now_s, marking, heard, delivered>>

(* hal::link accepts a fragment carrying the records S. *)
SendFragment(S) ==
  /\ phase = "sending"
  /\ marking = {}
  /\ S # {}
  /\ outgoing' = outgoing \ S
  /\ marking' = S
  /\ delivered' = delivered \cup {r.reading : r \in S}
  /\ UNCHANGED <<table, uptime, phase, now_s, heard, recycled>>

NotMovedOnUnchecked(e, r) == TRUE
NotMovedOn(e, r) == e.update_seq = r.update_seq

Unmarked(e, r) == e
Marked(e, r) ==
  IF NotMovedOn(e, r)
  THEN [e EXCEPT !.reported_seq = r.update_seq, !.lag = 0] ELSE e

(* mark_reported(r.address, r.update_seq) for one record of the fragment. *)
MarkReported(r) ==
  /\ marking' = marking \ {r}
  /\ entries' = [s \in Slot |-> IF IsFirst(s, Holding(r.address))
                                THEN Marked(entries[s], r) ELSE entries[s]]
  /\ UNCHANGED <<evicted_count, uptime, phase, now_s, outgoing, heard,
                 delivered, recycled>>

(* The dispatch is over: everything went out, a send failed, or the cycle's *)
(* allowance is used up.  The rest of the snapshot is forgotten.            *)
EndDispatch ==
  /\ phase = "sending"
  /\ marking = {}
  /\ phase' = "idle"
  /\ now_s' = 0
  /\ outgoing' = {}
  /\ UNCHANGED <<table, uptime, marking, heard, delivered, recycled>>

Next ==
  \/ Tick
  \/ \E a \in Address : Upsert(a)
  \/ SnapshotClock
  \/ SnapshotCopy
  \/ \E S \in SUBSET outgoing : SendFragment(S)
  \/ \E r \in marking : MarkReported(r)
  \/ EndDispatch

Spec == Init /\ [][Next]_vars

-----------------------------------------------------------------------------
(* Every variable holds a value of its C++ type, the counters never leave  *)
(* their width, and a dispatch owns records only while it is sending.      *)
TypeOK ==
  /\ entries \in [Slot -> Entry]
  /\ \A s \in Slot : entries[s].in_use => entries[s].address \in Address
  /\ evicted_count \in 0..EvictedMax
  /\ uptime \in 0..MaxUptime
  /\ phase \in {"idle", "clock_read", "sending"}
  /\ now_s \in 0..MaxUptime
  /\ outgoing \in SUBSET Entry
  /\ marking \in SUBSET Entry
  /\ phase # "sending" => outgoing = {} /\ marking = {}
  /\ heard \in Nat
  /\ delivered \in SUBSET Nat
  /\ recycled \in SUBSET Address

(* A BLE address never occupies two slots, whatever the order in which     *)
(* devices are added, evicted and heard again (find_entry and mark_reported *)
(* stop at the first match and would leave the second one forgotten).      *)
OneEntryPerDevice ==
  \A s, t \in Slot :
    entries[s].in_use /\ entries[t].in_use
      /\ entries[s].address = entries[t].address => s = t

(* No reading is offered to the transport again once the transport has     *)
(* accepted it: between the send, the mark_reported of each record and the *)
(* next snapshot, advertisements, evictions and reinsertions interleave.   *)
NoReadingSentTwice == \A r \in outgoing : r.reading \notin delivered

(* An entry counts as reported only if the reading it holds left the       *)
(* device: a reading heard while the uplink was in flight stays pending    *)
(* (subsystem.hpp:69-76).  The devices in recycled are exempt, and MaxLag    *)
(* must be below SeqMod, or a full round of update_seq makes a pending     *)
(* device look reported; the run table_aba shows why for the former.       *)
NoFalseAcknowledgement ==
  \A s \in Slot :
    entries[s].in_use /\ ~Pending(entries[s]) =>
      \/ entries[s].reading \in delivered
      \/ entries[s].address \in recycled

LastResort ==
  \A s \in Slot :
    entries[s].in_use /\ entries[s].address # entries'[s].address =>
      /\ \A t \in Slot :
           /\ entries[t].in_use
           /\ entries[s].last_seen <= entries[t].last_seen
      /\ evicted_count' = evicted_count + 1 \/ evicted_count = EvictedMax

(* A device leaves the table only from a full table, only if no other was  *)
(* heard from longer ago, and the eviction is counted up to saturation     *)
(* (device_table.md, "Overflow").                                          *)
EvictionIsLastResort == [][LastResort]_vars

-----------------------------------------------------------------------------
(* The table as a Mailbox.  A device that was evicted while a record of it   *)
(* was in flight is not taken for settled, whatever its entry says, until it *)
(* is pending again: the run table_aba shows what its entry may say.        *)
ReadingOf(a) ==
  IF Known(a) THEN entries[CHOOSE s \in Slot : s \in Holding(a)].reading ELSE 0

SettledDevices ==
  {a \in Address : \E s \in Holding(a) : ~Pending(entries[s])} \ recycled

Mail == INSTANCE Mailbox
          WITH Capacity <- MaxDevices,
               newest <- [a \in Address |-> ReadingOf(a)],
               settled <- SettledDevices,
               sent <- delivered

(* Every step of the two threads is a step of the mailbox or none at all:    *)
(* what was accepted by the transport is never offered again, what is marked *)
(* was accepted, a device is forgotten only from a full table, and nothing  *)
(* else changes what the table holds (device_table.md, "Contract").          *)
ImplementsMailbox == Mail!Spec

-----------------------------------------------------------------------------
(* What the comments claim without the exemptions above.                   *)

(* subsystem.hpp:74-76: the update_seq round trip "is what makes           *)
(* 'delivered' race-free", a fresh reading is never marked as sent.        *)
ReportedMeansDelivered ==
  \A s \in Slot :
    entries[s].in_use /\ ~Pending(entries[s]) => entries[s].reading \in delivered

(* subsystem.hpp:105: snapshot() copies out "every fresh entry whose       *)
(* reading has not reached the network yet".                               *)
EveryFreshEntryCopied ==
  [][phase = "clock_read" /\ phase' = "sending" =>
       \A s \in Slot :
         /\ entries[s].in_use
         /\ Pending(entries[s])
         /\ uptime - entries[s].last_seen <= StaleAfter
         => entries[s] \in outgoing']_vars
=============================================================================
