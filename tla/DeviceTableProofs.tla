-------------------------- MODULE DeviceTableProofs --------------------------
(***************************************************************************)
(* Proofs about DeviceTable, for every set of addresses, every capacity    *)
(* and every bound: first its own invariants, then that it implements     *)
(* Mailbox.                                                                *)
(***************************************************************************)
EXTENDS DeviceTable, FiniteSetTheorems, TLAPS

Held == outgoing \cup marking

(* What ties the records the comms thread holds to the slots they were     *)
(* copied from.  A reading number identifies one advertisement, so a slot  *)
(* that still holds a record's reading is still equal to the record, until *)
(* the record is marked; and a reading that was accepted but still looks   *)
(* pending is waiting for its mark.                                        *)
Bookkeeping ==
  /\ \A s \in Slot : entries[s].in_use => entries[s].reading \in 1..heard
  /\ \A s, t \in Slot :
       entries[s].in_use /\ entries[t].in_use
         /\ entries[s].reading = entries[t].reading => s = t
  /\ delivered \subseteq 1..heard
  /\ \A r \in Held :
       r.in_use /\ r.address \in Address /\ r.reading \in 1..heard
  /\ \A q, r \in Held :
       q.reading = r.reading \/ q.address = r.address => q = r
  /\ outgoing \cap marking = {}
  /\ \A r \in Held, s \in Slot :
       entries[s].in_use /\ entries[s].reading = r.reading => entries[s] = r
  /\ \A s \in Slot :
       entries[s].in_use /\ Pending(entries[s])
         /\ entries[s].reading \in delivered => entries[s] \in marking
  /\ \A r \in marking : r.reading \in delivered

(* The true backlog of a slot, which the code does not keep, is what       *)
(* update_seq says it is as long as it is less than the width of the       *)
(* counter; and a record and its slot, if the device was not evicted in    *)
(* between, count from the same report.                                    *)
Plus16(n, k) == IF n + k < SeqMod THEN n + k ELSE n + k - SeqMod
Counted(e) == e.lag <= MaxLag /\ e.update_seq = Plus16(e.reported_seq, e.lag)

Backlog ==
  /\ \A s \in Slot : entries[s].in_use => Counted(entries[s])
  /\ \A r \in Held : Counted(r)
  /\ \A r \in Held : Known(r.address) \/ r.address \in recycled
  /\ \A r \in Held, s \in Slot :
       /\ entries[s].in_use
       /\ entries[s].address = r.address
       /\ r.address \notin recycled
       => /\ r.reported_seq = entries[s].reported_seq
          /\ r.lag <= entries[s].lag
          /\ r.lag = entries[s].lag => r.reading = entries[s].reading

LEMMA NewEntry ==
  ASSUME NEW a \in Address, NEW z \in Seq16, z = 0,
         NEW u, u = [Blank EXCEPT !.in_use = TRUE, !.address = a]
  PROVE  /\ u \in Entry
         /\ u.in_use /\ u.address = a /\ u.reading = 0 /\ u.lag = 0
         /\ u.update_seq = 0 /\ u.reported_seq = 0
BY DEF Entry, Blank

(* upsert(a) as the rest of the proofs see it: one slot changes, and it    *)
(* was a's slot or, if a had none, it starts over as a's; then it was free *)
(* or the oldest of a full table.                                          *)
LEMMA UpsertEffect ==
  ASSUME TypeOK, NEW a \in Address, Upsert(a)
  PROVE  \E s \in Slot : \E e \in Entry :
           /\ entries' = [entries EXCEPT ![s] = e]
           /\ e.in_use /\ e.address = a
           /\ e.reading = heard + 1 /\ e.last_seen = uptime
           /\ e.lag <= MaxLag
           /\ \/ /\ entries[s].in_use /\ entries[s].address = a
                 /\ e.update_seq = Increment16(entries[s].update_seq)
                 /\ e.reported_seq = entries[s].reported_seq
                 /\ e.lag = entries[s].lag + 1
              \/ /\ ~Known(a)
                 /\ e.update_seq = Increment16(0)
                 /\ e.reported_seq = 0
                 /\ e.lag = 1
           /\ Evicts(s, a) =>
                /\ s \in OldestSeen
                /\ \A t \in Slot : entries[t].in_use
           /\ recycled' =
                (IF Outstanding(a) THEN recycled ELSE recycled \ {a})
                  \cup (IF Evicts(s, a) /\ Outstanding(entries[s].address)
                        THEN {entries[s].address} ELSE {})
           /\ evicted_count' =
                IF Evicts(s, a) /\ evicted_count < EvictedMax
                THEN evicted_count + 1 ELSE evicted_count
<1> USE TableConstants
<1>1. PICK s \in Slot :
        /\ IsFirst(s, IF Known(a) THEN Holding(a) ELSE Claimable)
        /\ Prepared(s, a).lag < MaxLag
        /\ entries' = [entries EXCEPT ![s] = Updated(Prepared(s, a))]
        /\ recycled' =
             (IF Outstanding(a) THEN recycled ELSE recycled \ {a})
               \cup (IF Evicts(s, a) /\ Outstanding(entries[s].address)
                     THEN {entries[s].address} ELSE {})
        /\ evicted_count' =
             IF Evicts(s, a) /\ evicted_count < EvictedMax
             THEN evicted_count + 1 ELSE evicted_count
  BY DEF Upsert
<1>2. PICK z \in Seq16 : z = 0
  BY DEF Seq16
<1>3. /\ Prepared(s, a) \in Entry
      /\ Prepared(s, a).in_use /\ Prepared(s, a).address = a
      /\ \/ /\ entries[s].in_use /\ entries[s].address = a
            /\ Prepared(s, a) = entries[s]
         \/ /\ ~Known(a)
            /\ Prepared(s, a).update_seq = 0
            /\ Prepared(s, a).reported_seq = 0
            /\ Prepared(s, a).lag = 0
  <2>1. CASE Known(a)
    BY <1>1, <2>1 DEF TypeOK, Prepared, IsFirst, Holding
  <2>2. CASE ~Known(a)
    BY <1>2, <2>2, NewEntry DEF Prepared
  <2>3. QED
    BY <2>1, <2>2
<1> DEFINE p == Prepared(s, a)
<1> DEFINE e == Updated(p)
<1>4. /\ Increment16(p.update_seq) \in Seq16
      /\ p.lag + 1 \in Nat /\ p.lag + 1 <= MaxLag
      /\ heard + 1 \in Nat /\ uptime \in Nat
  BY <1>1, <1>3 DEF Increment16, Seq16, Entry, TypeOK
<1>5. /\ e \in Entry
      /\ e.in_use = p.in_use /\ e.address = p.address
      /\ e.reading = heard + 1 /\ e.last_seen = uptime
      /\ e.lag = p.lag + 1
      /\ e.update_seq = Increment16(p.update_seq)
      /\ e.reported_seq = p.reported_seq
  <2>1. e = [p EXCEPT !.update_seq = Increment16(p.update_seq),
                      !.reading = heard + 1, !.last_seen = uptime,
                      !.lag = p.lag + 1]
    BY DEF Updated
  <2> HIDE DEF e, p
  <2>2. p \in Entry
    BY <1>3 DEF p
  <2> DEFINE q == Increment16(p.update_seq)
  <2> DEFINE n == heard + 1
  <2> DEFINE l == p.lag + 1
  <2>3. q \in Seq16 /\ n \in Nat /\ l \in Nat /\ uptime \in Nat
    BY <1>4
  <2>4. e = [p EXCEPT !.update_seq = q, !.reading = n,
                      !.last_seen = uptime, !.lag = l]
    BY <2>1
  <2> HIDE DEF q, n, l
  <2>5. /\ e \in Entry
        /\ e.in_use = p.in_use /\ e.address = p.address
        /\ e.reading = n /\ e.last_seen = uptime /\ e.lag = l
        /\ e.update_seq = q /\ e.reported_seq = p.reported_seq
    BY <2>2, <2>3, <2>4 DEF Entry
  <2>6. QED
    BY <2>5 DEF q, n, l
<1>6. /\ e.in_use /\ e.address = a /\ e.lag <= MaxLag
      /\ \/ /\ entries[s].in_use /\ entries[s].address = a
            /\ e.update_seq = Increment16(entries[s].update_seq)
            /\ e.reported_seq = entries[s].reported_seq
            /\ e.lag = entries[s].lag + 1
         \/ /\ ~Known(a)
            /\ e.update_seq = Increment16(0)
            /\ e.reported_seq = 0
            /\ e.lag = 1
  BY <1>3, <1>4, <1>5
<1>7. entries' = [entries EXCEPT ![s] = e]
  BY <1>1
<1>8. Evicts(s, a) =>
        s \in OldestSeen /\ \A t \in Slot : entries[t].in_use
  BY <1>1 DEF Evicts, IsFirst, Claimable
<1> HIDE DEF e
<1>9. QED
  BY <1>1, <1>5, <1>6, <1>7, <1>8

(* mark_reported() of one record: a slot that holds the record's address   *)
(* and still the same update_seq is brought level; nothing else changes.   *)
Levelled(s, r) ==
  /\ entries[s].in_use /\ entries[s].address = r.address
  /\ entries[s].update_seq = r.update_seq

LEMMA MarkEffect ==
  ASSUME TypeOK, OneEntryPerDevice, NEW r \in marking, MarkReported(r)
  PROVE  /\ entries' \in [Slot -> Entry]
         /\ \A s \in Slot :
              /\ ~Levelled(s, r) => entries'[s] = entries[s]
              /\ Levelled(s, r) => /\ entries'[s].reported_seq = r.update_seq
                                  /\ entries'[s].lag = 0
              /\ entries'[s].in_use = entries[s].in_use
              /\ entries'[s].address = entries[s].address
              /\ entries'[s].reading = entries[s].reading
              /\ entries'[s].update_seq = entries[s].update_seq
<1>1. r \in Entry /\ r.update_seq \in Seq16
  BY DEF TypeOK, Entry
<1>2. \A s \in Slot :
        IsFirst(s, Holding(r.address))
          <=> entries[s].in_use /\ entries[s].address = r.address
  BY DEF IsFirst, Holding, OneEntryPerDevice, Slot
<1>3. ASSUME NEW s \in Slot
      PROVE  /\ entries'[s] \in Entry
             /\ ~Levelled(s, r) => entries'[s] = entries[s]
             /\ Levelled(s, r) => /\ entries'[s].reported_seq = r.update_seq
                                 /\ entries'[s].lag = 0
             /\ entries'[s].in_use = entries[s].in_use
             /\ entries'[s].address = entries[s].address
             /\ entries'[s].reading = entries[s].reading
             /\ entries'[s].update_seq = entries[s].update_seq
  <2>1. entries[s] \in Entry
    BY DEF TypeOK
  <2>2. CASE Levelled(s, r)
    <3>1. entries'[s] = [entries[s] EXCEPT !.reported_seq = r.update_seq,
                                           !.lag = 0]
      BY <1>2, <2>2 DEF MarkReported, Marked, NotMovedOn, Levelled
    <3> DEFINE u == entries'[s]
    <3> HIDE DEF u
    <3>2. u = [entries[s] EXCEPT !.reported_seq = r.update_seq, !.lag = 0]
      BY <3>1 DEF u
    <3>3. /\ u \in Entry
          /\ u.in_use = entries[s].in_use /\ u.address = entries[s].address
          /\ u.reading = entries[s].reading
          /\ u.update_seq = entries[s].update_seq
          /\ u.reported_seq = r.update_seq /\ u.lag = 0
      BY <1>1, <2>1, <3>2 DEF Entry
    <3>4. QED
      BY <2>2, <3>3 DEF u
  <2>3. CASE ~Levelled(s, r)
    <3>1. entries'[s] = entries[s]
      BY <1>2, <2>3 DEF MarkReported, Marked, NotMovedOn, Levelled
    <3>2. QED
      BY <2>1, <2>3, <3>1
  <2>4. QED
    BY <2>2, <2>3
<1>4. entries' = [s \in Slot |-> entries'[s]]
  BY DEF MarkReported
<1>5. QED
  BY <1>3, <1>4

-----------------------------------------------------------------------------
(* Every variable keeps its type in every reachable state.                 *)
LEMMA TypeInit == Init => TypeOK
BY TableConstants DEF Init, TypeOK, Blank, Entry, Seq16

LEMMA UpsertType ==
  ASSUME TypeOK, NEW a \in Address, Upsert(a)
  PROVE  TypeOK'
<1>1. PICK s \in Slot, e \in Entry :
        /\ entries' = [entries EXCEPT ![s] = e]
        /\ e.in_use /\ e.address = a
        /\ recycled' =
             (IF Outstanding(a) THEN recycled ELSE recycled \ {a})
               \cup (IF Evicts(s, a) /\ Outstanding(entries[s].address)
                     THEN {entries[s].address} ELSE {})
  BY UpsertEffect
<1>2. /\ entries' \in [Slot -> Entry]
      /\ \A t \in Slot : entries'[t].in_use => entries'[t].address \in Address
  BY <1>1 DEF TypeOK
<1>3. evicted_count' \in 0..EvictedMax
  BY TableConstants DEF Upsert, TypeOK
<1>4. recycled' \in SUBSET Address
  BY <1>1 DEF TypeOK, Evicts
<1>5. /\ heard' = heard + 1
      /\ UNCHANGED <<uptime, dispatch, delivered>>
  BY DEF Upsert
<1>6. QED
  BY <1>2, <1>3, <1>4, <1>5 DEF TypeOK, dispatch

LEMMA MarkType ==
  ASSUME TypeOK, OneEntryPerDevice, NEW r \in marking, MarkReported(r)
  PROVE  TypeOK'
<1>1. /\ entries' \in [Slot -> Entry]
      /\ \A t \in Slot : entries'[t].in_use => entries'[t].address \in Address
  BY MarkEffect DEF TypeOK
<1>2. QED
  BY <1>1 DEF MarkReported, TypeOK

LEMMA OtherTypes ==
  ASSUME TypeOK,
         \/ Tick \/ SnapshotClock \/ SnapshotCopy \/ EndDispatch
         \/ \E S \in SUBSET outgoing : SendFragment(S)
         \/ UNCHANGED vars
  PROVE  TypeOK'
<1>1. CASE Tick
  BY <1>1, TableConstants DEF Tick, TypeOK, table, dispatch
<1>2. CASE SnapshotClock
  BY <1>2 DEF SnapshotClock, TypeOK, table
<1>3. CASE SnapshotCopy
  BY <1>3 DEF SnapshotCopy, TypeOK, table
<1>4. CASE EndDispatch
  BY <1>4, TableConstants DEF EndDispatch, TypeOK, table
<1>5. ASSUME NEW S \in SUBSET outgoing, SendFragment(S)
      PROVE  TypeOK'
  <2>1. \A r \in S : r.reading \in Nat
    BY DEF TypeOK, Entry
  <2>2. delivered' \in SUBSET Nat
    BY <1>5, <2>1 DEF SendFragment, TypeOK
  <2>3. QED
    BY <1>5, <2>2 DEF SendFragment, TypeOK, table
<1>6. CASE UNCHANGED vars
  BY <1>6 DEF vars, TypeOK
<1>7. QED
  BY <1>1, <1>2, <1>3, <1>4, <1>5, <1>6

-----------------------------------------------------------------------------
(* One slot per device.                                                    *)
LEMMA UpsertOneEntry ==
  ASSUME TypeOK, OneEntryPerDevice, NEW a \in Address, Upsert(a)
  PROVE  OneEntryPerDevice'
<1>1. PICK s \in Slot, e \in Entry :
        /\ entries' = [entries EXCEPT ![s] = e]
        /\ e.in_use /\ e.address = a
        /\ (entries[s].in_use /\ entries[s].address = a) \/ ~Known(a)
  BY UpsertEffect
<1>2. \A t \in Slot :
        t # s => entries[t] = entries'[t]
                   /\ ~(entries[t].in_use /\ entries[t].address = a)
  BY <1>1 DEF OneEntryPerDevice, Known, Holding, TypeOK
<1>3. QED
  BY <1>1, <1>2 DEF OneEntryPerDevice, TypeOK

LEMMA MarkOneEntry ==
  ASSUME TypeOK, OneEntryPerDevice, NEW r \in marking, MarkReported(r)
  PROVE  OneEntryPerDevice'
BY MarkEffect DEF OneEntryPerDevice

TableInv == TypeOK /\ OneEntryPerDevice

LEMMA TableInvStep == TableInv /\ [Next]_vars => TableInv'
<1> SUFFICES ASSUME TableInv, [Next]_vars
             PROVE  TableInv'
  OBVIOUS
<1>1. ASSUME NEW a \in Address, Upsert(a)
      PROVE  TableInv'
  BY <1>1, UpsertType, UpsertOneEntry DEF TableInv
<1>2. ASSUME NEW r \in marking, MarkReported(r)
      PROVE  TableInv'
  BY <1>2, MarkType, MarkOneEntry DEF TableInv
<1>3. CASE \/ Tick \/ SnapshotClock \/ SnapshotCopy \/ EndDispatch
           \/ \E S \in SUBSET outgoing : SendFragment(S)
           \/ UNCHANGED vars
  <2>1. entries' = entries
    BY <1>3 DEF Tick, SnapshotClock, SnapshotCopy, EndDispatch, SendFragment,
                vars, table
  <2>2. QED
    BY <1>3, <2>1, OtherTypes DEF TableInv, OneEntryPerDevice
<1>4. QED
  BY <1>1, <1>2, <1>3 DEF Next

(* Every variable holds a value of its C++ type, for every table size and  *)
(* every set of addresses (s_entries, snapshot() and mark_reported()).     *)
THEOREM TypeCorrect == Spec => []TypeOK
<1>1. Init => TableInv
  BY TypeInit DEF TableInv, OneEntryPerDevice, Init, Blank
<1>2. TableInv => TypeOK
  BY DEF TableInv
<1>3. QED
  BY <1>1, <1>2, TableInvStep, PTL DEF Spec

(* An address never occupies two slots (find_entry(), claim_slot()).       *)
THEOREM UniqueEntries == Spec => []OneEntryPerDevice
<1>1. Init => TableInv
  BY TypeInit DEF TableInv, OneEntryPerDevice, Init, Blank
<1>2. TableInv => OneEntryPerDevice
  BY DEF TableInv
<1>3. QED
  BY <1>1, <1>2, TableInvStep, PTL DEF Spec

-----------------------------------------------------------------------------
(* No reading is offered to the transport twice.                           *)
SendInv == TableInv /\ Bookkeeping /\ NoReadingSentTwice

LEMMA UpsertBookkeeping ==
  ASSUME SendInv, NEW a \in Address, Upsert(a)
  PROVE  Bookkeeping' /\ NoReadingSentTwice'
<1>1. PICK s \in Slot, e \in Entry :
        /\ entries' = [entries EXCEPT ![s] = e]
        /\ e.in_use /\ e.reading = heard + 1
  BY UpsertEffect DEF SendInv, TableInv
<1>2. /\ heard' = heard + 1 /\ heard \in Nat
      /\ UNCHANGED <<outgoing, marking, delivered>>
  BY DEF Upsert, dispatch, SendInv, TableInv, TypeOK
<1>3. /\ entries'[s] = e /\ e.reading \notin 1..heard
      /\ \A t \in Slot : t # s => entries'[t] = entries[t]
  BY <1>1, <1>2 DEF SendInv, TableInv, TypeOK
<1>4. Held' = Held
  BY <1>2 DEF Held
<1>5. /\ \A t \in Slot : entries'[t].in_use => entries'[t].reading \in 1..heard'
      /\ \A t, u \in Slot :
           entries'[t].in_use /\ entries'[u].in_use
             /\ entries'[t].reading = entries'[u].reading => t = u
  BY <1>1, <1>2, <1>3 DEF SendInv, Bookkeeping
<1>6. /\ delivered' \subseteq 1..heard'
      /\ \A r \in Held' :
           r.in_use /\ r.address \in Address /\ r.reading \in 1..heard'
  BY <1>2, <1>4 DEF SendInv, Bookkeeping
<1>7. \A r \in Held', t \in Slot :
        entries'[t].in_use /\ entries'[t].reading = r.reading => entries'[t] = r
  BY <1>1, <1>3, <1>4 DEF SendInv, Bookkeeping
<1>8. \A t \in Slot :
        entries'[t].in_use /\ Pending(entries'[t])
          /\ entries'[t].reading \in delivered' => entries'[t] \in marking'
  BY <1>1, <1>2, <1>3 DEF SendInv, Bookkeeping, Pending
<1>9. Bookkeeping'
  BY <1>2, <1>4, <1>5, <1>6, <1>7, <1>8 DEF SendInv, Bookkeeping, Pending
<1>10. NoReadingSentTwice'
  BY <1>2 DEF SendInv, NoReadingSentTwice
<1>11. QED
  BY <1>9, <1>10

LEMMA CopyBookkeeping ==
  ASSUME SendInv, SnapshotCopy
  PROVE  Bookkeeping' /\ NoReadingSentTwice'
<1>1. /\ marking = {} /\ marking' = {} /\ outgoing = {}
      /\ outgoing' = {entries[s] : s \in {t \in Slot : Copied(entries[t])}}
      /\ UNCHANGED <<entries, heard, delivered>>
  BY DEF SnapshotCopy, SendInv, TableInv, TypeOK, table
<1>2. Held' = outgoing'
  BY <1>1 DEF Held
<1>3. \A r \in Held' : \E s \in Slot : r = entries[s] /\ Copied(entries[s])
  BY <1>1, <1>2
<1>4. \A r \in Held' :
        r.in_use /\ r.address \in Address /\ r.reading \in 1..heard
  BY <1>3 DEF Copied, SendInv, Bookkeeping, TableInv, TypeOK
<1>5. \A q, r \in Held' :
        q.reading = r.reading \/ q.address = r.address => q = r
  BY <1>3 DEF Copied, SendInv, Bookkeeping, TableInv, OneEntryPerDevice
<1>6. \A r \in Held', s \in Slot :
        entries[s].in_use /\ entries[s].reading = r.reading => entries[s] = r
  BY <1>3 DEF Copied, SendInv, Bookkeeping
<1>7. \A s \in Slot :
        entries[s].in_use /\ Pending(entries[s]) => entries[s].reading \notin delivered
  BY <1>1 DEF SendInv, Bookkeeping
<1>8. NoReadingSentTwice'
  BY <1>1, <1>2, <1>3, <1>7 DEF NoReadingSentTwice, Copied
<1>9. Bookkeeping'
  BY <1>1, <1>4, <1>5, <1>6, <1>7 DEF SendInv, Bookkeeping, Pending
<1>10. QED
  BY <1>8, <1>9

LEMMA SendBookkeeping ==
  ASSUME SendInv, NEW S \in SUBSET outgoing, SendFragment(S)
  PROVE  Bookkeeping' /\ NoReadingSentTwice'
<1>1. /\ outgoing' = outgoing \ S /\ marking' = S /\ marking = {}
      /\ delivered' = delivered \cup {r.reading : r \in S}
      /\ UNCHANGED <<entries, heard>>
  BY DEF SendFragment, table
<1>2. Held' = Held
  BY <1>1 DEF Held
<1>3. \A r \in outgoing' : r.reading \notin delivered'
  BY <1>1 DEF SendInv, Bookkeeping, NoReadingSentTwice, Held
<1>4. \A s \in Slot :
        entries[s].in_use /\ Pending(entries[s])
          /\ entries[s].reading \in delivered' => entries[s] \in S
  BY <1>1 DEF SendInv, Bookkeeping, Held
<1>5. delivered' \subseteq 1..heard
  <2>1. \A r \in S : r.reading \in 1..heard
    BY DEF SendInv, Bookkeeping, Held
  <2>2. delivered \subseteq 1..heard
    BY DEF SendInv, Bookkeeping
  <2>3. QED
    BY <1>1, <2>1, <2>2
<1>6. outgoing' \cap marking' = {}
  BY <1>1
<1>7. \A r \in marking' : r.reading \in delivered'
  BY <1>1
<1>8. Bookkeeping'
  BY <1>1, <1>2, <1>4, <1>5, <1>6, <1>7 DEF SendInv, Bookkeeping, Pending
<1>9. QED
  BY <1>3, <1>8 DEF NoReadingSentTwice

LEMMA MarkBookkeeping ==
  ASSUME SendInv, NEW r \in marking, MarkReported(r)
  PROVE  Bookkeeping' /\ NoReadingSentTwice'
<1>1. /\ marking' = marking \ {r}
      /\ UNCHANGED <<outgoing, heard, delivered>>
  BY DEF MarkReported
<1>2. \A s \in Slot :
        /\ ~Levelled(s, r) => entries'[s] = entries[s]
        /\ Levelled(s, r) => entries'[s].reported_seq = r.update_seq
        /\ entries'[s].in_use = entries[s].in_use
        /\ entries'[s].reading = entries[s].reading
        /\ entries'[s].update_seq = entries[s].update_seq
  BY MarkEffect DEF SendInv, TableInv
<1>3. Held' \subseteq Held /\ r \in Held /\ r \notin Held'
  BY <1>1 DEF Held, SendInv, Bookkeeping
<1>4. \A q \in Held', s \in Slot :
        entries'[s].in_use /\ entries'[s].reading = q.reading => entries'[s] = q
  <2> SUFFICES ASSUME NEW q \in Held', NEW s \in Slot,
                      entries'[s].in_use, entries'[s].reading = q.reading
               PROVE  entries'[s] = q
    OBVIOUS
  <2>1. entries[s] = q
    BY <1>2, <1>3 DEF SendInv, Bookkeeping
  <2>2. ~Levelled(s, r)
    BY <1>3, <2>1 DEF Levelled, SendInv, Bookkeeping
  <2>3. QED
    BY <1>2, <2>1, <2>2
<1>5. \A s \in Slot :
        entries'[s].in_use /\ Pending(entries'[s])
          /\ entries'[s].reading \in delivered' => entries'[s] \in marking'
  <2> SUFFICES ASSUME NEW s \in Slot, entries'[s].in_use,
                      Pending(entries'[s]), entries'[s].reading \in delivered'
               PROVE  entries'[s] \in marking'
    OBVIOUS
  <2>1. ~Levelled(s, r)
    BY <1>2 DEF Levelled, Pending
  <2>2. entries'[s] = entries[s] /\ entries[s] \in marking
    BY <1>1, <1>2, <2>1 DEF SendInv, Bookkeeping
  <2>3. entries[s] # r
    BY <1>2, <2>1, <2>2 DEF Levelled
  <2>4. QED
    BY <1>1, <2>2, <2>3
<1>6. /\ \A s \in Slot : entries'[s].in_use => entries'[s].reading \in 1..heard'
      /\ \A s, t \in Slot :
           entries'[s].in_use /\ entries'[t].in_use
             /\ entries'[s].reading = entries'[t].reading => s = t
  BY <1>1, <1>2 DEF SendInv, Bookkeeping
<1>7. /\ delivered' \subseteq 1..heard'
      /\ \A q \in Held' :
           q.in_use /\ q.address \in Address /\ q.reading \in 1..heard'
      /\ \A p, q \in Held' :
           p.reading = q.reading \/ p.address = q.address => p = q
      /\ outgoing' \cap marking' = {}
      /\ \A q \in marking' : q.reading \in delivered'
  BY <1>1, <1>3 DEF SendInv, Bookkeeping
<1>8. Bookkeeping'
  BY <1>4, <1>5, <1>6, <1>7 DEF Bookkeeping
<1>9. NoReadingSentTwice'
  BY <1>1 DEF SendInv, NoReadingSentTwice
<1>10. QED
  BY <1>8, <1>9

LEMMA SendInvStep == SendInv /\ [Next]_vars => SendInv'
<1> SUFFICES ASSUME SendInv, [Next]_vars
             PROVE  SendInv'
  OBVIOUS
<1>1. TableInv'
  BY TableInvStep DEF SendInv
<1>2. ASSUME NEW a \in Address, Upsert(a)
      PROVE  Bookkeeping' /\ NoReadingSentTwice'
  BY <1>2, UpsertBookkeeping
<1>3. ASSUME SnapshotCopy
      PROVE  Bookkeeping' /\ NoReadingSentTwice'
  BY <1>3, CopyBookkeeping
<1>4. ASSUME NEW S \in SUBSET outgoing, SendFragment(S)
      PROVE  Bookkeeping' /\ NoReadingSentTwice'
  BY <1>4, SendBookkeeping
<1>5. ASSUME NEW r \in marking, MarkReported(r)
      PROVE  Bookkeeping' /\ NoReadingSentTwice'
  BY <1>5, MarkBookkeeping
<1>6. ASSUME Tick \/ SnapshotClock \/ UNCHANGED vars
      PROVE  Bookkeeping' /\ NoReadingSentTwice'
  <2>1. UNCHANGED <<entries, heard, delivered, outgoing, marking>>
    BY <1>6 DEF Tick, SnapshotClock, vars, table, dispatch
  <2>2. QED
    BY <2>1 DEF SendInv, Bookkeeping, NoReadingSentTwice, Held, Pending
<1>7. ASSUME EndDispatch
      PROVE  Bookkeeping' /\ NoReadingSentTwice'
  <2>1. /\ outgoing' = {} /\ marking = {} /\ marking' = {}
        /\ UNCHANGED <<entries, heard, delivered>>
    BY <1>7 DEF EndDispatch, table
  <2>2. Held' = {}
    BY <2>1 DEF Held
  <2>3. QED
    BY <2>1, <2>2 DEF SendInv, Bookkeeping, NoReadingSentTwice, Pending
<1>8. Bookkeeping' /\ NoReadingSentTwice'
  BY <1>2, <1>3, <1>4, <1>5, <1>6, <1>7 DEF Next
<1>9. QED
  BY <1>1, <1>8 DEF SendInv

LEMMA SendInvInit == Init => SendInv
BY TypeInit DEF Init, SendInv, TableInv, OneEntryPerDevice, Bookkeeping, Held,
                NoReadingSentTwice, Blank

(* A reading the transport has accepted is never handed to it again        *)
(* (dispatch(), send_fragment(), mark_reported()).                         *)
THEOREM SentAtMostOnce == Spec => []NoReadingSentTwice
<1>1. SendInv => NoReadingSentTwice
  BY DEF SendInv
<1>2. QED
  BY <1>1, SendInvInit, SendInvStep, PTL DEF Spec

-----------------------------------------------------------------------------
(* No reading is taken for sent that was not, while a device is heard      *)
(* fewer than SeqMod times between two reports of it.                      *)
AckInv == SendInv /\ Backlog /\ NoFalseAcknowledgement

LEMMA Counting ==
  ASSUME MaxLag < SeqMod,
         NEW n \in Seq16, NEW j \in Nat, NEW k \in Nat,
         j <= MaxLag, k <= MaxLag
  PROVE  /\ Plus16(n, 0) = n
         /\ Plus16(n, k) = n => k = 0
         /\ Plus16(n, j) = Plus16(n, k) => j = k
         /\ k + 1 <= MaxLag => Plus16(n, k + 1) = Increment16(Plus16(n, k))
BY TableConstants DEF Plus16, Increment16, Seq16

LEMMA UpsertAck ==
  ASSUME MaxLag < SeqMod, AckInv, NEW a \in Address, Upsert(a)
  PROVE  Backlog' /\ NoFalseAcknowledgement'
<1> USE TableConstants
<1>1. PICK s \in Slot, e \in Entry :
        /\ entries' = [entries EXCEPT ![s] = e]
        /\ e.in_use /\ e.address = a
        /\ e.lag <= MaxLag
        /\ \/ /\ entries[s].in_use /\ entries[s].address = a
              /\ e.update_seq = Increment16(entries[s].update_seq)
              /\ e.reported_seq = entries[s].reported_seq
              /\ e.lag = entries[s].lag + 1
           \/ /\ ~Known(a)
              /\ e.update_seq = Increment16(0)
              /\ e.reported_seq = 0
              /\ e.lag = 1
        /\ recycled' =
             (IF Outstanding(a) THEN recycled ELSE recycled \ {a})
               \cup (IF Evicts(s, a) /\ Outstanding(entries[s].address)
                     THEN {entries[s].address} ELSE {})
  BY UpsertEffect DEF AckInv, SendInv, TableInv
<1>2. UNCHANGED <<outgoing, marking, delivered>> /\ Held' = Held
  BY DEF Upsert, dispatch, Held
<1>3. OneEntryPerDevice'
  BY UpsertOneEntry DEF AckInv, SendInv, TableInv
<1>4. /\ entries \in [Slot -> Entry] /\ entries'[s] = e
      /\ \A t \in Slot :
           t # s => /\ entries'[t] = entries[t]
                    /\ entries[t].in_use => entries[t].address # a
  BY <1>1, <1>3 DEF AckInv, SendInv, TableInv, TypeOK, OneEntryPerDevice
<1>5. Counted(e) /\ e.lag # 0
  <2>1. CASE entries[s].in_use /\ entries[s].address = a
             /\ e.update_seq = Increment16(entries[s].update_seq)
             /\ e.reported_seq = entries[s].reported_seq
             /\ e.lag = entries[s].lag + 1
    <3>1. /\ entries[s].reported_seq \in Seq16 /\ entries[s].lag \in Nat
          /\ Counted(entries[s])
      BY <1>4, <2>1 DEF Entry, AckInv, Backlog
    <3>2. QED
      BY <1>1, <2>1, <3>1, Counting DEF Counted
  <2>2. CASE e.update_seq = Increment16(0) /\ e.reported_seq = 0 /\ e.lag = 1
    <3>1. 0 \in Seq16
      BY DEF Seq16
    <3>2. QED
      BY <1>1, <2>2 DEF Counted, Plus16, Increment16
  <2>3. QED
    BY <1>1, <2>1, <2>2
<1>6. Pending(e)
  BY <1>1, <1>5, Counting DEF Counted, Pending, Entry
<1>7. \A b \in Address : b \in recycled /\ b # a => b \in recycled'
  BY <1>1
<1>8. NoFalseAcknowledgement'
  BY <1>1, <1>2, <1>4, <1>6, <1>7
     DEF NoFalseAcknowledgement, AckInv, Pending, SendInv, TableInv, TypeOK
<1>9. ASSUME NEW r \in Held
      PROVE  Known(r.address)' \/ r.address \in recycled'
  <2>1. r.address \in Address /\ Outstanding(r.address)
    BY DEF AckInv, SendInv, Bookkeeping, Held, Outstanding
  <2>2. CASE r.address = a
    BY <1>1, <1>4, <2>2 DEF Known, Holding
  <2>3. CASE r.address # a /\ r.address \in recycled
    BY <1>7, <2>1, <2>3
  <2>4. CASE r.address # a /\ Known(r.address)
    <3>1. PICK t \in Slot : entries[t].in_use /\ entries[t].address = r.address
      BY <2>4 DEF Known, Holding
    <3>2. CASE t # s
      BY <1>4, <3>1, <3>2 DEF Known, Holding
    <3>3. CASE t = s
      BY <1>1, <2>1, <2>4, <3>1, <3>3 DEF Evicts
    <3>4. QED
      BY <3>2, <3>3
  <2>5. QED
    BY <2>2, <2>3, <2>4 DEF AckInv, Backlog
<1>10. ASSUME NEW r \in Held, NEW t \in Slot,
              entries'[t].in_use, entries'[t].address = r.address,
              r.address \notin recycled'
       PROVE  /\ r.reported_seq = entries'[t].reported_seq
              /\ r.lag <= entries'[t].lag
              /\ r.lag = entries'[t].lag => r.reading = entries'[t].reading
  <2>1. r.address \in Address /\ Outstanding(r.address) /\ r.lag \in Nat
    BY DEF AckInv, SendInv, Bookkeeping, Held, Outstanding, TableInv, TypeOK, Entry
  <2>2. CASE t # s
    <3>1. r.address \notin recycled
      BY <1>4, <1>7, <1>10, <2>1, <2>2
    <3>2. QED
      BY <1>4, <1>10, <2>2, <3>1 DEF AckInv, Backlog
  <2>3. CASE t = s
    <3>1. r.address = a /\ a \notin recycled
      BY <1>1, <1>4, <1>10, <2>1, <2>3
    <3>2. Known(a)
      BY <3>1 DEF AckInv, Backlog
    <3>3. /\ r.reported_seq = entries[s].reported_seq
          /\ r.lag <= entries[s].lag /\ entries[s].lag \in Nat
      BY <1>1, <1>4, <3>1, <3>2 DEF AckInv, Backlog, Entry
    <3>4. QED
      BY <1>1, <1>4, <2>1, <2>3, <3>2, <3>3
  <2>4. QED
    BY <2>2, <2>3
<1>11. \A t \in Slot : entries'[t].in_use => Counted(entries'[t])
  BY <1>4, <1>5 DEF AckInv, Backlog
<1>12. Backlog'
  BY <1>2, <1>9, <1>10, <1>11 DEF AckInv, Backlog, Counted, Plus16
<1>13. QED
  BY <1>8, <1>12

LEMMA CopyAck ==
  ASSUME AckInv, SnapshotCopy
  PROVE  Backlog' /\ NoFalseAcknowledgement'
<1>1. /\ marking' = {}
      /\ outgoing' = {entries[s] : s \in {t \in Slot : Copied(entries[t])}}
      /\ recycled' = {a \in recycled : \A r \in outgoing' : r.address # a}
      /\ UNCHANGED <<entries, delivered>>
  BY DEF SnapshotCopy, AckInv, SendInv, TableInv, TypeOK, table
<1>2. \A r \in Held' : \E s \in Slot : r = entries[s] /\ Copied(entries[s])
  BY <1>1 DEF Held
<1>3. ASSUME NEW s \in Slot, entries[s].in_use, ~Pending(entries[s]),
             entries[s].address \in recycled
      PROVE  entries[s].address \in recycled'
  BY <1>1, <1>3 DEF Copied, AckInv, SendInv, TableInv, OneEntryPerDevice
<1>4. NoFalseAcknowledgement'
  BY <1>1, <1>3 DEF AckInv, NoFalseAcknowledgement, Pending
<1>5. \A r \in Held', s \in Slot :
        entries[s].in_use /\ entries[s].address = r.address => r = entries[s]
  BY <1>2 DEF Copied, AckInv, SendInv, TableInv, OneEntryPerDevice
<1>6. \A r \in Held' : Counted(r) /\ Known(r.address)
  BY <1>2 DEF Copied, AckInv, Backlog, Known, Holding
<1>7. \A r \in Held', s \in Slot :
        entries[s].in_use /\ entries[s].address = r.address =>
          /\ r.reported_seq = entries[s].reported_seq
          /\ r.lag <= entries[s].lag
          /\ r.reading = entries[s].reading
  BY <1>5 DEF AckInv, SendInv, TableInv, TypeOK, Entry
<1>8. Backlog'
  BY <1>1, <1>6, <1>7 DEF AckInv, Backlog, Counted, Plus16, Known, Holding
<1>9. QED
  BY <1>4, <1>8

LEMMA MarkAck ==
  ASSUME MaxLag < SeqMod, AckInv, NEW r \in marking, MarkReported(r)
  PROVE  Backlog' /\ NoFalseAcknowledgement'
<1>1. /\ marking' = marking \ {r}
      /\ UNCHANGED <<outgoing, delivered, recycled>>
  BY DEF MarkReported
<1>2. /\ entries' \in [Slot -> Entry]
      /\ \A s \in Slot :
           /\ ~Levelled(s, r) => entries'[s] = entries[s]
           /\ Levelled(s, r) => /\ entries'[s].reported_seq = r.update_seq
                               /\ entries'[s].lag = 0
           /\ entries'[s].in_use = entries[s].in_use
           /\ entries'[s].address = entries[s].address
           /\ entries'[s].reading = entries[s].reading
           /\ entries'[s].update_seq = entries[s].update_seq
  BY MarkEffect DEF AckInv, SendInv, TableInv
<1>3. Held' \subseteq Held /\ r \in Held /\ r \notin Held'
  BY <1>1 DEF Held, AckInv, SendInv, Bookkeeping
<1>4. \A q \in Held' : q.address # r.address
  BY <1>3 DEF AckInv, SendInv, Bookkeeping
<1>5. ASSUME NEW s \in Slot, Levelled(s, r), r.address \notin recycled
      PROVE  entries[s].reading \in delivered
  <2>1. /\ r.reported_seq = entries[s].reported_seq
        /\ r.lag = entries[s].lag => r.reading = entries[s].reading
    BY <1>3, <1>5 DEF AckInv, Backlog, Levelled
  <2>2. Counted(r) /\ Counted(entries[s])
    BY <1>3, <1>5 DEF AckInv, Backlog, Levelled
  <2>3. /\ r.lag \in Nat /\ entries[s].lag \in Nat
        /\ r.reported_seq \in Seq16
    BY DEF AckInv, SendInv, TableInv, TypeOK, Entry
  <2>4. r.lag = entries[s].lag
    BY <1>5, <2>1, <2>2, <2>3, Counting DEF Counted, Levelled
  <2>5. QED
    BY <2>1, <2>4 DEF AckInv, SendInv, Bookkeeping
<1>6. NoFalseAcknowledgement'
  BY <1>1, <1>2, <1>5 DEF AckInv, NoFalseAcknowledgement, Levelled, Pending
<1>7. ASSUME NEW s \in Slot, entries'[s].in_use
      PROVE  Counted(entries'[s])
  <2>1. CASE ~Levelled(s, r)
    BY <1>2, <1>7, <2>1 DEF AckInv, Backlog
  <2>2. CASE Levelled(s, r)
    <3>1. r.update_seq \in Seq16 /\ 0 <= MaxLag
      BY TableConstants DEF AckInv, SendInv, TableInv, TypeOK, Entry
    <3>2. QED
      BY <1>2, <2>2, <3>1, Counting DEF Counted, Levelled
  <2>3. QED
    BY <2>1, <2>2
<1>8. \A a : Known(a)' = Known(a)
  BY <1>2 DEF Known, Holding
<1>9. \A q \in Held', s \in Slot :
        /\ entries'[s].in_use
        /\ entries'[s].address = q.address
        /\ q.address \notin recycled'
        => /\ q.reported_seq = entries'[s].reported_seq
           /\ q.lag <= entries'[s].lag
           /\ q.lag = entries'[s].lag => q.reading = entries'[s].reading
  BY <1>1, <1>2, <1>3, <1>4 DEF Levelled, AckInv, Backlog
<1>10. \A q \in Held' : Counted(q) /\ (Known(q.address)' \/ q.address \in recycled')
  BY <1>1, <1>3, <1>8 DEF AckInv, Backlog
<1>11. Backlog'
  BY <1>7, <1>9, <1>10 DEF Backlog, Counted, Plus16, Known, Holding
<1>12. QED
  BY <1>6, <1>11

LEMMA AckInvStep ==
  ASSUME MaxLag < SeqMod, AckInv, [Next]_vars
  PROVE  AckInv'
<1>1. SendInv'
  BY SendInvStep DEF AckInv
<1>2. ASSUME NEW a \in Address, Upsert(a)
      PROVE  Backlog' /\ NoFalseAcknowledgement'
  BY <1>2, UpsertAck
<1>3. ASSUME SnapshotCopy
      PROVE  Backlog' /\ NoFalseAcknowledgement'
  BY <1>3, CopyAck
<1>4. ASSUME NEW S \in SUBSET outgoing, SendFragment(S)
      PROVE  Backlog' /\ NoFalseAcknowledgement'
  <2>1. Held' = Held /\ delivered \subseteq delivered'
        /\ UNCHANGED <<entries, recycled>>
    BY <1>4 DEF SendFragment, AckInv, SendInv, Held, table
  <2>2. QED
    BY <2>1 DEF AckInv, Backlog, NoFalseAcknowledgement, Counted, Plus16,
                Known, Holding, Pending
<1>5. ASSUME NEW r \in marking, MarkReported(r)
      PROVE  Backlog' /\ NoFalseAcknowledgement'
  BY <1>5, MarkAck
<1>6. ASSUME Tick \/ SnapshotClock \/ EndDispatch \/ UNCHANGED vars
      PROVE  Backlog' /\ NoFalseAcknowledgement'
  <2>1. Held' \subseteq Held /\ UNCHANGED <<entries, delivered, recycled>>
    BY <1>6 DEF Tick, SnapshotClock, EndDispatch, vars, table, dispatch, Held
  <2>2. QED
    BY <2>1 DEF AckInv, Backlog, NoFalseAcknowledgement, Counted, Plus16,
                Known, Holding, Pending
<1>7. Backlog' /\ NoFalseAcknowledgement'
  BY <1>2, <1>3, <1>4, <1>5, <1>6 DEF Next
<1>8. QED
  BY <1>1, <1>7 DEF AckInv

(* mark_reported() never flags a reading the transport did not accept,     *)
(* whatever is heard while the uplink is in flight, unless the device was  *)
(* evicted during it.  The hypothesis is the width of update_seq: fewer    *)
(* than 2^16 advertisements of one device between two reports of it.       *)
THEOREM AcknowledgedWasSent ==
  ASSUME MaxLag < SeqMod
  PROVE  Spec => []NoFalseAcknowledgement
<1>1. Init => AckInv
  BY SendInvInit DEF AckInv, Init, Backlog, NoFalseAcknowledgement, Held, Blank
<1>2. AckInv => NoFalseAcknowledgement
  BY DEF AckInv
<1>3. AckInv /\ [Next]_vars => AckInv'
  BY AckInvStep
<1>4. QED
  BY <1>1, <1>2, <1>3, PTL DEF Spec
-----------------------------------------------------------------------------
(***************************************************************************)
(* DeviceTable implements Mailbox: every step of the two threads is one of  *)
(* the mailbox or leaves the mailbox alone, for every number of devices and *)
(* slots, as long as update_seq does not go all the way round between two   *)
(* reports of a device.                                                    *)
(***************************************************************************)

Boxes == [a \in Address |-> ReadingOf(a)]
Level == {a \in Address : \E s \in Holding(a) : ~Pending(entries[s])}

(* The mailbox counts with the same Cardinality. *)
LEMMA SameCount ==
  ASSUME NEW S
  PROVE  Mail!Cardinality(S) = Cardinality(S)
BY DEF Mail!Cardinality, Cardinality, Mail!IsFiniteSet, IsFiniteSet

(* What a device's box holds, without the choice of its slot. *)
LEMMA BoxOfSlot ==
  OneEntryPerDevice =>
    \A s \in Slot :
      entries[s].in_use => ReadingOf(entries[s].address) = entries[s].reading
<1> SUFFICES ASSUME OneEntryPerDevice, NEW s \in Slot, entries[s].in_use
             PROVE  ReadingOf(entries[s].address) = entries[s].reading
  OBVIOUS
<1> DEFINE a == entries[s].address
<1> DEFINE c == CHOOSE t \in Slot : t \in Holding(a)
<1>1. s \in Holding(a)
  BY DEF Holding
<1>2. c \in Slot /\ c \in Holding(a)
  BY <1>1
<1>3. c = s
  BY <1>2 DEF Holding, OneEntryPerDevice
<1>4. ReadingOf(a) = entries[c].reading
  BY <1>1 DEF ReadingOf, Known
<1>5. QED
  BY <1>3, <1>4

LEMMA EmptyBox ==
  \A a \in Address : ~Known(a) => ReadingOf(a) = 0
BY DEF ReadingOf

(* Which boxes are full. *)
LEMMA FullBoxes ==
  ASSUME TableInv, Bookkeeping
  PROVE  /\ \A a \in Address : Known(a) <=> Boxes[a] # 0
         /\ Mail!Held = {a \in Address : Known(a)}
<1>1. ASSUME NEW a \in Address, Known(a)
      PROVE  Boxes[a] # 0
  <2>1. PICK s \in Slot : entries[s].in_use /\ entries[s].address = a
    BY <1>1 DEF Known, Holding
  <2>2. ReadingOf(a) = entries[s].reading
    BY <2>1, BoxOfSlot DEF TableInv
  <2>3. entries[s].reading \in 1..heard
    BY <2>1 DEF Bookkeeping
  <2>4. entries[s].reading # 0
    BY <2>3 DEF TableInv, TypeOK
  <2>5. QED
    BY <2>2, <2>4 DEF Boxes
<1>2. \A a \in Address : ~Known(a) => Boxes[a] = 0
  BY EmptyBox DEF Boxes
<1>3. Mail!Held = {a \in Address : Boxes[a] # 0}
  BY DEF Mail!Held, Boxes
<1>4. QED
  BY <1>1, <1>2, <1>3

(* As many boxes are full as slots are in use. *)
LEMMA Occupancy ==
  ASSUME TableInv, Bookkeeping
  PROVE  /\ (\A t \in Slot : entries[t].in_use) =>
              Cardinality(Mail!Held) = MaxDevices
         /\ (\E t \in Slot : ~entries[t].in_use) =>
              Cardinality(Mail!Held) < MaxDevices
<1> DEFINE used == {t \in Slot : entries[t].in_use}
<1> DEFINE f == [t \in used |-> entries[t].address]
<1>1. /\ IsFiniteSet(Slot) /\ Cardinality(Slot) = MaxDevices
      /\ MaxDevices \in Nat /\ MaxDevices > 0
  BY TableConstants, FS_Interval DEF Slot
<1>2. Mail!Held = {a \in Address : Known(a)}
  BY FullBoxes
<1>3. f \in [used -> Mail!Held]
  BY <1>2 DEF TableInv, TypeOK, Known, Holding
<1>4. \A a \in Mail!Held : \E t \in used : f[t] = a
  BY <1>2 DEF Known, Holding
<1>5. f \in Surjection(used, Mail!Held)
  BY <1>3, <1>4 DEF Surjection
<1>6. \A t, u \in used : f[t] = f[u] => t = u
  BY DEF TableInv, OneEntryPerDevice
<1>7. f \in Injection(used, Mail!Held)
  BY <1>3, <1>6 DEF Injection, IsInjective
<1>8. IsFiniteSet(used) /\ used \in SUBSET Slot
  BY <1>1, FS_Subset
<1> HIDE DEF f, used
<1>9. Cardinality(Mail!Held) = Cardinality(used)
  BY <1>5, <1>7, <1>8, FS_Surjection
<1>10. ASSUME \A t \in Slot : entries[t].in_use
       PROVE  Cardinality(Mail!Held) = MaxDevices
  <2>1. used = Slot
    BY <1>10 DEF used
  <2>2. QED
    BY <1>1, <1>9, <2>1
<1>11. ASSUME NEW t \in Slot, ~entries[t].in_use
       PROVE  Cardinality(Mail!Held) < MaxDevices
  <2>1. used \in SUBSET Slot /\ used # Slot
    BY <1>11 DEF used
  <2>2. /\ Cardinality(used) <= Cardinality(Slot)
        /\ Cardinality(used) # Cardinality(Slot)
        /\ Cardinality(used) \in Nat
    BY <1>1, <1>8, <2>1, FS_Subset, FS_CardinalityType
  <2>3. QED
    BY <1>1, <1>9, <2>2
<1>12. QED
  BY <1>10, <1>11

-----------------------------------------------------------------------------
(* A box changes only if the slots that hold its device do. *)
LEMMA SameBox ==
  ASSUME TableInv, TableInv', NEW a \in Address,
         \A s \in Slot :
           /\ entries'[s].in_use /\ entries'[s].address = a
                <=> entries[s].in_use /\ entries[s].address = a
           /\ entries[s].in_use /\ entries[s].address = a =>
                entries'[s].reading = entries[s].reading
  PROVE  Boxes'[a] = Boxes[a]
<1>1. CASE Known(a)
  <2>1. PICK s \in Slot : entries[s].in_use /\ entries[s].address = a
    BY <1>1 DEF Known, Holding
  <2>2. ReadingOf(a) = entries[s].reading
    BY <2>1, BoxOfSlot DEF TableInv
  <2>3. BoxOfSlot!:'
    BY BoxOfSlot, PTL
  <2>4. ReadingOf(a)' = entries'[s].reading
    BY <2>1, <2>3 DEF TableInv
  <2>5. QED
    BY <2>1, <2>2, <2>4 DEF Boxes
<1>2. CASE ~Known(a)
  <2>1. ~Known(a)'
    BY <1>2 DEF Known, Holding
  <2>2. QED
    BY <1>2, <2>1 DEF ReadingOf, Boxes
<1>3. QED
  BY <1>1, <1>2

LEMMA SameBoxes ==
  ASSUME TableInv, TableInv',
         \A s \in Slot : /\ entries'[s].in_use = entries[s].in_use
                         /\ entries'[s].address = entries[s].address
                         /\ entries'[s].reading = entries[s].reading
  PROVE  Boxes' = Boxes
<1>1. \A a \in Address : Boxes'[a] = Boxes[a]
  BY SameBox
<1>2. QED
  BY <1>1 DEF Boxes

-----------------------------------------------------------------------------
(* upsert() is a device heard in the box it has, in a free one, or in the  *)
(* one of the device it pushes out.                                        *)
LEMMA UpsertMail ==
  ASSUME MaxLag < SeqMod, AckInv, AckInv', NEW a \in Address, Upsert(a)
  PROVE  Mail!Next
<1> USE TableConstants
<1>1. PICK s \in Slot, e \in Entry :
        /\ entries' = [entries EXCEPT ![s] = e]
        /\ e.in_use /\ e.address = a /\ e.reading = heard + 1
        /\ \/ /\ entries[s].in_use /\ entries[s].address = a
              /\ e.lag = entries[s].lag + 1
           \/ ~Known(a) /\ e.lag = 1
        /\ Evicts(s, a) => \A t \in Slot : entries[t].in_use
        /\ recycled' =
             (IF Outstanding(a) THEN recycled ELSE recycled \ {a})
               \cup (IF Evicts(s, a) /\ Outstanding(entries[s].address)
                     THEN {entries[s].address} ELSE {})
  BY UpsertEffect DEF AckInv, SendInv, TableInv
<1>2. /\ TableInv /\ TableInv' /\ Bookkeeping /\ Bookkeeping'
      /\ entries \in [Slot -> Entry] /\ entries'[s] = e
      /\ \A t \in Slot :
           t # s => /\ entries'[t] = entries[t]
                    /\ entries[t].in_use => entries[t].address # a
  BY <1>1 DEF AckInv, SendInv, TableInv, TypeOK, OneEntryPerDevice
<1>3. heard' = heard + 1 /\ delivered' = delivered
  BY DEF Upsert
<1>4. Pending(e)
  <2>1. Counted(e) /\ e.lag # 0
    BY <1>1, <1>2 DEF AckInv, Backlog, Counted, Plus16, Entry
  <2>2. QED
    BY <2>1, Counting DEF Counted, Pending, Entry
<1>5. Boxes'[a] = heard + 1
  <2>1. BoxOfSlot!:'
    BY BoxOfSlot, PTL
  <2>2. ReadingOf(a)' = heard + 1
    BY <1>1, <1>2, <2>1 DEF TableInv
  <2>3. QED
    BY <2>2 DEF Boxes
<1>6. \A c \in Address :
        c # a /\ ~(Evicts(s, a) /\ c = entries[s].address) =>
          Boxes'[c] = Boxes[c]
  <2> SUFFICES ASSUME NEW c \in Address, c # a,
                      ~(Evicts(s, a) /\ c = entries[s].address)
               PROVE  Boxes'[c] = Boxes[c]
    OBVIOUS
  <2>1. \A t \in Slot :
          /\ entries'[t].in_use /\ entries'[t].address = c
               <=> entries[t].in_use /\ entries[t].address = c
          /\ entries[t].in_use /\ entries[t].address = c =>
               entries'[t].reading = entries[t].reading
    BY <1>1, <1>2 DEF Evicts
  <2>2. QED
    BY <1>2, <2>1, SameBox
<1>7. a \notin SettledDevices'
  BY <1>1, <1>2, <1>4 DEF SettledDevices, Holding, Pending
<1>8. \A c \in Address :
        c # a /\ ~(Evicts(s, a) /\ c = entries[s].address) =>
          (c \in SettledDevices' <=> c \in SettledDevices)
  BY <1>1, <1>2 DEF SettledDevices, Holding, Pending, Evicts
<1>9. CASE ~Evicts(s, a)
  <2>1. Boxes' = [Boxes EXCEPT ![a] = heard + 1]
    BY <1>5, <1>6, <1>9 DEF Boxes
  <2>2. SettledDevices' = SettledDevices \ {a}
    BY <1>7, <1>8, <1>9 DEF SettledDevices
  <2>3. a \in Mail!Held \/ Cardinality(Mail!Held) < MaxDevices
    <3>1. CASE Known(a)
      BY <1>2, <3>1, FullBoxes
    <3>2. CASE ~Known(a)
      BY <1>2, <1>9, <3>2, Occupancy DEF Evicts
    <3>3. QED
      BY <3>1, <3>2
  <2>4. Mail!Hear(a)
    BY <1>3, <2>1, <2>2, <2>3, SameCount DEF Mail!Hear, Boxes
  <2>5. QED
    BY <2>4 DEF Mail!Next
<1>10. CASE Evicts(s, a)
  <2>0. PICK b \in Address : b = entries[s].address
    BY <1>2, <1>10 DEF Evicts, TableInv, TypeOK
  <2>1. b # a /\ Known(b) /\ ~Known(a)
    BY <1>2, <1>10, <2>0 DEF Evicts, Known, Holding
  <2>2. ~Known(b)'
    BY <1>1, <1>2, <1>10, <2>0, <2>1
       DEF Known, Holding, TableInv, OneEntryPerDevice, Evicts
  <2>3. Boxes'[b] = 0
    <3>1. EmptyBox!:'
      BY EmptyBox, PTL
    <3>2. QED
      BY <2>1, <2>2, <3>1 DEF Boxes
  <2>4. b \notin SettledDevices'
    <3>1. Holding(b)' = {}
      BY <2>2 DEF Known
    <3>2. QED
      BY <3>1 DEF SettledDevices
  <2>5. Boxes' = [Boxes EXCEPT ![a] = heard + 1, ![b] = 0]
    <3>1. \A c \in Address :
            Boxes'[c] = IF c = b THEN 0 ELSE IF c = a THEN heard + 1 ELSE Boxes[c]
      BY <1>5, <1>6, <2>0, <2>1, <2>3
    <3> DEFINE B == [Boxes EXCEPT ![a] = heard + 1, ![b] = 0]
    <3>2. /\ B = [c \in Address |-> B[c]]
          /\ \A c \in Address :
               B[c] = IF c = b THEN 0 ELSE IF c = a THEN heard + 1 ELSE Boxes[c]
      BY <2>1 DEF Boxes
    <3>3. Boxes' = [c \in Address |-> Boxes'[c]]
      BY DEF Boxes
    <3> HIDE DEF B
    <3>4. QED
      BY <3>1, <3>2, <3>3 DEF B
  <2>6. SettledDevices' = SettledDevices \ {a, b}
    BY <1>7, <1>8, <2>0, <2>4 DEF SettledDevices
  <2>7. a \notin Mail!Held /\ b \in Mail!Held
    BY <1>2, <2>1, FullBoxes
  <2>8. Cardinality(Mail!Held) = MaxDevices
    BY <1>1, <1>2, <1>10, Occupancy
  <2>9. Mail!Replace(a, b)
    BY <1>3, <2>5, <2>6, <2>7, <2>8, SameCount DEF Mail!Replace, Boxes
  <2>10. QED
    BY <2>1, <2>9 DEF Mail!Next
<1>11. QED
  BY <1>9, <1>10

(* mark_reported() settles the record's device, if the table still says    *)
(* what the record says; otherwise nobody sees a difference.               *)
LEMMA MarkMail ==
  ASSUME AckInv, AckInv', NEW r \in marking, MarkReported(r)
  PROVE  [Mail!Next]_(Mail!vars)
<1>1. /\ TableInv /\ TableInv'
      /\ UNCHANGED <<delivered, recycled, heard>>
  BY DEF AckInv, SendInv, MarkReported
<1>2. /\ r.address \in Address
      /\ \A s \in Slot :
           /\ ~Levelled(s, r) => entries'[s] = entries[s]
           /\ Levelled(s, r) => /\ entries'[s].reported_seq = r.update_seq
                                /\ entries'[s].lag = 0
           /\ entries'[s].in_use = entries[s].in_use
           /\ entries'[s].address = entries[s].address
           /\ entries'[s].reading = entries[s].reading
           /\ entries'[s].update_seq = entries[s].update_seq
  BY MarkEffect DEF AckInv, SendInv, TableInv, Bookkeeping, Held
<1>3. Boxes' = Boxes
  BY <1>1, <1>2, SameBoxes
<1>4. CASE (\E s \in Slot : Levelled(s, r)) /\ r.address \notin recycled
  <2>1. PICK s \in Slot : Levelled(s, r)
    BY <1>4
  <2>2. /\ entries'[s].in_use /\ entries'[s].address = r.address
        /\ ~Pending(entries'[s])
    BY <1>2, <2>1 DEF Levelled, Pending
  <2>3. entries[s].reading \in delivered
    BY <1>1, <1>2, <1>4, <2>2 DEF AckInv, NoFalseAcknowledgement
  <2>4. Boxes[r.address] \in delivered
    <3>1. ReadingOf(r.address) = entries[s].reading
      BY <1>1, <2>1, BoxOfSlot DEF TableInv, Levelled
    <3>2. QED
      BY <1>2, <2>3, <3>1 DEF Boxes
  <2>5. \A t \in Slot : t # s => entries'[t] = entries[t]
    BY <1>1, <1>2, <2>1 DEF Levelled, TableInv, OneEntryPerDevice
  <2>6. SettledDevices' = SettledDevices \cup {r.address}
    <3>1. r.address \in SettledDevices'
      BY <1>1, <1>2, <1>4, <2>2 DEF SettledDevices, Holding, Pending
    <3>2. \A c \in Address : c # r.address =>
            (c \in SettledDevices' <=> c \in SettledDevices)
      BY <1>1, <1>2, <2>1, <2>5 DEF SettledDevices, Holding, Pending, Levelled
    <3>3. QED
      BY <1>2, <3>1, <3>2 DEF SettledDevices
  <2>7. Mail!Settle(r.address)
    BY <1>1, <1>3, <2>4, <2>6 DEF Mail!Settle, Boxes
  <2>8. QED
    BY <1>2, <2>7 DEF Mail!Next
<1>5. CASE ~((\E s \in Slot : Levelled(s, r)) /\ r.address \notin recycled)
  <2>1. SettledDevices' = SettledDevices
    BY <1>1, <1>2, <1>5 DEF SettledDevices, Holding, Pending, Levelled
  <2>2. QED
    BY <1>1, <1>3, <2>1 DEF Mail!vars, Boxes
<1>6. QED
  BY <1>4, <1>5

(* A snapshot forgives the devices it holds no record of; what it copies   *)
(* is pending.                                                             *)
LEMMA CopyMail ==
  ASSUME AckInv, AckInv', SnapshotCopy
  PROVE  UNCHANGED Mail!vars
<1>1. /\ outgoing' = {entries[s] : s \in {t \in Slot : Copied(entries[t])}}
      /\ recycled' = {a \in recycled : \A r \in outgoing' : r.address # a}
      /\ UNCHANGED <<entries, delivered, heard>>
  BY DEF SnapshotCopy, table
<1>2. Boxes' = Boxes
  BY <1>1, SameBoxes DEF AckInv, SendInv
<1>3. \A a \in Address : Holding(a)' = Holding(a)
  BY <1>1 DEF Holding
<1>4. ASSUME NEW a \in Address, NEW s \in Holding(a), ~Pending(entries[s]),
             a \in recycled
      PROVE  a \in recycled'
  BY <1>1, <1>4
     DEF Copied, Holding, AckInv, SendInv, TableInv, OneEntryPerDevice
<1>5. SettledDevices' = SettledDevices
  BY <1>1, <1>3, <1>4 DEF SettledDevices, Pending
<1>6. QED
  BY <1>1, <1>2, <1>5 DEF Mail!vars, Boxes

LEMMA SendMail ==
  ASSUME AckInv, NEW S \in SUBSET outgoing, SendFragment(S)
  PROVE  Mail!Next
<1> DEFINE R == {r.reading : r \in S}
<1>1. /\ delivered' = delivered \cup R
      /\ UNCHANGED <<entries, recycled, heard>>
  BY DEF SendFragment, table
<1>2. R \subseteq 1..heard /\ R \cap delivered = {}
  BY DEF AckInv, SendInv, Bookkeeping, Held, NoReadingSentTwice
<1>3. Boxes' = Boxes /\ SettledDevices' = SettledDevices
  BY <1>1 DEF Boxes, ReadingOf, SettledDevices, Known, Holding, Pending
<1> HIDE DEF R
<1>4. Mail!Send(R)
  BY <1>1, <1>2, <1>3 DEF Mail!Send, Boxes
<1>5. QED
  BY <1>2, <1>4 DEF Mail!Next

LEMMA StepMail ==
  ASSUME MaxLag < SeqMod, AckInv, AckInv', [Next]_vars
  PROVE  [Mail!Next]_(Mail!vars)
<1>1. ASSUME NEW a \in Address, Upsert(a)
      PROVE  Mail!Next
  BY <1>1, UpsertMail
<1>2. ASSUME SnapshotCopy
      PROVE  UNCHANGED Mail!vars
  BY <1>2, CopyMail
<1>3. ASSUME NEW S \in SUBSET outgoing, SendFragment(S)
      PROVE  Mail!Next
  BY <1>3, SendMail
<1>4. ASSUME NEW r \in marking, MarkReported(r)
      PROVE  [Mail!Next]_(Mail!vars)
  BY <1>4, MarkMail
<1>5. ASSUME Tick \/ SnapshotClock \/ EndDispatch \/ UNCHANGED vars
      PROVE  UNCHANGED Mail!vars
  <2>1. UNCHANGED <<entries, recycled, heard, delivered>>
    BY <1>5 DEF Tick, SnapshotClock, EndDispatch, vars, table
  <2>2. Boxes' = Boxes /\ SettledDevices' = SettledDevices
    BY <2>1 DEF Boxes, ReadingOf, SettledDevices, Known, Holding, Pending
  <2>3. QED
    BY <2>1, <2>2 DEF Mail!vars, Boxes
<1>6. QED
  BY <1>1, <1>2, <1>3, <1>4, <1>5 DEF Next

LEMMA InitMail == Init => Mail!Init
<1> SUFFICES ASSUME Init
             PROVE  Mail!Init
  OBVIOUS
<1>1. \A a \in Address : Holding(a) = {}
  BY DEF Init, Holding, Blank
<1>2. Boxes = [a \in Address |-> 0]
  BY <1>1 DEF Boxes, ReadingOf, Known
<1>3. SettledDevices = {}
  BY <1>1 DEF SettledDevices
<1>4. delivered = {} /\ heard = 0
  BY DEF Init
<1>5. QED
  BY <1>2, <1>3, <1>4 DEF Mail!Init, Boxes

(* upsert(), snapshot() and mark_reported() together, interleaved by two   *)
(* threads, are a mailbox with one box per device, if between two of its    *)
(* reports no device advertises a full round of update_seq.                *)
THEOREM TableIsMailbox ==
  ASSUME MaxLag < SeqMod
  PROVE  Spec => ImplementsMailbox
<1>1. Init => AckInv
  BY SendInvInit DEF AckInv, Init, Backlog, NoFalseAcknowledgement, Held, Blank
<1>2. AckInv /\ [Next]_vars => AckInv'
  BY AckInvStep
<1>3. AckInv /\ AckInv' /\ [Next]_vars => [Mail!Next]_(Mail!vars)
  BY StepMail
<1>4. Init => Mail!Init
  BY InitMail
<1>5. QED
  BY <1>1, <1>2, <1>3, <1>4, PTL DEF Spec, ImplementsMailbox, Mail!Spec

-----------------------------------------------------------------------------
(* claim_slot() takes a device's slot only when no slot is free and only   *)
(* from the device heard from longest ago, and the count of evictions      *)
(* follows until it saturates.                                             *)
THEOREM EvictsOnlyAsLastResort == Spec => EvictionIsLastResort
<1>1. ASSUME TableInv, TableInv', NEW a \in Address, Upsert(a)
      PROVE  LastResort
  <2>1. PICK s \in Slot, e \in Entry :
          /\ entries' = [entries EXCEPT ![s] = e]
          /\ e.address = a
          /\ (entries[s].in_use /\ entries[s].address = a) \/ ~Known(a)
          /\ Evicts(s, a) => s \in OldestSeen /\ \A t \in Slot : entries[t].in_use
          /\ evicted_count' =
               IF Evicts(s, a) /\ evicted_count < EvictedMax
               THEN evicted_count + 1 ELSE evicted_count
    BY <1>1, UpsertEffect DEF TableInv
  <2>2. entries'[s] = e /\ \A t \in Slot : t # s => entries'[t] = entries[t]
    BY <1>1, <2>1 DEF TableInv, TypeOK
  <2>3. ASSUME entries[s].in_use, entries[s].address # a
        PROVE  Evicts(s, a)
    BY <2>1, <2>3 DEF Evicts
  <2>4. evicted_count \in 0..EvictedMax /\ EvictedMax \in Nat
    BY <1>1, TableConstants DEF TableInv, TypeOK
  <2>5. QED
    BY <2>1, <2>2, <2>3, <2>4 DEF LastResort, OldestSeen
<1>2. ASSUME TableInv, NEW r \in marking, MarkReported(r)
      PROVE  LastResort
  BY <1>2, MarkEffect DEF TableInv, LastResort
<1>3. TableInv /\ TableInv' /\ [Next]_vars => [LastResort]_vars
  <2> SUFFICES ASSUME TableInv, TableInv', [Next]_vars
               PROVE  LastResort \/ UNCHANGED vars
    OBVIOUS
  <2>1. CASE UNCHANGED entries
    BY <2>1 DEF LastResort
  <2>2. CASE \E a \in Address : Upsert(a)
    BY <1>1, <2>2
  <2>3. CASE \E r \in marking : MarkReported(r)
    BY <1>2, <2>3
  <2>4. QED
    BY <2>1, <2>2, <2>3
       DEF Next, Tick, SnapshotClock, SnapshotCopy, SendFragment, EndDispatch, table
<1>4. Init => TableInv
  BY SendInvInit DEF SendInv
<1>5. TableInv /\ [Next]_vars => TableInv'
  BY TableInvStep
<1>6. QED
  BY <1>3, <1>4, <1>5, PTL DEF Spec, EvictionIsLastResort, LastResort
=============================================================================
