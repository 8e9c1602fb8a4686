----------------------------- MODULE UplinkProofs ----------------------------
(***************************************************************************)
(* Proofs about Uplink, for any number of devices, any sizes of header,     *)
(* record and payload, any allowance and any modulus of the sequence.       *)
(***************************************************************************)
EXTENDS Uplink, FiniteSetTheorems, WellFoundedInduction, TLAPS

-----------------------------------------------------------------------------
(* Arithmetic of the cut into fragments. *)
LEMMA Division ==
  ASSUME NEW a \in Nat, NEW b \in Nat \ {0}
  PROVE  a \div b \in Nat /\ a \div b <= a /\ (a \div b) * b <= a
<1>1. a \div b \in Nat /\ a = (a \div b) * b + (a % b) /\ a % b \in Nat
  OBVIOUS
<1> DEFINE q == a \div b
<1>2. q \in Nat /\ q * b <= a
  BY <1>1
<1> HIDE DEF q
<1>3. q <= q * b
  BY <1>2
<1>4. QED
  BY <1>2, <1>3 DEF q

LEMMA Monotone ==
  ASSUME NEW a \in Nat, NEW b \in Nat, NEW c \in Nat, a <= b
  PROVE  a * c <= b * c
OBVIOUS

LEMMA NextSequence ==
  ASSUME NEW n \in 0..(SeqMod - 1)
  PROVE  Next16(n) = IF n + 1 = SeqMod THEN 0 ELSE n + 1
BY UplinkConstants DEF Next16

(* A fragment carries no more than there is room for: the devices before one *)
(* another number them, and the numbers stay below the room.                *)
LEMMA LeadingFits ==
  ASSUME NEW S \in SUBSET Device, NEW n \in Nat
  PROVE  IsFiniteSet(Leading(S, n)) /\ Cardinality(Leading(S, n)) <= n
<1> DEFINE Before(d) == {e \in S : e < d}
           L == Leading(S, n)
           f == [d \in L |-> Cardinality(Before(d))]
<1>1. IsFiniteSet(S)
  <2>1. IsFiniteSet(Device)
    BY FS_Interval, UplinkConstants DEF Device
  <2>2. QED
    BY <2>1, FS_Subset
<1>2. ASSUME NEW d \in S
      PROVE  IsFiniteSet(Before(d)) /\ Cardinality(Before(d)) \in Nat
  BY <1>1, FS_Subset, FS_CardinalityType
<1>3. L \subseteq S /\ \A d \in L : Cardinality(Before(d)) < n
  BY DEF Leading
<1>4. ASSUME NEW c \in S, NEW d \in S, c < d
      PROVE  Cardinality(Before(c)) < Cardinality(Before(d))
  <2>1. c \in Int /\ d \in Int /\ \A e \in S : e \in Int
    BY DEF Device
  <2>2. Before(c) \in SUBSET Before(d) /\ c \in Before(d) /\ c \notin Before(c)
    <3>1. \A e \in S : e < c => e < d
      BY <2>1, <1>4
    <3>2. c < d /\ ~(c < c)
      BY <2>1, <1>4
    <3>3. QED
      BY <3>1, <3>2
  <2>3. Cardinality(Before(c)) <= Cardinality(Before(d))
        /\ Cardinality(Before(c)) # Cardinality(Before(d))
    BY <1>2, <2>2, FS_Subset
  <2>4. QED
    BY <1>2, <2>3
<1>5. f \in Injection(L, 0..(n - 1))
  <2> HIDE DEF Before, L
  <2>1. \A d \in L : f[d] \in 0..(n - 1)
    BY <1>2, <1>3
  <2>2. ASSUME NEW c \in L, NEW d \in L, f[c] = f[d]
        PROVE  c = d
    <3>1. c \in S /\ d \in S /\ c \in Int /\ d \in Int
      BY <1>3 DEF Device
    <3>2. Cardinality(Before(c)) = Cardinality(Before(d))
      BY <2>2
    <3>3. ~(c < d) /\ ~(d < c)
      BY <1>2, <1>4, <3>1, <3>2
    <3>4. QED
      BY <3>1, <3>3
  <2>3. QED
    BY <2>1, <2>2 DEF Injection, IsInjective
<1>6. IsFiniteSet(0..(n - 1)) /\ Cardinality(0..(n - 1)) = n
  BY FS_Interval
<1> HIDE DEF f, L
<1>7. IsFiniteSet(L) /\ Cardinality(L) <= n
  BY <1>5, <1>6, FS_Injection
<1>8. QED
  BY <1>7 DEF L

-----------------------------------------------------------------------------
(* TypeOK, by what belongs together. *)
TableTyped ==
  /\ pending \subseteq Device /\ fresh \subseteq Device /\ moved \subseteq Device
  /\ unsent \subseteq Device /\ waiting \subseteq Device /\ batch \subseteq Device
LinkTyped ==
  /\ connected \in BOOLEAN /\ measured \in BOOLEAN
  /\ ceiling \in Payloads /\ available \in Payloads
RateTyped == available <= ceiling
CycleTyped ==
  /\ phase \in {"idle", "header", "snapshot", "sending"}
  /\ boot_sent \in BOOLEAN
CutTyped ==
  /\ budget \in {0} \cup Payloads /\ room \in 0..255
  /\ count \in 0..MaxUplinks /\ index \in 0..count
CountersTyped ==
  /\ silent \in 0..SilenceCap
  /\ sequence \in 0..(SeqMod - 1)
  /\ cycles \in 0..2 /\ gap \in 0..SeqMod

LEMMA Typed ==
  TypeOK <=> /\ TableTyped /\ LinkTyped /\ RateTyped
             /\ CycleTyped /\ CutTyped /\ CountersTyped
BY DEF TypeOK, TableTyped, LinkTyped, RateTyped, CycleTyped, CutTyped, CountersTyped

LEMMA TypedNext ==
  TypeOK' <=> /\ TableTyped' /\ LinkTyped' /\ RateTyped'
              /\ CycleTyped' /\ CutTyped' /\ CountersTyped'
BY Typed, PTL

(* A cycle that looks at the table was cut for what the link reported. *)
Cut ==
  phase \in {"snapshot", "sending"} =>
    /\ budget \in Payloads /\ budget > HeaderSize
    /\ room = RecordsPerFragment(budget) /\ room > 0

Environment ==
  \/ \E d \in Device : Hear(d) \/ GoStale(d)
  \/ Tick \/ Squeeze \/ SqueezePasses \/ LowerRate \/ RaiseRate

LEMMA Counted ==
  ASSUME CountersTyped, CountCycle
  PROVE  /\ sequence' \in 0..(SeqMod - 1) /\ gap' \in 0..SeqMod /\ gap' > 0
         /\ sequence' = IF sequence + 1 = SeqMod THEN 0 ELSE sequence + 1
         /\ gap' = IF gap < SeqMod THEN gap + 1 ELSE SeqMod
<1>1. sequence' = IF sequence + 1 = SeqMod THEN 0 ELSE sequence + 1
  BY NextSequence DEF CountersTyped, CountCycle
<1>2. gap' = IF gap < SeqMod THEN gap + 1 ELSE SeqMod
  BY UplinkConstants DEF CountersTyped, CountCycle, Smaller
<1>3. QED
  BY <1>1, <1>2, UplinkConstants DEF CountersTyped

Inv == TypeOK /\ Cut

(* There is a highest data rate: a nonempty set of payloads is finite. *)
LEMMA HighestPayload == TopPayload \in Payloads
<1> DEFINE T == {255 - p : p \in Payloads}
<1>1. T \subseteq Nat
  <2>1. \A p \in Payloads : 255 - p \in Nat
    BY UplinkConstants
  <2>2. QED
    BY <2>1
<1>2. T # {}
  BY UplinkConstants
<1> HIDE DEF T
<1>3. PICK t \in T : \A u \in T : ~ (<<u, t>> \in OpToRel(<, Nat))
  BY <1>1, <1>2, NatLessThanWellFounded, WFMin
<1>4. \A u \in T : ~(u < t)
  <2> SUFFICES ASSUME NEW u \in T, u < t
               PROVE  FALSE
    OBVIOUS
  <2>1. <<u, t>> \in OpToRel(<, Nat)
    BY <1>1 DEF OpToRel
  <2>2. QED
    BY <1>3, <2>1
<1>5. PICK p \in Payloads : t = 255 - p
  BY DEF T
<1>6. \A q \in Payloads : ~(255 - q < 255 - p)
  BY <1>4, <1>5 DEF T
<1>7. \A q \in Payloads : q <= p
  BY <1>6, UplinkConstants
<1>8. QED
  BY <1>7 DEF TopPayload

LEMMA InvInit == Init => Inv
<1> SUFFICES ASSUME Init
             PROVE  Inv
  OBVIOUS
<1>1. TableTyped
  BY DEF Init, TableTyped
<1>2. LinkTyped /\ CycleTyped /\ Cut
  BY DEF Init, LinkTyped, CycleTyped, Cut
<1>3. RateTyped
  BY UplinkConstants DEF Init, RateTyped
<1>4. CutTyped /\ CountersTyped
  BY UplinkConstants DEF Init, CutTyped, CountersTyped, SilenceCap
<1>5. QED
  BY <1>1, <1>2, <1>3, <1>4, Typed DEF Inv

(* The rest of the world leaves the dispatch in progress as it is. *)
LEMMA EnvironmentFrame ==
  ASSUME Environment
  PROVE  UNCHANGED <<phase, fragment, numbering, boot_sent, heard_of>>
BY DEF Environment, Hear, GoStale, Tick, Squeeze, SqueezePasses, LowerRate,
       RaiseRate, Network

LEMMA InvEnvironment ==
  ASSUME Inv, Environment
  PROVE  Inv'
<1>1. /\ TableTyped /\ LinkTyped /\ RateTyped /\ CycleTyped /\ CutTyped
      /\ CountersTyped /\ Cut
  BY Typed DEF Inv
<1>2. UNCHANGED <<phase, fragment, numbering, boot_sent, heard_of>>
  BY EnvironmentFrame
<1>3. TableTyped'
  <2>1. batch' = batch
    BY <1>2 DEF fragment
  <2>2. CASE \E d \in Device : Hear(d)
    BY <1>1, <2>1, <2>2 DEF Hear, TableTyped
  <2>3. CASE \E d \in Device : GoStale(d)
    BY <1>1, <2>1, <2>3 DEF GoStale, TableTyped
  <2>4. CASE Tick \/ Squeeze \/ SqueezePasses \/ LowerRate \/ RaiseRate
    BY <1>1, <2>1, <2>4
       DEF Tick, Squeeze, SqueezePasses, LowerRate, RaiseRate, Network, readings,
           TableTyped
  <2>5. QED
    BY <2>2, <2>3, <2>4 DEF Environment
<1>4. LinkTyped' /\ RateTyped'
  <2>1. CASE \/ \E d \in Device : Hear(d) \/ GoStale(d)
             \/ Tick
    <3>1. UNCHANGED <<connected, ceiling, available, measured>>
      BY <2>1 DEF Hear, GoStale, Tick, radio
    <3>2. QED
      BY <1>1, <3>1 DEF LinkTyped, RateTyped
  <2>2. CASE Squeeze \/ SqueezePasses \/ LowerRate \/ RaiseRate
    <3>1. \A p, q \in Payloads : p \in Nat /\ q \in Nat /\ p <= p /\ (p < q => p <= q)
                                /\ (p < q /\ q <= ceiling => p <= ceiling)
      BY <1>1, UplinkConstants DEF LinkTyped
    <3>2. TopPayload \in Payloads \/ ~RaiseRate
      BY <1>1, HighestPayload DEF RaiseRate
    <3>3. /\ ceiling' \in Payloads /\ available' \in Payloads
          /\ available' <= ceiling'
      BY <1>1, <2>2, <3>1, <3>2
         DEF Squeeze, SqueezePasses, LowerRate, RaiseRate, Network, LinkTyped, RateTyped
    <3>4. measured' \in BOOLEAN /\ connected' = connected
      BY <1>1, <2>2 DEF Squeeze, SqueezePasses, LowerRate, RaiseRate, Network, LinkTyped
    <3>5. QED
      BY <1>1, <3>3, <3>4 DEF LinkTyped, RateTyped
  <2>3. QED
    BY <2>1, <2>2 DEF Environment
<1>5. CycleTyped' /\ CutTyped' /\ Cut'
  <2>1. UNCHANGED <<phase, boot_sent, budget, room, count, index>>
    BY <1>2 DEF fragment
  <2>2. QED
    BY <1>1, <2>1 DEF CycleTyped, CutTyped, Cut, RecordsPerFragment
<1>6. CountersTyped'
  <2>1. UNCHANGED <<sequence, gap, cycles>>
    BY <1>2 DEF numbering, heard_of
  <2>2. CASE Tick
    <3>1. silent' \in 0..SilenceCap
      BY <1>1, <2>2, UplinkConstants DEF Tick, CountersTyped, SilenceCap
    <3>2. QED
      BY <1>1, <2>1, <3>1 DEF CountersTyped
  <2>3. CASE ~Tick
    <3>1. silent' = silent
      BY <2>3 DEF Environment, Hear, GoStale, Squeeze, SqueezePasses, LowerRate,
                  RaiseRate, Network
    <3>2. QED
      BY <1>1, <2>1, <3>1 DEF CountersTyped
  <2>4. QED
    BY <2>2, <2>3
<1>7. QED
  BY <1>3, <1>4, <1>5, <1>6, TypedNext DEF Inv

(* The actions of a dispatch, and what each of them leaves alone. *)
LEMMA ReadLinkTypes ==
  ASSUME Inv, ReadLink
  PROVE  /\ CutTyped' /\ Cut' /\ CountersTyped'
         /\ TableTyped' /\ LinkTyped' /\ RateTyped' /\ CycleTyped'
<1>1. /\ TableTyped /\ LinkTyped /\ RateTyped /\ CycleTyped /\ CutTyped
      /\ CountersTyped /\ Cut
  BY Typed DEF Inv
<1>2. /\ available \in Payloads /\ available \in Nat /\ available <= 255
      /\ available > HeaderSize
      /\ budget' = available /\ room' = RecordsPerFragment(available)
      /\ UNCHANGED <<batch, index, count>>
  BY <1>1, UplinkConstants DEF ReadLink, LinkTyped
<1>3. room' \in 0..255
  <2> DEFINE a == available - HeaderSize
  <2>1. a \in Nat /\ a <= 255
    BY <1>2, UplinkConstants
  <2>2. a \div RecordSize \in Nat /\ a \div RecordSize <= a
    BY <2>1, Division, UplinkConstants
  <2>3. QED
    BY <1>2, <2>1, <2>2 DEF RecordsPerFragment
<1>4. CutTyped'
  BY <1>1, <1>2, <1>3 DEF CutTyped
<1>5. Cut'
  <2>1. phase' \in {"snapshot", "sending"} => room' > 0
    BY DEF ReadLink
  <2>2. QED
    BY <1>2, <2>1 DEF Cut, RecordsPerFragment
<1>6. CountersTyped'
  <2>1. CountCycle \/ UNCHANGED numbering
    BY DEF ReadLink
  <2>2. sequence' \in 0..(SeqMod - 1) /\ gap' \in 0..SeqMod
    BY <1>1, <2>1, Counted DEF CountersTyped, numbering
  <2>3. QED
    BY <1>1, <2>2 DEF ReadLink, heard_of, CountersTyped
<1>7. TableTyped' /\ LinkTyped' /\ RateTyped' /\ CycleTyped'
  BY <1>1 DEF ReadLink, readings, radio, TableTyped, LinkTyped, RateTyped, CycleTyped
<1>8. QED
  BY <1>4, <1>5, <1>6, <1>7

LEMMA SnapshotTypes ==
  ASSUME Inv, TakeSnapshot
  PROVE  /\ CutTyped' /\ Cut' /\ CountersTyped'
         /\ TableTyped' /\ LinkTyped' /\ RateTyped' /\ CycleTyped'
<1>1. /\ TableTyped /\ LinkTyped /\ RateTyped /\ CycleTyped /\ CutTyped
      /\ CountersTyped /\ Cut
  BY Typed DEF Inv
<1>2. batch' = pending \cap fresh /\ batch' \in SUBSET Device /\ IsFiniteSet(batch')
  <2>1. IsFiniteSet(Device)
    BY FS_Interval, UplinkConstants DEF Device
  <2>2. batch' = pending \cap fresh /\ batch' \in SUBSET Device
    BY <1>1 DEF TakeSnapshot, TableTyped
  <2>3. QED
    BY <2>1, <2>2, FS_Subset
<1>3. FragmentsNeeded(Cardinality(batch')) \in Nat
  <2> DEFINE n == Cardinality(pending \cap fresh)
  <2>1. n \in Nat
    BY <1>2, FS_CardinalityType
  <2>2. room \in Nat \ {0}
    BY <1>1 DEF TakeSnapshot, Cut, CutTyped
  <2> HIDE DEF n
  <2>3. n + room - 1 \in Nat
    BY <2>1, <2>2
  <2>4. (n + room - 1) \div room \in Nat
    BY <2>2, <2>3, Division
  <2>5. FragmentsNeeded(n) \in Nat
    BY <2>4 DEF FragmentsNeeded
  <2>6. QED
    BY <1>2, <2>5 DEF n
<1>4. count' \in 0..MaxUplinks
  <2> DEFINE f == FragmentsNeeded(Cardinality(pending \cap fresh))
  <2>1. count' = Smaller(f, MaxUplinks) /\ f \in Nat
    BY <1>2, <1>3 DEF TakeSnapshot
  <2> HIDE DEF f
  <2>2. QED
    BY <2>1, UplinkConstants DEF Smaller
<1>5. CutTyped' /\ Cut'
  BY <1>1, <1>4, UplinkConstants DEF TakeSnapshot, CutTyped, Cut, RecordsPerFragment
<1>6. CountersTyped'
  <2>1. sequence' \in 0..(SeqMod - 1) /\ gap' \in 0..SeqMod
    BY <1>1, Counted DEF TakeSnapshot
  <2>2. QED
    BY <1>1, <2>1 DEF TakeSnapshot, heard_of, CountersTyped
<1>7. TableTyped' /\ LinkTyped' /\ RateTyped' /\ CycleTyped'
  BY <1>1, <1>2
     DEF TakeSnapshot, PendingAfterSnapshot, radio, TableTyped, LinkTyped, RateTyped,
         CycleTyped
<1>8. QED
  BY <1>4, <1>5, <1>6, <1>7

(* Done leaves nothing of the cycle behind. *)
LEMMA DoneTypes ==
  ASSUME Done
  PROVE  CutTyped' /\ Cut' /\ batch' = {} /\ moved' = {} /\ phase' = "idle"
<1>1. CutTyped'
  <2>1. budget' = 0 /\ room' = 0 /\ index' = 0 /\ count' = 0
    BY DEF Done
  <2>2. QED
    BY <2>1, UplinkConstants DEF CutTyped
<1>2. QED
  BY <1>1 DEF Done, Cut

LEMMA FragmentTypes ==
  ASSUME Inv, FragmentAccepted
  PROVE  /\ CutTyped' /\ Cut' /\ CountersTyped'
         /\ TableTyped' /\ LinkTyped' /\ RateTyped' /\ CycleTyped'
<1>1. /\ TableTyped /\ LinkTyped /\ RateTyped /\ CycleTyped /\ CutTyped
      /\ CountersTyped /\ Cut
  BY Typed DEF Inv
<1>2. CutTyped' /\ Cut'
  <2>1. index' \in 0..count
    BY <1>1, UplinkConstants DEF FragmentAccepted, CutTyped
  <2>2. UNCHANGED <<budget, room, count, phase>>
    BY DEF FragmentAccepted
  <2>3. QED
    BY <1>1, <2>1, <2>2 DEF CutTyped, Cut, RecordsPerFragment
<1>3. CountersTyped'
  <2>1. /\ cycles' \in 0..2 /\ gap' = 0 /\ silent' = 0 /\ sequence' = sequence
    BY <1>1 DEF FragmentAccepted, Accepted, CountersTyped
  <2>2. QED
    BY <1>1, <2>1, UplinkConstants DEF CountersTyped, SilenceCap
<1>4. TableTyped' /\ LinkTyped' /\ RateTyped' /\ CycleTyped'
  BY <1>1 DEF FragmentAccepted, Accepted, TableTyped, LinkTyped, RateTyped, CycleTyped
<1>5. QED
  BY <1>2, <1>3, <1>4

LEMMA InvComms ==
  ASSUME Inv, Comms
  PROVE  Inv'
<1>1. /\ TableTyped /\ LinkTyped /\ RateTyped /\ CycleTyped /\ CutTyped
      /\ CountersTyped /\ Cut
  BY Typed DEF Inv
<1>2. CASE ReadLink \/ TakeSnapshot \/ FragmentAccepted
  BY <1>2, ReadLinkTypes, SnapshotTypes, FragmentTypes, TypedNext DEF Inv
<1>3. CASE SkipCycle
  BY <1>1, <1>3, TypedNext
     DEF SkipCycle, vars, Inv, TableTyped, LinkTyped, RateTyped, CycleTyped,
         CutTyped, CountersTyped, Cut, RecordsPerFragment
<1>4. CASE SendProbe
  <2>1. LinkTyped'
    BY <1>1, <1>4 DEF SendProbe, Probe, Refused, LinkTyped
  <2>2. QED
    BY <1>1, <1>4, <2>1, TypedNext
       DEF SendProbe, readings, fragment, numbering, heard_of, Inv, TableTyped,
           RateTyped, CycleTyped, CutTyped, CountersTyped, Cut, RecordsPerFragment
<1>5. CASE HeartbeatIfDue
  <2>1. CASE HeartbeatDue /\ phase' = "header" /\ CountCycle /\ UNCHANGED <<moved, fragment>>
    <3>1. sequence' \in 0..(SeqMod - 1) /\ gap' \in 0..SeqMod
      BY <1>1, <2>1, Counted
    <3>2. CountersTyped' /\ CutTyped' /\ Cut'
      BY <1>1, <1>5, <2>1, <3>1
         DEF HeartbeatIfDue, heard_of, fragment, CountersTyped, CutTyped, Cut
    <3>3. TableTyped' /\ LinkTyped' /\ RateTyped' /\ CycleTyped'
      BY <1>1, <1>5, <2>1
         DEF HeartbeatIfDue, readings, radio, fragment, TableTyped, LinkTyped,
             RateTyped, CycleTyped
    <3>4. QED
      BY <3>2, <3>3, TypedNext DEF Inv
  <2>2. CASE Done /\ UNCHANGED numbering
    <3>1. CountersTyped' /\ LinkTyped' /\ RateTyped'
      BY <1>1, <1>5, <2>2
         DEF HeartbeatIfDue, heard_of, numbering, radio, CountersTyped, LinkTyped,
             RateTyped
    <3>2. TableTyped' /\ CycleTyped'
      BY <1>1, <1>5, <2>2, DoneTypes
         DEF HeartbeatIfDue, readings, TableTyped, CycleTyped
    <3>3. QED
      BY <2>2, <3>1, <3>2, DoneTypes, TypedNext DEF Inv
  <2>3. QED
    BY <1>5, <2>1, <2>2 DEF HeartbeatIfDue
<1>6. CASE HeaderAccepted
  <2>1. CountersTyped'
    <3>1. cycles' \in 0..2 /\ gap' = 0 /\ silent' = 0 /\ sequence' = sequence
      BY <1>1, <1>6 DEF HeaderAccepted, Accepted, CountersTyped
    <3>2. QED
      BY <1>1, <3>1, UplinkConstants DEF CountersTyped, SilenceCap
  <2>2. TableTyped' /\ LinkTyped' /\ RateTyped' /\ CycleTyped'
    BY <1>1, <1>6, DoneTypes
       DEF HeaderAccepted, Accepted, readings, TableTyped, LinkTyped, RateTyped,
           CycleTyped
  <2>3. QED
    BY <1>6, <2>1, <2>2, DoneTypes, TypedNext DEF HeaderAccepted, Inv
<1>7. CASE HeaderRefused \/ FragmentRefused \/ EndCycle
  <2>1. Done /\ UNCHANGED <<readings, silent, radio, numbering, heard_of>>
    BY <1>7 DEF HeaderRefused, FragmentRefused, EndCycle
  <2>2. connected' \in BOOLEAN /\ boot_sent' \in BOOLEAN
    <3>1. connected' \in BOOLEAN
      BY <1>1, <1>7 DEF HeaderRefused, FragmentRefused, EndCycle, Refused, LinkTyped
    <3>2. boot_sent' = boot_sent \/ boot_sent' = Spoken
      BY <1>7 DEF HeaderRefused, FragmentRefused, EndCycle
    <3>3. Spoken \in BOOLEAN
      BY DEF Spoken
    <3>4. QED
      BY <1>1, <3>1, <3>2, <3>3 DEF CycleTyped
  <2>3. CountersTyped' /\ RateTyped'
    BY <1>1, <2>1 DEF radio, numbering, heard_of, CountersTyped, RateTyped
  <2>4. TableTyped' /\ LinkTyped' /\ CycleTyped'
    BY <1>1, <2>1, <2>2, DoneTypes DEF readings, radio, TableTyped, LinkTyped, CycleTyped
  <2>5. QED
    BY <2>1, <2>3, <2>4, DoneTypes, TypedNext DEF Inv
<1>8. QED
  BY <1>2, <1>3, <1>4, <1>5, <1>6, <1>7 DEF Comms

LEMMA InvStep == Inv /\ [Next]_vars => Inv'
<1> SUFFICES ASSUME Inv, [Next]_vars
             PROVE  Inv'
  OBVIOUS
<1>1. CASE UNCHANGED vars
  BY <1>1 DEF vars, Inv, TypeOK, Cut, RecordsPerFragment
<1>2. QED
  BY <1>1, InvEnvironment, InvComms DEF Next, Environment

(* The dispatcher keeps its types: the fragment count fits the header's      *)
(* uint8_t, and a record always fits where one is going to be put.          *)
THEOREM UplinkTypes == Spec => []TypeOK
BY InvInit, InvStep, PTL DEF Spec, Inv

-----------------------------------------------------------------------------
(* A device is pending exactly while its latest reading has not got through: *)
(* a device heard again while its record is on its way stays pending.       *)
THEOREM NothingIsForgotten == Spec => []PendingUntilThrough
<1>1. Init => PendingUntilThrough
  BY DEF Init, PendingUntilThrough
<1>2. PendingUntilThrough /\ [Next]_vars => PendingUntilThrough'
  <2> SUFFICES ASSUME PendingUntilThrough, [Next]_vars
               PROVE  PendingUntilThrough'
    OBVIOUS
  <2>1. CASE \E d \in Device : Hear(d)
    BY <2>1 DEF Hear, PendingUntilThrough
  <2>2. CASE FragmentAccepted
    BY <2>2 DEF FragmentAccepted, PendingUntilThrough
  <2>3. CASE TakeSnapshot
    BY <2>3 DEF TakeSnapshot, PendingAfterSnapshot, PendingUntilThrough
  <2>4. CASE UNCHANGED <<pending, unsent>>
    BY <2>4 DEF PendingUntilThrough
  <2>5. QED
    BY <2>1, <2>2, <2>3, <2>4
       DEF Next, Comms, GoStale, Tick, Squeeze, SqueezePasses, LowerRate, RaiseRate,
           Network, SkipCycle, SendProbe, ReadLink, HeartbeatIfDue, HeaderAccepted,
           HeaderRefused, FragmentRefused, EndCycle, readings, vars
<1>3. QED
  BY <1>1, <1>2, PTL DEF Spec

(* No fragment is larger than what the link reported when the cycle was cut  *)
(* into fragments, whatever the sizes of the header and of a record.        *)
THEOREM FragmentsAlwaysFit == Spec => []FragmentsFit
<1>1. Inv => FragmentsFit
  <2> SUFFICES ASSUME Inv, phase = "sending"
               PROVE  HeaderSize + Cardinality(Carried) * RecordSize <= budget
    BY DEF FragmentsFit
  <2>1. /\ budget \in Nat /\ HeaderSize \in Nat /\ budget > HeaderSize
        /\ room = RecordsPerFragment(budget)
        /\ RecordSize \in Nat \ {0} /\ batch \in SUBSET Device
    BY UplinkConstants DEF Inv, Cut, TypeOK
  <2> DEFINE a == budget - HeaderSize
             k == Cardinality(Carried)
  <2>2. a \in Nat /\ room = a \div RecordSize
    BY <2>1 DEF RecordsPerFragment
  <2> HIDE DEF a
  <2>3. room \in Nat /\ room * RecordSize <= a
    BY <2>1, <2>2, Division
  <2>4. k \in Nat /\ k <= room
    BY <2>1, <2>3, LeadingFits, FS_CardinalityType DEF Carried
  <2> HIDE DEF k
  <2>5. k * RecordSize <= room * RecordSize
    BY <2>1, <2>3, <2>4, Monotone
  <2>6. k * RecordSize \in Nat /\ room * RecordSize \in Nat
    BY <2>1, <2>3, <2>4
  <2>7. k * RecordSize <= a
    BY <2>2, <2>3, <2>5, <2>6
  <2>8. HeaderSize + k * RecordSize <= budget
    BY <2>1, <2>6, <2>7 DEF a
  <2>9. QED
    BY <2>8 DEF k
<1>2. QED
  BY <1>1, InvInit, InvStep, PTL DEF Spec

-----------------------------------------------------------------------------
(* What a frame about to be sent may say of the one before: inside a cycle   *)
(* it is the next fragment; the first of a cycle has had its number counted  *)
(* up since, gap times, and the BOOT flag is gone once a cycle got through.  *)
Inside == phase = "sending" /\ index # 0

Numbered ==
  /\ Inside => /\ gap = 0
               /\ frame.sequence = sequence /\ frame.count = count
               /\ frame.index = index - 1
  /\ phase = "header" \/ (phase = "sending" /\ index = 0) => gap > 0
  /\ frame.sequence \in 0..(SeqMod - 1)
  /\ gap < SeqMod => \/ sequence = frame.sequence + gap
                     \/ sequence = frame.sequence + gap - SeqMod

Booted ==
  /\ ~boot_sent => cycles = IF Inside THEN 1 ELSE 0
  /\ boot_sent => cycles = 2 \/ (cycles = 1 /\ ~Inside)

LEMMA NumberedInit == Init => Numbered /\ Booted
BY UplinkConstants DEF Init, Numbered, Booted, Inside, NoFrame

LEMMA NumberedStep == Inv /\ Numbered /\ [Next]_vars => Numbered'
<1> SUFFICES ASSUME Inv, Numbered, [Next]_vars
             PROVE  Numbered'
  OBVIOUS
<1>1. CountersTyped /\ CutTyped
  BY Typed DEF Inv
<1>2. CASE UNCHANGED <<phase, index, count, sequence, gap, frame>>
  BY <1>2 DEF Numbered, Inside
<1>3. ASSUME CountCycle, frame' = frame, ~Inside'
      PROVE  Numbered'
  <2>1. gap' > 0
    BY <1>1, <1>3, Counted
  <2>2. gap' < SeqMod => \/ sequence' = frame.sequence + gap'
                        \/ sequence' = frame.sequence + gap' - SeqMod
    BY <1>1, <1>3, Counted, UplinkConstants DEF CountersTyped, Numbered
  <2>3. QED
    BY <1>3, <2>1, <2>2 DEF Numbered
<1>4. ASSUME phase' \in {"idle", "snapshot"}, UNCHANGED <<sequence, gap, frame>>
      PROVE  Numbered'
  BY <1>4 DEF Numbered, Inside
<1>5. CASE ReadLink \/ TakeSnapshot \/ HeartbeatIfDue
  <2>1. /\ frame' = frame
        /\ \/ CountCycle /\ ~Inside'
           \/ phase' \in {"idle", "snapshot"} /\ UNCHANGED numbering
    BY <1>5 DEF ReadLink, TakeSnapshot, HeartbeatIfDue, heard_of, Inside, Done
  <2>2. QED
    BY <1>3, <1>4, <2>1 DEF numbering
<1>6. CASE HeaderRefused \/ FragmentRefused \/ EndCycle
  BY <1>4, <1>6 DEF HeaderRefused, FragmentRefused, EndCycle, Done, numbering, heard_of
<1>7. CASE HeaderAccepted
  <2>1. /\ frame'.sequence = sequence /\ gap' = 0 /\ sequence' = sequence
        /\ phase' = "idle"
    BY <1>7 DEF HeaderAccepted, Accepted, Done
  <2>2. QED
    BY <1>1, <2>1, UplinkConstants DEF CountersTyped, Numbered, Inside
<1>8. CASE FragmentAccepted
  <2>1. /\ frame'.sequence = sequence /\ frame'.index = index /\ frame'.count = count
        /\ gap' = 0 /\ sequence' = sequence /\ phase' = "sending"
        /\ index' = index + 1 /\ count' = count
    BY <1>8 DEF FragmentAccepted, Accepted
  <2>2. index \in Nat
    BY <1>1, UplinkConstants DEF CutTyped
  <2>3. QED
    BY <1>1, <2>1, <2>2, UplinkConstants DEF CountersTyped, Numbered, Inside
<1>9. CASE UNCHANGED vars \/ Environment \/ SkipCycle \/ SendProbe
  BY <1>2, <1>9, EnvironmentFrame
     DEF vars, SkipCycle, SendProbe, fragment, numbering, heard_of
<1>10. QED
  BY <1>5, <1>6, <1>7, <1>8, <1>9 DEF Next, Comms, Environment

LEMMA BootedStep == Inv /\ Booted /\ [Next]_vars => Booted'
<1> SUFFICES ASSUME Inv, Booted, [Next]_vars
             PROVE  Booted'
  OBVIOUS
<1>1. CountersTyped /\ CutTyped /\ boot_sent \in BOOLEAN
  BY Typed DEF Inv, CycleTyped
<1>2. CASE UNCHANGED <<phase, index, boot_sent, cycles>>
  BY <1>2 DEF Booted, Inside
<1>3. CASE ReadLink \/ TakeSnapshot \/ HeartbeatIfDue
  <2>1. ~Inside /\ ~Inside' /\ UNCHANGED <<boot_sent, cycles>>
    BY <1>3 DEF ReadLink, TakeSnapshot, HeartbeatIfDue, heard_of, Inside, Done
  <2>2. QED
    BY <2>1 DEF Booted
<1>4. CASE HeaderRefused
  <2>1. ~Inside /\ ~Inside' /\ UNCHANGED <<boot_sent, cycles>>
    BY <1>4 DEF HeaderRefused, heard_of, Inside, Done
  <2>2. QED
    BY <2>1 DEF Booted
<1>5. CASE FragmentRefused \/ EndCycle
  <2>1. ~Inside' /\ cycles' = cycles /\ phase = "sending"
        /\ boot_sent' = (boot_sent \/ index > 0)
    BY <1>5 DEF FragmentRefused, EndCycle, heard_of, Inside, Done, Spoken
  <2>2. index \in Nat /\ (index > 0 <=> index # 0)
    BY <1>1, UplinkConstants DEF CutTyped
  <2>3. boot_sent' <=> boot_sent \/ Inside
    BY <2>1, <2>2, Zenon DEF Inside
  <2>4. QED
    BY <2>1, <2>3 DEF Booted
<1>6. CASE HeaderAccepted
  <2>1. ~Inside /\ ~Inside' /\ boot_sent' = TRUE
        /\ cycles' = IF cycles < 2 THEN cycles + 1 ELSE cycles
    BY <1>6 DEF HeaderAccepted, Accepted, Inside, Done
  <2>2. QED
    BY <1>1, <2>1 DEF Booted, CountersTyped
<1>7. CASE FragmentAccepted
  <2>1. /\ phase = "sending" /\ phase' = "sending" /\ index' = index + 1
        /\ boot_sent' = boot_sent
        /\ cycles' = IF index = 0 /\ cycles < 2 THEN cycles + 1 ELSE cycles
    BY <1>7 DEF FragmentAccepted, Accepted
  <2>2. index \in Nat
    BY <1>1, UplinkConstants DEF CutTyped
  <2>3. Inside' /\ (Inside <=> index # 0)
    BY <2>1, <2>2 DEF Inside
  <2>4. QED
    BY <1>1, <2>1, <2>3 DEF Booted, CountersTyped
<1>8. CASE UNCHANGED vars \/ Environment \/ SkipCycle \/ SendProbe
  BY <1>2, <1>8, EnvironmentFrame
     DEF vars, SkipCycle, SendProbe, fragment, numbering, heard_of
<1>9. QED
  BY <1>3, <1>4, <1>5, <1>6, <1>7, <1>8 DEF Next, Comms, Environment

(* A frame changes only when one is accepted. *)
LEMMA FrameChange ==
  ASSUME Next, frame' # frame
  PROVE  HeaderAccepted \/ FragmentAccepted
BY EnvironmentFrame
   DEF Next, Environment, Comms, SkipCycle, SendProbe, ReadLink, TakeSnapshot,
       HeartbeatIfDue, HeaderRefused, FragmentRefused, EndCycle, heard_of, vars

(* A frame is the next fragment of the cycle of the one before it, or the    *)
(* first of a cycle with another number, whatever was refused or skipped in  *)
(* between, short of a whole round of numbers.                              *)
THEOREM FramesNeverCollide == Spec => FramesAreNumbered
<1> DEFINE A == frame' # frame =>
                  \/ /\ frame'.sequence = frame.sequence /\ frame'.count = frame.count
                     /\ frame'.index = frame.index + 1 /\ frame'.index < frame.count
                  \/ /\ frame'.index = 0
                     /\ \/ frame'.sequence # frame.sequence
                        \/ frame = NoFrame \/ gap = SeqMod
<1>1. Inv /\ Numbered /\ [Next]_vars => [A]_vars
  <2> SUFFICES ASSUME Inv, Numbered, Next, frame' # frame
               PROVE  A
    OBVIOUS
  <2>1. CountersTyped /\ CutTyped
    BY Typed DEF Inv
  <2>2. gap > 0 /\ gap < SeqMod => sequence # frame.sequence
    BY <2>1, UplinkConstants DEF CountersTyped, Numbered
  <2>3. gap > 0 => gap < SeqMod \/ gap = SeqMod
    BY <2>1, UplinkConstants DEF CountersTyped
  <2>4. CASE HeaderAccepted
    <3>1. frame'.sequence = sequence /\ frame'.index = 0 /\ phase = "header"
      BY <2>4 DEF HeaderAccepted, Accepted
    <3>2. QED
      BY <2>2, <2>3, <3>1 DEF Numbered
  <2>5. CASE FragmentAccepted
    <3>1. /\ frame'.sequence = sequence /\ frame'.index = index /\ frame'.count = count
          /\ phase = "sending" /\ index < count
      BY <2>5 DEF FragmentAccepted, Accepted
    <3>2. CASE index = 0
      BY <2>2, <2>3, <3>1, <3>2 DEF Numbered
    <3>3. CASE index # 0
      <4>1. /\ frame.sequence = sequence /\ frame.count = count
            /\ frame.index = index - 1
        BY <3>1, <3>3 DEF Numbered, Inside
      <4>2. index \in Nat
        BY <2>1, UplinkConstants DEF CutTyped
      <4>3. QED
        BY <3>1, <4>1, <4>2
    <3>4. QED
      BY <3>2, <3>3
  <2>6. QED
    BY <2>4, <2>5, FrameChange
<1>2. QED
  BY <1>1, InvInit, InvStep, NumberedInit, NumberedStep, PTL DEF Spec, FramesAreNumbered

(* The BOOT flag is on every frame of the first cycle that got anything      *)
(* through, and on no later one.                                            *)
THEOREM BootOnFirstCycleOnly == Spec => BootIsFirstUplink
<1> DEFINE A == frame' # frame => (frame'.boot <=> cycles' = 1)
<1>1. Inv /\ Booted /\ [Next]_vars => [A]_vars
  <2> SUFFICES ASSUME Inv, Booted, Next, frame' # frame
               PROVE  frame'.boot <=> cycles' = 1
    OBVIOUS
  <2>1. CountersTyped /\ CutTyped /\ boot_sent \in BOOLEAN
    BY Typed DEF Inv, CycleTyped
  <2>2. \E i : /\ i = 0 <=> ~Inside
               /\ frame'.boot = ~boot_sent
               /\ cycles' = IF i = 0 /\ cycles < 2 THEN cycles + 1 ELSE cycles
    <3>1. CASE HeaderAccepted
      BY <3>1 DEF HeaderAccepted, Accepted, Inside
    <3>2. CASE FragmentAccepted
      BY <3>2 DEF FragmentAccepted, Accepted, Inside
    <3>3. QED
      BY <3>1, <3>2, FrameChange
  <2>3. (frame'.boot <=> ~boot_sent)
        /\ cycles' = IF ~Inside /\ cycles < 2 THEN cycles + 1 ELSE cycles
    BY <2>2
  <2>4. QED
    BY <2>1, <2>3 DEF Booted, CountersTyped
<1>2. QED
  BY <1>1, InvInit, InvStep, NumberedInit, BootedStep, PTL DEF Spec, BootIsFirstUplink
=============================================================================
