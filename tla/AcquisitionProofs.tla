-------------------------- MODULE AcquisitionProofs --------------------------
(* The safety properties of Acquisition, for every pool size, every event  *)
(* queue of at least three places and any number of reports; then those of *)
(* AdvParser, which decides whether a report is ours.                      *)
EXTENDS Acquisition, AdvParser, TLAPS

(* START_SCAN and STOP_SCAN are queued at most once each, and only in the   *)
(* order and at the point of the application's life at which it sends them. *)
(* A queue of three that is full therefore holds an ADV_REPORT_AVAILABLE.   *)
CommandsOnce ==
  \A i, j \in DOMAIN queue :
    queue[i] = queue[j] /\ queue[i] # "ADV_REPORT_AVAILABLE" => i = j
CommandsInOrder ==
  /\ Queued("START_SCAN") => app # "startup"
  /\ Queued("STOP_SCAN") => app = "halted"
  /\ \A i, j \in DOMAIN queue :
       queue[i] = "STOP_SCAN" /\ queue[j] = "START_SCAN" => j < i
  /\ stopped => app = "halted" /\ ~Queued("STOP_SCAN")

LostReports ==
  received - (Len(pool) + IF in_hand = NoReport THEN 0 ELSE 1) - handled

LostCounted ==
  /\ LostReports \in Nat
  /\ dropped = IF LostReports < DroppedMax THEN LostReports ELSE DroppedMax

WakeupInv ==
  TypeOK /\ CommandsOnce /\ CommandsInOrder /\ StopIsFinal /\ NoLostWakeup

(* A full event queue already holds a wakeup. *)
LEMMA FullQueueWakes ==
  ASSUME TypeOK, CommandsOnce, Len(queue) >= QueueLength
  PROVE  Queued("ADV_REPORT_AVAILABLE")
<1>1. Len(queue) >= 3
  BY AcquisitionConstants DEF TypeOK
<1>2. {1, 2, 3} \subseteq DOMAIN queue
  BY <1>1 DEF TypeOK
<1>3. \A i \in DOMAIN queue : queue[i] \in Event
  BY DEF TypeOK
<1>4. \E i \in {1, 2, 3} : queue[i] = "ADV_REPORT_AVAILABLE"
  BY <1>2, <1>3 DEF CommandsOnce, Event
<1> QED
  BY <1>2, <1>4 DEF Queued

(* What a post does: it keeps what is queued, in its place, and adds at     *)
(* most the event at the end.                                              *)
LEMMA PostEffect ==
  ASSUME TypeOK, NEW e \in Event, Post(e)
  PROVE  /\ queue' \in Seq(Event) /\ Len(queue') <= QueueLength
         /\ lost_events' \in Nat
         /\ DOMAIN queue \subseteq DOMAIN queue'
         /\ \A i \in DOMAIN queue : queue'[i] = queue[i]
         /\ \A i \in DOMAIN queue' \ DOMAIN queue :
              i = Len(queue) + 1 /\ queue'[i] = e
         /\ Len(queue) < QueueLength => Queued(e)'
<1>1. CASE Len(queue) < QueueLength
  <2>1. queue' = Append(queue, e) /\ lost_events' = lost_events
    BY <1>1 DEF Post
  <2>2. /\ queue' \in Seq(Event) /\ Len(queue') = Len(queue) + 1
        /\ \A i \in 1..Len(queue) : queue'[i] = queue[i]
        /\ queue'[Len(queue) + 1] = e
    BY <2>1 DEF TypeOK
  <2>3. Queued(e)'
    BY <2>2 DEF Queued, TypeOK
  <2> QED
    BY <1>1, <2>1, <2>2, <2>3, AcquisitionConstants DEF TypeOK
<1>2. CASE ~(Len(queue) < QueueLength)
  <2>1. queue' = queue /\ lost_events' = lost_events + 1
    BY <1>2 DEF Post
  <2> QED
    BY <1>2, <2>1 DEF TypeOK
<1> QED
  BY <1>1, <1>2

(* What taking an event does: everything else moves up by one place. *)
LEMMA TakeEffect ==
  ASSUME TypeOK, NEW e \in Event, Take(e)
  PROVE  /\ queue' \in Seq(Event) /\ Len(queue') <= QueueLength
         /\ thread = "waiting"
         /\ Len(queue) > 0 /\ queue[1] = e
         /\ Len(queue') = Len(queue) - 1
         /\ \A i \in DOMAIN queue' : i + 1 \in DOMAIN queue /\ queue'[i] = queue[i + 1]
         /\ \A i \in DOMAIN queue : i = 1 \/ (i - 1 \in DOMAIN queue' /\ queue'[i - 1] = queue[i])
BY AcquisitionConstants DEF TypeOK, Take

LEMMA TypeStep ==
  ASSUME TypeOK, [Next]_vars
  PROVE  TypeOK'
<1>1. CASE SendStartScan
  BY <1>1, PostEffect DEF SendStartScan, NotStarted, TypeOK, Event
<1>2. CASE SendStopScan
  BY <1>2, PostEffect DEF SendStopScan, TypeOK, Event
<1>3. ASSUME NEW ours \in BOOLEAN, PutReport(ours)
      PROVE  TypeOK'
  <2>1. [number |-> received + 1, ours |-> ours] \in Report
    BY DEF TypeOK, Report
  <2>2. /\ pool' \in Seq(Report) /\ Len(pool') <= PoolSize
        /\ callback' \in {"idle", "posting"}
    <3>1. CASE Len(pool) < PoolSize /\ callback' = "posting"
               /\ pool' = Append(pool, [number |-> received + 1, ours |-> ours])
      BY <2>1, <3>1, AcquisitionConstants DEF TypeOK
    <3>2. CASE pool' = pool /\ callback' = callback
      BY <3>2 DEF TypeOK
    <3> QED
      BY <1>3, <3>1, <3>2 DEF PutReport
  <2>3. dropped' \in 0..DroppedMax /\ received' \in Nat
    BY <1>3, AcquisitionConstants DEF PutReport, SaturatingIncrement, TypeOK
  <2> QED
    BY <1>3, <2>2, <2>3 DEF PutReport, TypeOK
<1>4. CASE PostAvailable
  BY <1>4, PostEffect DEF PostAvailable, TypeOK, Event
<1>5. CASE StartScan
  BY <1>5, TakeEffect DEF StartScan, TypeOK, Event
<1>6. CASE StopScan
  <2>1. /\ queue' \in Seq(Event) /\ Len(queue') <= QueueLength
    BY <1>6, TakeEffect DEF StopScan, Event
  <2>2. scanning' \in BOOLEAN /\ stopped' \in BOOLEAN
    BY <1>6 DEF StopScan, TypeOK
  <2> QED
    BY <1>6, <2>1, <2>2 DEF StopScan, TypeOK
<1>7. CASE BeginDrain
  BY <1>7, TakeEffect DEF BeginDrain, TypeOK, Event
<1>8. CASE TryGet
  <2>1. pool # <<>> /\ thread = "draining"
    BY <1>8 DEF TryGet, DrainOver
  <2>2. /\ Head(pool) \in Report
        /\ Tail(pool) \in Seq(Report) /\ Len(Tail(pool)) <= PoolSize
    BY <2>1, AcquisitionConstants DEF TypeOK
  <2> QED
    BY <1>8, <2>1, <2>2 DEF TryGet, TypeOK, Report
<1>9. CASE Record
  BY <1>9 DEF Record, TypeOK
<1>10. CASE EndDrain
  BY <1>10 DEF EndDrain, TypeOK
<1>11. CASE UNCHANGED vars
  BY <1>11 DEF vars, TypeOK
<1> QED
  BY <1>1, <1>2, <1>3, <1>4, <1>5, <1>6, <1>7, <1>8, <1>9, <1>10, <1>11
  DEF Next, Thread

LEMMA InitialTypes ==
  ASSUME Init
  PROVE  TypeOK /\ Len(pool) = 0 /\ DOMAIN queue = {}
<1>1. pool \in Seq(Report) /\ Len(pool) = 0
  BY DEF Init
<1>2. queue \in Seq(Event) /\ Len(queue) = 0
  BY DEF Init
<1>3. DOMAIN queue = {}
  BY <1>2
<1>4. PoolSize \in Nat /\ QueueLength \in Nat /\ 0 \in 0..DroppedMax
  BY AcquisitionConstants
<1>5. /\ Len(pool) <= PoolSize /\ Len(queue) <= QueueLength
  BY <1>1, <1>2, <1>4, AcquisitionConstants
<1>6. /\ dropped \in 0..DroppedMax /\ lost_events \in Nat /\ received \in Nat
      /\ handled \in Nat /\ scanning \in BOOLEAN /\ stopped \in BOOLEAN
      /\ callback = "idle" /\ thread = "waiting" /\ in_hand = NoReport
      /\ app = "startup"
  BY <1>4 DEF Init
<1> QED
  BY <1>1, <1>2, <1>3, <1>5, <1>6 DEF TypeOK

(* Every variable keeps its type, and neither the pool nor the event queue  *)
(* ever holds more than its capacity.                                      *)
THEOREM TypeCorrect == Spec => []TypeOK
<1>1. Init => TypeOK
  BY InitialTypes
<1>2. TypeOK /\ [Next]_vars => TypeOK'
  BY TypeStep
<1> QED
  BY <1>1, <1>2, PTL DEF Spec

-----------------------------------------------------------------------------
(* The commands stay unique and ordered: the application sends each once,   *)
(* and the queue is first in, first out.                                   *)
LEMMA CommandsStep ==
  ASSUME TypeOK, CommandsOnce, CommandsInOrder, StopIsFinal, [Next]_vars
  PROVE  CommandsOnce' /\ CommandsInOrder' /\ StopIsFinal'
<1> USE DEF Event
<1>1. CASE SendStartScan
  <2>1. ~Queued("START_SCAN") /\ ~Queued("STOP_SCAN") /\ ~stopped
    BY <1>1 DEF SendStartScan, NotStarted, CommandsInOrder, TypeOK
  <2>2. Post("START_SCAN") /\ app' = "running" /\ stopped' = stopped
    BY <1>1 DEF SendStartScan
  <2>3. CommandsOnce'
    BY <2>1, <2>2, PostEffect DEF CommandsOnce, Queued
  <2>4. CommandsInOrder'
    BY <2>1, <2>2, PostEffect DEF CommandsInOrder, Queued
  <2> QED
    BY <2>1, <2>2, <2>3, <2>4 DEF StopIsFinal
<1>2. CASE SendStopScan
  <2>1. ~Queued("STOP_SCAN") /\ ~stopped
    BY <1>2 DEF SendStopScan, CommandsInOrder, TypeOK
  <2>2. Post("STOP_SCAN") /\ app' = "halted" /\ stopped' = stopped
    BY <1>2 DEF SendStopScan
  <2>3. CommandsOnce'
    BY <2>1, <2>2, PostEffect DEF CommandsOnce, Queued
  <2>4. CommandsInOrder'
    BY <2>1, <2>2, PostEffect DEF CommandsInOrder, Queued, TypeOK
  <2> QED
    BY <2>1, <2>2, <2>3, <2>4 DEF StopIsFinal
<1>3. CASE PostAvailable
  <2>1. /\ Post("ADV_REPORT_AVAILABLE")
        /\ app' = app /\ stopped' = stopped /\ scanning' = scanning
    BY <1>3 DEF PostAvailable
  <2>2. \A e \in {"START_SCAN", "STOP_SCAN"} : Queued(e)' <=> Queued(e)
    BY <2>1, PostEffect DEF Queued
  <2>3. CommandsOnce'
    BY <2>1, PostEffect DEF CommandsOnce
  <2>4. CommandsInOrder'
    BY <2>1, <2>2, PostEffect DEF CommandsInOrder
  <2> QED
    BY <2>1, <2>2, <2>3, <2>4 DEF StopIsFinal
<1>4. ASSUME NEW e \in Event, Take(e), app' = app,
             e = "STOP_SCAN" \/ stopped' = stopped
      PROVE  CommandsOnce' /\ CommandsInOrder'
  <2>1. CommandsOnce'
    BY <1>4, TakeEffect DEF CommandsOnce, TypeOK
  <2>2. \A c \in Event : Queued(c)' => Queued(c)
    BY <1>4, TakeEffect DEF Queued
  <2>3. \A i, j \in DOMAIN queue' :
          queue'[i] = "STOP_SCAN" /\ queue'[j] = "START_SCAN" => j < i
    BY <1>4, TakeEffect DEF CommandsInOrder, TypeOK
  <2>4. e = "STOP_SCAN" => ~Queued("STOP_SCAN")' /\ app = "halted"
    BY <1>4, TakeEffect DEF Queued, CommandsOnce, CommandsInOrder, TypeOK
  <2> QED
    BY <1>4, <2>1, <2>2, <2>3, <2>4 DEF CommandsInOrder
<1>5. CASE StartScan
  <2>1. Take("START_SCAN") /\ app' = app /\ stopped' = stopped
    BY <1>5 DEF StartScan
  <2>2. Queued("START_SCAN")
    BY <2>1, TakeEffect DEF Queued
  <2>3. ~stopped
    BY <2>2 DEF StopIsFinal
  <2> QED
    BY <1>4, <2>1, <2>3 DEF StopIsFinal
<1>6. CASE StopScan
  <2>1. Take("STOP_SCAN") /\ app' = app /\ stopped' = ~scanning'
    BY <1>6 DEF StopScan
  <2>2. \A j \in DOMAIN queue : queue[j] # "START_SCAN"
    BY <2>1, TakeEffect DEF CommandsInOrder, TypeOK
  <2>3. ~Queued("START_SCAN")'
    BY <2>1, <2>2, TakeEffect DEF Queued
  <2> QED
    BY <1>4, <2>1, <2>3 DEF StopIsFinal
<1>7. CASE BeginDrain
  <2>1. /\ Take("ADV_REPORT_AVAILABLE")
        /\ app' = app /\ stopped' = stopped /\ scanning' = scanning
    BY <1>7 DEF BeginDrain
  <2>2. Queued("START_SCAN")' => Queued("START_SCAN")
    BY <2>1, TakeEffect DEF Queued
  <2> QED
    BY <1>4, <2>1, <2>2 DEF StopIsFinal
<1>8. CASE (\E ours \in BOOLEAN : PutReport(ours)) \/ TryGet \/ Record \/ EndDrain
           \/ UNCHANGED vars
  <2>1. /\ queue' = queue /\ app' = app /\ stopped' = stopped
        /\ scanning' = scanning
    BY <1>8 DEF PutReport, TryGet, Record, EndDrain, vars
  <2> QED
    BY <2>1 DEF CommandsOnce, CommandsInOrder, StopIsFinal, Queued
<1> QED
  BY <1>1, <1>2, <1>3, <1>5, <1>6, <1>7, <1>8 DEF Next, Thread

(* The wakeup: a post to a full queue is the case that needs FullQueueWakes; *)
(* taking the last wakeup starts the drain that answers it.                *)
LEMMA WakeupStep ==
  ASSUME WakeupInv, [Next]_vars
  PROVE  NoLostWakeup'
<1> USE DEF WakeupInv, Event
<1>1. CASE SendStartScan \/ SendStopScan
  <2>1. Post("START_SCAN") \/ Post("STOP_SCAN")
    BY <1>1 DEF SendStartScan, SendStopScan
  <2>2. Queued("ADV_REPORT_AVAILABLE") => Queued("ADV_REPORT_AVAILABLE")'
    BY <2>1, PostEffect DEF Queued
  <2> QED
    BY <1>1, <2>2 DEF SendStartScan, SendStopScan, NoLostWakeup
<1>2. CASE PostAvailable
  <2>1. Post("ADV_REPORT_AVAILABLE")
    BY <1>2 DEF PostAvailable
  <2>2. Queued("ADV_REPORT_AVAILABLE")'
    <3>1. CASE Len(queue) < QueueLength
      BY <2>1, <3>1, PostEffect
    <3>2. CASE ~(Len(queue) < QueueLength)
      <4>1. Queued("ADV_REPORT_AVAILABLE")
        BY <3>2, FullQueueWakes, AcquisitionConstants DEF TypeOK
      <4> QED
        BY <2>1, <4>1, PostEffect DEF Queued
    <3> QED
      BY <3>1, <3>2
  <2> QED
    BY <2>2 DEF NoLostWakeup
<1>3. ASSUME NEW e \in {"START_SCAN", "STOP_SCAN"}, Take(e),
             pool' = pool, thread' = thread, callback' = callback
      PROVE  NoLostWakeup'
  <2>1. Queued("ADV_REPORT_AVAILABLE") => Queued("ADV_REPORT_AVAILABLE")'
    BY <1>3, TakeEffect DEF Queued
  <2> QED
    BY <1>3, <2>1 DEF NoLostWakeup
<1>4. CASE StartScan \/ StopScan
  BY <1>3, <1>4 DEF StartScan, StopScan
<1>5. CASE BeginDrain
  BY <1>5 DEF BeginDrain, NoLostWakeup
<1>6. ASSUME NEW ours \in BOOLEAN, PutReport(ours)
      PROVE  NoLostWakeup'
  BY <1>6 DEF PutReport, NoLostWakeup, Queued
<1>7. CASE TryGet \/ Record
  BY <1>7 DEF TryGet, Record, NoLostWakeup
<1>8. CASE EndDrain
  BY <1>8 DEF EndDrain, DrainOver, NoLostWakeup
<1>9. CASE UNCHANGED vars
  BY <1>9 DEF vars, NoLostWakeup, Queued
<1> QED
  BY <1>1, <1>2, <1>4, <1>5, <1>6, <1>7, <1>8, <1>9 DEF Next, Thread

LEMMA WakeupInvariant == Spec => []WakeupInv
<1>1. Init => WakeupInv
  BY InitialTypes
  DEF Init, WakeupInv, CommandsOnce, CommandsInOrder, StopIsFinal, NoLostWakeup,
      Queued
<1>2. WakeupInv /\ [Next]_vars => WakeupInv'
  BY TypeStep, CommandsStep, WakeupStep DEF WakeupInv
<1> QED
  BY <1>1, <1>2, PTL DEF Spec

(* However bursts, drains and dropped wakeups interleave, a report in the   *)
(* pool is always seen to: the queue of 20 never has to be long enough.    *)
THEOREM WakeupNeverLost == Spec => []NoLostWakeup
<1>1. WakeupInv => NoLostWakeup
  BY DEF WakeupInv
<1> QED
  BY <1>1, WakeupInvariant, PTL

(* After a STOP_SCAN that the controller accepted, scanning stays off. *)
THEOREM ScanStaysStopped == Spec => []StopIsFinal
<1>1. WakeupInv => StopIsFinal
  BY DEF WakeupInv
<1> QED
  BY <1>1, WakeupInvariant, PTL

-----------------------------------------------------------------------------
LEMMA CountingStep ==
  ASSUME TypeOK, LostCounted, [Next]_vars
  PROVE  LostCounted'
<1>1. ASSUME NEW ours \in BOOLEAN, PutReport(ours)
      PROVE  LostCounted'
  <2>1. CASE Len(pool) < PoolSize /\ dropped' = dropped
             /\ pool' = Append(pool, [number |-> received + 1, ours |-> ours])
    <3>1. Len(pool') = Len(pool) + 1
      BY <2>1 DEF TypeOK
    <3>2. LostReports' = LostReports
      BY <1>1, <3>1 DEF PutReport, LostReports, TypeOK
    <3> QED
      BY <2>1, <3>2 DEF LostCounted
  <2>2. CASE dropped' = SaturatingIncrement(dropped) /\ pool' = pool
    <3>1. LostReports' = LostReports + 1
      BY <1>1, <2>2 DEF PutReport, LostReports, TypeOK
    <3> QED
      BY <2>2, <3>1, AcquisitionConstants DEF LostCounted, SaturatingIncrement
  <2> QED
    BY <1>1, <2>1, <2>2 DEF PutReport
<1>2. CASE TryGet
  <2>1. Len(pool') = Len(pool) - 1 /\ in_hand = NoReport /\ received' = received
        /\ Head(pool) \in Report
    BY <1>2 DEF TryGet, DrainOver, TypeOK
  <2>2. \/ in_hand' \in Nat /\ handled' = handled
        \/ in_hand' = in_hand /\ handled' = handled + 1
    BY <1>2, <2>1 DEF TryGet, Report
  <2>3. LostReports' = LostReports
    BY <2>1, <2>2, AcquisitionConstants DEF LostReports, TypeOK
  <2> QED
    BY <1>2, <2>3 DEF TryGet, LostCounted
<1>3. CASE Record
  <2>1. LostReports' = LostReports
    BY <1>3 DEF Record, LostReports, TypeOK
  <2> QED
    BY <1>3, <2>1 DEF Record, LostCounted
<1>4. CASE SendStartScan \/ SendStopScan \/ PostAvailable \/ StartScan
           \/ StopScan \/ BeginDrain \/ EndDrain \/ UNCHANGED vars
  <2>1. UNCHANGED <<pool, in_hand, received, handled, dropped>>
    BY <1>4 DEF SendStartScan, SendStopScan, PostAvailable, StartScan, StopScan,
                BeginDrain, EndDrain, vars
  <2> QED
    BY <2>1 DEF LostCounted, LostReports
<1> QED
  BY <1>1, <1>2, <1>3, <1>4 DEF Next, Thread

(* The dropped-report counter is exact up to its limit, whatever the limit. *)
THEOREM DropsCounted == Spec => []DropsAccountedFor
<1>1. Init => LostCounted
  <2> SUFFICES ASSUME Init PROVE LostCounted
    OBVIOUS
  <2>1. Len(pool) = 0 /\ received = 0 /\ handled = 0 /\ dropped = 0
        /\ in_hand = NoReport
    BY InitialTypes DEF Init
  <2>2. LostReports = 0
    BY <2>1 DEF LostReports
  <2> QED
    BY <2>1, <2>2, AcquisitionConstants DEF LostCounted
<1>2. TypeOK /\ LostCounted /\ [Next]_vars => LostCounted'
  BY CountingStep
<1>3. LostCounted => DropsAccountedFor
  BY DEF LostCounted, LostReports, DropsAccountedFor
<1> QED
  BY <1>1, <1>2, <1>3, TypeCorrect, PTL DEF Spec

-----------------------------------------------------------------------------
(***************************************************************************)
(* The parser, for every payload that fits, every frame size and every      *)
(* company.                                                                *)
(***************************************************************************)

(* Where the walk has come to: it passed whole elements of no interest, it   *)
(* is on every layout that ends in a frame of ours, and its verdict is about *)
(* the element it stands at.                                               *)
OnEveryLayout ==
  \A last \in 0..data_length : \A starts \in SUBSET (0..last) :
    Frame(last) /\ LaidOut(starts, last) => offset \in starts
WalkInv ==
  /\ ParserTypeOK
  /\ ReadsWhatWasReceived
  /\ \E starts \in SUBSET (0..offset) : LaidOut(starts, offset)
  /\ OnEveryLayout
  /\ verdict = "ours" => Frame(offset)
  /\ verdict = "foreign" => ~Frame(offset) /\ ~AnotherElement(offset)

(* Company ids are compared byte by byte or as a whole. *)
LEMMA CompanyBytes ==
  ASSUME NEW low \in 0..255, NEW high \in 0..255
  PROVE  low + 256 * high = Company
         <=> low = Company % 256 /\ high = Company \div 256
BY ParserConstants

LEMMA ReceivedByte ==
  ASSUME ParserTypeOK, NEW p \in Nat, p < data_length
  PROVE  data[p] \in 0..255
<1>1. p \in 0..(MaxData - 1)
  BY ParserConstants DEF ParserTypeOK
<1>2. Byte \cup {0} \subseteq 0..255
  BY ParserConstants
<1>3. data[p] \in Byte \cup {0}
  BY <1>1 DEF ParserTypeOK
<1>4. QED
  BY <1>2, <1>3

LEMMA WalkInit == ParserInit => WalkInv
<1> SUFFICES ASSUME ParserInit
             PROVE  WalkInv
  OBVIOUS
<1>1. ParserTypeOK
  <2>1. PICK received_bytes \in [0..(data_length - 1) -> Byte] :
          data = [i \in 0..(MaxData - 1) |->
                    IF i < data_length THEN received_bytes[i] ELSE 0]
    BY DEF ParserInit
  <2>2. data \in [0..(MaxData - 1) -> Byte \cup {0}]
    BY <2>1, ParserConstants DEF ParserInit
  <2>3. data_length \in 0..MaxData /\ data_length \in Nat
    BY ParserConstants DEF ParserInit
  <2>4. QED
    BY <2>2, <2>3 DEF ParserInit, ParserTypeOK
<1>2. ReadsWhatWasReceived
  BY <1>1, ParserConstants DEF ParserInit, ParserTypeOK, ReadsWhatWasReceived
<1>3. {0} \in SUBSET (0..offset) /\ LaidOut({0}, offset)
  BY DEF ParserInit, LaidOut
<1>4. OnEveryLayout
  BY DEF ParserInit, OnEveryLayout, LaidOut
<1>5. QED
  BY <1>1, <1>2, <1>3, <1>4 DEF ParserInit, WalkInv

(* The two ways to say what an element is. *)
LEMMA WhatTheWalkSees ==
  ASSUME WalkInv
  PROVE  /\ ~HasElement(offset) => ~Lies(offset, 2)
         /\ HasElement(offset) =>
              /\ AnotherElement(offset)
                 <=> Whole(offset) /\ data[offset + 1] # Manufacturer
              /\ Frame(offset)
                 <=> /\ Whole(offset) /\ data[offset + 1] = Manufacturer
                     /\ HasFrameSize(offset) /\ IsOurs(offset)
<1>1. offset \in Nat /\ data_length \in Nat
  BY ParserConstants DEF WalkInv, ParserTypeOK
<1>2. ~HasElement(offset) => ~Lies(offset, 2)
  BY <1>1 DEF HasElement, Lies
<1>3. ASSUME HasElement(offset)
      PROVE  /\ AnotherElement(offset)
                <=> Whole(offset) /\ data[offset + 1] # Manufacturer
             /\ Frame(offset)
                <=> /\ Whole(offset) /\ data[offset + 1] = Manufacturer
                    /\ HasFrameSize(offset) /\ IsOurs(offset)
  <2>1. data[offset] \in 0..255
    BY <1>1, <1>3, ReceivedByte DEF HasElement, WalkInv
  <2>2. AnotherElement(offset)
        <=> Whole(offset) /\ data[offset + 1] # Manufacturer
    BY <1>1, <1>3, <2>1 DEF HasElement, AnotherElement, Lies, Whole, ClaimsMore, After
  <2>3. Lies(offset, 2 + FrameSize) /\ data[offset] = 1 + FrameSize
        <=> Whole(offset) /\ HasFrameSize(offset)
    <3>1. FrameSize \in Nat /\ FrameSize >= 2
      BY ParserConstants
    <3>2. QED
      BY <1>1, <1>3, <2>1, <3>1
         DEF HasElement, Lies, Whole, ClaimsMore, After, HasFrameSize
  <2>4. ASSUME Lies(offset, 2 + FrameSize)
        PROVE  IsOurs(offset) <=> /\ data[offset + 2] = Company % 256
                                  /\ data[offset + 3] = Company \div 256
    <3>1. /\ offset + 2 \in Nat /\ offset + 2 < data_length
          /\ offset + 3 \in Nat /\ offset + 3 < data_length
      BY <1>1, <2>4, ParserConstants DEF Lies
    <3>2. data[offset + 2] \in 0..255 /\ data[offset + 3] \in 0..255
      BY <3>1, ReceivedByte DEF WalkInv
    <3>3. QED
      BY <3>2, CompanyBytes DEF IsOurs, CompanyId
  <2>5. QED
    BY <2>2, <2>3, <2>4 DEF Frame
<1>4. QED
  BY <1>2, <1>3

LEMMA WalkStep == WalkInv /\ [ParserNext]_parserVars => WalkInv'
<1> SUFFICES ASSUME WalkInv, [ParserNext]_parserVars
             PROVE  WalkInv'
  OBVIOUS
<1>1. /\ offset \in Nat /\ data_length \in Nat /\ offset <= data_length
      /\ reach \in Nat /\ reach <= data_length
  BY ParserConstants DEF WalkInv, ParserTypeOK, ReadsWhatWasReceived
<1>2. ASSUME ParserNext, UNCHANGED offset, reach' \in Nat, reach' <= data_length,
             verdict' = "ours" => Frame(offset),
             verdict' = "foreign" => ~Frame(offset) /\ ~AnotherElement(offset),
             verdict' \in {"ours", "foreign"}
      PROVE  WalkInv'
  BY <1>2 DEF ParserNext, WalkInv, ParserTypeOK, ReadsWhatWasReceived, OnEveryLayout,
              LaidOut, Frame, AnotherElement, Lies
<1>3. CASE ParserNext /\ Exhausted
  <2>1. ~Frame(offset) /\ ~AnotherElement(offset)
    BY <1>1, <1>3, ParserConstants DEF Exhausted, HasElement, Frame, AnotherElement, Lies
  <2>2. QED
    BY <1>1, <1>2, <1>3, <2>1 DEF Exhausted, WalkInv, ReadsWhatWasReceived
<1>4. CASE ParserNext /\ Discard
  <2>1. ~Frame(offset) /\ ~AnotherElement(offset)
    BY <1>4, WhatTheWalkSees DEF Discard, Whole
  <2>2. reach' \in Nat /\ reach' <= data_length
    BY <1>1, <1>4 DEF Discard, HasElement, Farthest
  <2>3. QED
    BY <1>2, <1>4, <2>1, <2>2 DEF Discard
<1>5. CASE ParserNext /\ Mismatch
  <2>1. ~Frame(offset) /\ ~AnotherElement(offset)
    BY <1>5, WhatTheWalkSees DEF Mismatch, Whole
  <2>2. reach' \in Nat /\ reach' <= data_length
    BY <1>1, <1>5 DEF Mismatch, Whole, HasElement, Farthest
  <2>3. QED
    BY <1>2, <1>5, <2>1, <2>2 DEF Mismatch
<1>6. CASE ParserNext /\ Copy
  <2>1. /\ verdict' = "ours" => Frame(offset)
        /\ verdict' = "foreign" => ~Frame(offset) /\ ~AnotherElement(offset)
        /\ verdict' \in {"ours", "foreign"}
    BY <1>6, WhatTheWalkSees DEF Copy, Whole
  <2>2. data[offset] \in 0..255
    BY <1>1, <1>6, ReceivedByte DEF Copy, Whole, HasElement, WalkInv
  <2>3. reach' \in Nat /\ reach' <= data_length
    <3>1. offset + 1 + data[offset] <= data_length /\ data[offset] - 1 = FrameSize
      BY <1>1, <1>6, <2>2 DEF Copy, Whole, ClaimsMore, After, HasFrameSize
    <3>2. FrameSize \in Nat
      BY ParserConstants
    <3>3. offset + 2 + FrameSize \in Nat /\ offset + 2 + FrameSize <= data_length
      <4>1. data[offset] = FrameSize + 1
        BY <2>2, <3>1, <3>2
      <4>2. QED
        BY <1>1, <3>1, <3>2, <4>1
    <3>4. reach' \in {reach, offset + 2 + FrameSize}
      BY <1>6 DEF Copy, Farthest
    <3>5. QED
      BY <1>1, <3>3, <3>4
  <2>4. QED
    BY <1>2, <1>6, <2>1, <2>3 DEF Copy
<1>7. CASE ParserNext /\ Skip
  <2>1. data[offset] \in 0..255
    BY <1>1, <1>7, ReceivedByte DEF Skip, Whole, HasElement, WalkInv
  <2>2. AnotherElement(offset)
    BY <1>7, WhatTheWalkSees DEF Skip, Whole
  <2>3. /\ offset' = offset + 1 + data[offset]
        /\ offset' \in 0..data_length /\ offset < offset'
        /\ UNCHANGED <<data, data_length, verdict>> /\ verdict = "open"
    BY <1>1, <1>7, <2>1 DEF ParserNext, Skip, Whole, HasElement, ClaimsMore, After
  <2>4. ParserTypeOK' /\ ReadsWhatWasReceived'
    BY <1>1, <1>7, <2>3 DEF Skip, Whole, HasElement, Farthest, WalkInv, ParserTypeOK,
                            ReadsWhatWasReceived
  <2>5. (\E starts \in SUBSET (0..offset) : LaidOut(starts, offset))'
    <3>1. PICK starts \in SUBSET (0..offset) : LaidOut(starts, offset)
      BY DEF WalkInv
    <3>2. PICK longer \in SUBSET (0..offset') : longer = starts \cup {offset'}
      <4>1. offset' \in Nat
        BY <1>1, <2>3
      <4>2. \A p \in 0..offset : p \in 0..offset'
        BY <1>1, <2>3, <4>1
      <4>3. starts \cup {offset'} \subseteq 0..offset'
        BY <3>1, <4>1, <4>2
      <4>4. QED
        BY <4>3
    <3>3. \A p \in longer \ {offset'} : AnotherElement(p) /\ p + 1 + data[p] \in longer
      BY <2>2, <2>3, <3>1, <3>2 DEF LaidOut
    <3>4. LaidOut(longer, offset)'
      <4>1. 0 \in longer /\ offset' \in longer
        BY <3>1, <3>2 DEF LaidOut
      <4>2. QED
        BY <2>3, <3>3, <4>1 DEF LaidOut, AnotherElement, Lies
    <3>5. QED
      BY <3>2, <3>4
  <2>6. OnEveryLayout'
    <3> SUFFICES ASSUME NEW last \in 0..data_length, NEW starts \in SUBSET (0..last),
                        Frame(last), LaidOut(starts, last)
                 PROVE  offset' \in starts
      BY <2>3 DEF OnEveryLayout, Frame, LaidOut, AnotherElement, Lies
    <3>1. offset \in starts
      BY DEF WalkInv, OnEveryLayout
    <3>2. offset # last
      BY <2>2 DEF Frame, AnotherElement
    <3>3. QED
      BY <2>3, <3>1, <3>2 DEF LaidOut
  <2>7. QED
    BY <2>3, <2>4, <2>5, <2>6 DEF WalkInv
<1>8. CASE UNCHANGED parserVars
  BY <1>8 DEF parserVars, WalkInv, ParserTypeOK, ReadsWhatWasReceived, OnEveryLayout,
              LaidOut, Frame, AnotherElement, Lies
<1>9. QED
  BY <1>3, <1>4, <1>5, <1>6, <1>7, <1>8 DEF ParserNext

LEMMA WalkHolds == ParserSpec => []WalkInv
BY WalkInit, WalkStep, PTL DEF ParserSpec

(* The parser's variables keep their types, and the walk stays in the data.  *)
THEOREM ParserTypes == ParserSpec => []ParserTypeOK
<1>1. WalkInv => ParserTypeOK
  BY DEF WalkInv
<1>2. QED
  BY <1>1, WalkHolds, PTL

(* No length that an advertisement claims leads the parser out of it.        *)
THEOREM ReadsStayInside == ParserSpec => []ReadsWhatWasReceived
<1>1. WalkInv => ReadsWhatWasReceived
  BY DEF WalkInv
<1>2. QED
  BY <1>1, WalkHolds, PTL

(* The parser accepts the advertisements that contain a frame of ours, and   *)
(* no others.                                                              *)
THEOREM AcceptsOurs == ParserSpec => []VerdictIsRight
<1>1. WalkInv => VerdictIsRight
  <2> SUFFICES ASSUME WalkInv, verdict # "open"
               PROVE  verdict = "ours" <=> Ours
    BY DEF VerdictIsRight
  <2>1. CASE verdict = "ours"
    BY <2>1 DEF WalkInv, Ours, ParserTypeOK
  <2>2. CASE verdict = "foreign"
    <3> SUFFICES ASSUME NEW last \in 0..data_length, NEW starts \in SUBSET (0..last),
                        Frame(last), LaidOut(starts, last)
                 PROVE  FALSE
      BY <2>2 DEF Ours
    <3>1. offset \in starts
      BY DEF WalkInv, OnEveryLayout
    <3>2. QED
      BY <2>2, <3>1 DEF WalkInv, LaidOut
  <2>3. QED
    BY <2>1, <2>2 DEF WalkInv, ParserTypeOK
<1>2. QED
  BY <1>1, WalkHolds, PTL

(* No advertisement keeps the thread in the loop: a round that does not      *)
(* return goes on behind where it began, and the walk stays in the data.    *)
THEOREM EveryRoundAdvances ==
  ParserSpec => [][verdict' # "open" \/ offset' > offset]_parserVars
<1>1. WalkInv /\ [ParserNext]_parserVars
      => [verdict' # "open" \/ offset' > offset]_parserVars
  <2> SUFFICES ASSUME WalkInv, ParserNext
               PROVE  verdict' # "open" \/ offset' > offset
    OBVIOUS
  <2>1. CASE Exhausted \/ Discard \/ Mismatch \/ Copy
    BY <2>1 DEF Exhausted, Discard, Mismatch, Copy
  <2>2. CASE Skip
    <3>1. offset \in Nat /\ data_length \in Nat /\ HasElement(offset)
      BY <2>2, ParserConstants DEF WalkInv, ParserTypeOK, Skip, Whole
    <3>2. data[offset] \in 0..255
      BY <3>1, ReceivedByte DEF HasElement, WalkInv
    <3>3. QED
      BY <2>2, <3>1, <3>2 DEF Skip, After
  <2>3. QED
    BY <2>1, <2>2 DEF ParserNext
<1>2. QED
  BY <1>1, WalkHolds, PTL DEF ParserSpec
=============================================================================
