----------------------------- MODULE Acquisition -----------------------------
(***************************************************************************)
(* svc::acquisition: the advertising callback, which runs in the Bluetooth *)
(* receive thread, hands reports to the acquisition thread through a       *)
(* bounded pool and wakes it with an event on a bounded event queue.       *)
(* Neither side ever blocks on the other: a full pool drops the report, a  *)
(* full event queue drops the wakeup.                                      *)
(*                                                                         *)
(* The callback's two calls (pool put, event post) are two steps, and so   *)
(* are the drain loop's (try_get, device_table::upsert).  The application  *)
(* is reduced to the two events it sends here: START_SCAN once, from       *)
(* STARTUP, and STOP_SCAN at most once, from HARD_ERROR.                   *)
(***************************************************************************)
EXTENDS Naturals, Sequences

CONSTANTS
  PoolSize,     (* CONFIG_APP_ADV_REPORT_POOL_SIZE                          *)
  QueueLength,  (* eda::ActiveObject::s_queue_length                        *)
  DroppedMax,   (* UINT16_MAX: the dropped report counter saturates         *)
  NoReport,     (* the drain loop holds no report                           *)
  MaxReports    (* bound of the model: reports the radio delivers           *)

ASSUME AcquisitionConstants ==
  /\ PoolSize \in Nat \ {0}
  /\ QueueLength \in Nat /\ QueueLength >= 3
  /\ DroppedMax \in Nat
  /\ NoReport \notin Nat
  /\ MaxReports \in Nat

VARIABLES
  pool,        (* s_report_pool                                             *)
  queue,       (* the acquisition active object's event queue               *)
  dropped,     (* s_dropped_report_count                                    *)
  lost_events, (* eda::s_dropped_event_count: posts to a full queue         *)
  scanning,    (* hal::ble s_is_scanning                                    *)
  callback,    (* the Bluetooth receive thread, inside on_adv_report()      *)
  thread,      (* the acquisition thread                                    *)
  in_hand,     (* drain_report_pool()'s local report, once accepted         *)
  app,         (* how far the application got: see the two Send actions     *)
  received,    (* history: reports delivered by the radio, numbers them     *)
  handled,     (* history: reports recorded in the table or found foreign   *)
  stopped      (* history: a STOP_SCAN was carried out                      *)

vars == <<pool, queue, dropped, lost_events, scanning, callback, thread,
          in_hand, app, received, handled, stopped>>

Event == {"START_SCAN", "STOP_SCAN", "ADV_REPORT_AVAILABLE"}

(* ours: parse_custom_frame() accepts the payload. *)
Report == [number : Nat, ours : BOOLEAN]

Queued(e) == \E i \in DOMAIN queue : queue[i] = e
InPool(n) == \E i \in DOMAIN pool : pool[i].number = n

(* The counter sticks at its limit instead of reading healthy after a burst. *)
WrappingIncrement(n) == (n + 1) % (DroppedMax + 1)
SaturatingIncrement(n) == IF n < DroppedMax THEN n + 1 ELSE n

(* ActiveObject::post_event(): never waits; a full queue loses the event. *)
Post(e) ==
  IF Len(queue) < QueueLength
  THEN queue' = Append(queue, e) /\ UNCHANGED lost_events
  ELSE lost_events' = lost_events + 1 /\ UNCHANGED queue

-----------------------------------------------------------------------------
(* acquisition::initialize() has registered the callback. *)
Init ==
  /\ pool = <<>>
  /\ queue = <<>>
  /\ dropped = 0
  /\ lost_events = 0
  /\ scanning = FALSE
  /\ callback = "idle"
  /\ thread = "waiting"
  /\ in_hand = NoReport
  /\ app = "startup"
  /\ received = 0
  /\ handled = 0
  /\ stopped = FALSE

(* STARTUP's entry action sends START_SCAN; no other state does. *)
NotRunning == app # "running"
NotStarted == app = "startup"
SendStartScan ==
  /\ NotStarted
  /\ app' = "running"
  /\ Post("START_SCAN")
  /\ UNCHANGED <<pool, dropped, scanning, callback, thread, in_hand, received,
                 handled, stopped>>

(* HARD_ERROR's entry action sends STOP_SCAN; the state is terminal. *)
SendStopScan ==
  /\ app = "running"
  /\ app' = "halted"
  /\ Post("STOP_SCAN")
  /\ UNCHANGED <<pool, dropped, scanning, callback, thread, in_hand, received,
                 handled, stopped>>

-----------------------------------------------------------------------------
(* on_adv_report(), first call: copy the report into the pool or count it. *)
PutReport(ours) ==
  /\ scanning
  /\ callback = "idle"
  /\ received < MaxReports
  /\ received' = received + 1
  /\ \/ /\ Len(pool) < PoolSize
        /\ pool' = Append(pool, [number |-> received + 1, ours |-> ours])
        /\ callback' = "posting"
        /\ UNCHANGED dropped
     \/ /\ Len(pool) = PoolSize
        /\ dropped' = SaturatingIncrement(dropped)
        /\ UNCHANGED <<pool, callback>>
  /\ UNCHANGED <<queue, lost_events, scanning, thread, in_hand, app, handled,
                 stopped>>

(* on_adv_report(), second call: wake the acquisition thread. *)
PostAvailable ==
  /\ callback = "posting"
  /\ callback' = "idle"
  /\ Post("ADV_REPORT_AVAILABLE")
  /\ UNCHANGED <<pool, dropped, scanning, thread, in_hand, app, received,
                 handled, stopped>>

-----------------------------------------------------------------------------
(* ActiveObject::process_events(): take the next event off the queue. *)
Take(e) ==
  /\ thread = "waiting"
  /\ queue # <<>> /\ Head(queue) = e
  /\ queue' = Tail(queue)

(* start_scan() may fail in the controller; the result is discarded. *)
StartScan ==
  /\ Take("START_SCAN")
  /\ scanning' \in {scanning, TRUE}
  /\ UNCHANGED <<pool, dropped, lost_events, callback, thread, in_hand, app,
                 received, handled, stopped>>

(* So may stop_scan(), unless there is nothing to stop. *)
StopScan ==
  /\ Take("STOP_SCAN")
  /\ scanning' \in {scanning, FALSE}
  /\ stopped' = ~scanning'
  /\ UNCHANGED <<pool, dropped, lost_events, callback, thread, in_hand, app,
                 received, handled>>

BeginDrain ==
  /\ Take("ADV_REPORT_AVAILABLE")
  /\ thread' = "draining"
  /\ UNCHANGED <<pool, dropped, lost_events, scanning, callback, in_hand, app,
                 received, handled, stopped>>

(* The loop goes on past a foreign report; only an empty pool ends it. *)
DrainStopsAtForeign == IF pool = <<>> THEN TRUE ELSE ~Head(pool).ours
DrainOver == pool = <<>>

(* try_get() finds a report: one that is not ours is dropped on the floor. *)
TryGet ==
  /\ thread = "draining" /\ in_hand = NoReport
  /\ ~DrainOver
  /\ pool' = Tail(pool)
  /\ \/ /\ Head(pool).ours
        /\ in_hand' = Head(pool).number
        /\ UNCHANGED handled
     \/ /\ ~Head(pool).ours
        /\ handled' = handled + 1
        /\ UNCHANGED in_hand
  /\ UNCHANGED <<queue, dropped, lost_events, scanning, callback, thread, app,
                 received, stopped>>

(* The accepted report goes to device_table::upsert(). *)
Record ==
  /\ thread = "draining" /\ in_hand # NoReport
  /\ handled' = handled + 1
  /\ in_hand' = NoReport
  /\ UNCHANGED <<pool, queue, dropped, lost_events, scanning, callback, thread,
                 app, received, stopped>>

(* try_get() finds the pool empty: back to waiting for an event. *)
EndDrain ==
  /\ thread = "draining" /\ in_hand = NoReport
  /\ DrainOver
  /\ thread' = "waiting"
  /\ UNCHANGED <<pool, queue, dropped, lost_events, scanning, callback, in_hand,
                 app, received, handled, stopped>>

Thread == StartScan \/ StopScan \/ BeginDrain \/ TryGet \/ Record \/ EndDrain

Next ==
  \/ SendStartScan
  \/ SendStopScan
  \/ \E ours \in BOOLEAN : PutReport(ours)
  \/ PostAvailable
  \/ Thread

Spec == Init /\ [][Next]_vars

(* The receive thread outranks every service and the acquisition thread    *)
(* outranks the rest of them, so both keep running while they have work.   *)
(* Nothing is assumed of the radio or of the application.                  *)
FairSpec == Spec /\ WF_vars(PostAvailable) /\ WF_vars(Thread)

-----------------------------------------------------------------------------
(* Every variable holds a value of its type; the thread holds a report only *)
(* inside its drain loop.                                                  *)
TypeOK ==
  /\ pool \in Seq(Report) /\ Len(pool) <= PoolSize
  /\ queue \in Seq(Event) /\ Len(queue) <= QueueLength
  /\ dropped \in 0..DroppedMax
  /\ lost_events \in Nat
  /\ scanning \in BOOLEAN
  /\ callback \in {"idle", "posting"}
  /\ thread \in {"waiting", "draining"}
  /\ in_hand \in Nat \cup {NoReport}
  /\ in_hand # NoReport => thread = "draining"
  /\ app \in {"startup", "running", "halted"}
  /\ received \in Nat
  /\ handled \in Nat
  /\ stopped \in BOOLEAN

(* A report never sits in the pool with nothing left to make the thread     *)
(* look: post_event_from_isr() may drop the wakeup, and drain_report_pool() *)
(* may find the pool empty between the callback's two calls.               *)
NoLostWakeup ==
  pool # <<>> =>
    \/ thread = "draining"
    \/ callback = "posting"
    \/ Queued("ADV_REPORT_AVAILABLE")

(* The dropped-report counter that the uplink header carries is exact until *)
(* it saturates: a report is counted there, or waits in the pool, or is in  *)
(* the thread's hand, or has been handled, and never two of these.         *)
DropsAccountedFor ==
  LET in_flight == Len(pool) + IF in_hand = NoReport THEN 0 ELSE 1
      lost == received - in_flight - handled
  IN  dropped = IF lost < DroppedMax THEN lost ELSE DroppedMax

(* Once STOP_SCAN has been carried out the radio stays off: no START_SCAN   *)
(* is still queued behind it, whatever was dropped in between.             *)
StopIsFinal == stopped => ~scanning /\ ~Queued("START_SCAN")

(* A report that made it into the pool does not stay there, although its    *)
(* wakeup may have been dropped.                                           *)
EveryReportLeavesThePool ==
  \A n \in 1..MaxReports : InPool(n) ~> ~InPool(n)
=============================================================================
