------------------------------- MODULE Control -------------------------------
(***************************************************************************)
(* The control plane: App::initialize() in the main thread, the application *)
(* state machine in the app thread, svc::comms' event handler in the comms  *)
(* thread, and the two timers, joined by two bounded event queues that      *)
(* nobody ever blocks on.                                                   *)
(*                                                                         *)
(* A handler is one action, except for the two that wait for the transport: *)
(* connect() and dispatch() begin and end.  What a dispatch sends is module *)
(* Uplink's; here it is transmitting, and it may end with a broken link.    *)
(***************************************************************************)
EXTENDS Integers, Sequences, FiniteSets

CONSTANTS
  QueueLength,          (* eda::ActiveObject::s_queue_length                *)
  OpenEvents,           (* app events that may be posted from outside; none *)
                        (* in the firmware, where nobody posts them         *)
  Transport,            (* "socket" (Wi-Fi, TCP) or "lora"                  *)
  RetryBase,            (* SOFT_ERROR_RETRY_MS, in units of itself: 1       *)
  RetryMax,             (* SOFT_ERROR_RETRY_MAX_MS in the same units: 30    *)
  MaxSetbacks           (* the history counter of setbacks sticks here      *)

ASSUME ControlConstants ==
  /\ QueueLength \in Nat /\ QueueLength >= 3
  /\ OpenEvents \subseteq
       {"DISPATCH_STARTED", "DISPATCH_FINISHED", "SOFT_ERROR", "HARD_ERROR"}
  /\ Transport \in {"socket", "lora"}
  /\ RetryBase \in Nat \ {0}
  /\ RetryMax \in Nat /\ RetryMax >= RetryBase
  /\ MaxSetbacks \in Nat

VARIABLES
  main,             (* how far App::initialize() has got                    *)
  bring_up,         (* which service, if any, failed to initialize          *)
  posted,           (* the app events that somebody outside posts           *)
  state,            (* the current state of app::StateMachine               *)
  app_queue,        (* the app active object's event queue                  *)
  comms_queue,      (* the comms active object's event queue                *)
  comms,            (* what the comms thread is inside                      *)
  joined,           (* hal::link is_connected()                             *)
  dispatch_enabled, (* s_dispatch_enabled                                   *)
  dispatch_timer,   (* s_dispatch_timer is running                          *)
  retry_timer,      (* the delay s_retry_timer is armed with, 0 if it is not *)
  retry_delay,      (* s_retry_delay_ms                                     *)
  fault,            (* utils::fault's reason                                *)
  lost,             (* history: events send_event() could not deliver       *)
  setbacks          (* history: failures since the last successful join     *)

link == <<comms, joined>>
dispatching == <<dispatch_enabled, dispatch_timer>>
retry == <<retry_timer, retry_delay, setbacks>>
alarms == <<fault, lost>>
boot == <<main, bring_up, posted>>
vars == <<main, bring_up, posted, state, app_queue, comms_queue, comms, joined,
          dispatch_enabled, dispatch_timer, retry_timer, retry_delay, fault,
          lost, setbacks>>

Outcome == {"NETWORK_JOINED", "NETWORK_JOIN_FAILED"}
AppEvent == Outcome \cup OpenEvents
            \cup {"SERVICES_READY", "SERVICES_FAILED", "RETRY_TIMEOUT"}
CommsEvent == {"JOIN_NETWORK", "START_DISPATCH", "STOP_DISPATCH", "DISPATCH_DUE"}

InApp(e) == \E i \in DOMAIN app_queue : app_queue[i] = e
InComms(e) == \E i \in DOMAIN comms_queue : comms_queue[i] = e

Smaller(m, n) == IF m <= n THEN m ELSE n

(* The wait after n setbacks if nothing capped it: RETRY_MS doubled n times. *)
(* The history counter of setbacks goes far enough to reach the cap.         *)
Uncapped[n \in Nat] == IF n = 0 THEN RetryBase ELSE 2 * Uncapped[n - 1]
ASSUME SetbacksReachTheCap == RetryMax <= Uncapped[MaxSetbacks]

(* fault::report(): the first reason stays. *)
Latched(f, reason) == IF f = "NONE" THEN reason ELSE f

(* A send_event() that failed latches a fault.  (On a debug build its        *)
(* ASSERT_CRITICAL also spins for good; the release build is modelled.)     *)
LoseEvent(e, before, reason) ==
  /\ fault' = Latched(before, reason)
  /\ lost' = lost \cup {e}

Deliver(before) == fault' = before /\ UNCHANGED lost

(* initialize() stops at the first failure, and comms registers its port    *)
(* after acquisition has come up.  Diagnostics, the third, cannot fail.     *)
CommsRegistered == bring_up # "acquisition"

(* Port::send_event() to COMMS_PORT; before is the fault reason so far. *)
SendToComms(e, before) ==
  \/ /\ ~CommsRegistered
     /\ LoseEvent(e, before, "PORT_NOT_READY")
     /\ UNCHANGED comms_queue
  \/ /\ CommsRegistered /\ Len(comms_queue) < QueueLength
     /\ comms_queue' = Append(comms_queue, e)
     /\ Deliver(before)
  \/ /\ CommsRegistered /\ Len(comms_queue) = QueueLength
     /\ LoseEvent(e, before, "EVENT_LOST")
     /\ UNCHANGED comms_queue

(* Port::send_event() to APP_PORT, which is registered before any service. *)
SendToApp(e) ==
  \/ /\ Len(app_queue) < QueueLength
     /\ app_queue' = Append(app_queue, e)
     /\ Deliver(fault)
  \/ /\ Len(app_queue) = QueueLength
     /\ LoseEvent(e, fault, "EVENT_LOST")
     /\ UNCHANGED app_queue

(* send_event_from_isr(): a full queue drops the event without a fault. *)
FromIsr(queue, e) == IF Len(queue) < QueueLength THEN Append(queue, e) ELSE queue

-----------------------------------------------------------------------------
(* App::initialize() has brought the services up, or failed to. *)
Init ==
  /\ main = "services_up"
  /\ bring_up \in {"ready", "acquisition", "comms"}
  /\ posted \in {{}, OpenEvents}
  /\ state = "STARTUP"
  /\ app_queue = <<>>
  /\ comms_queue = <<>>
  /\ comms = "waiting"
  /\ joined = FALSE
  /\ dispatch_enabled = FALSE
  /\ dispatch_timer = FALSE
  /\ retry_timer = 0
  /\ retry_delay = RetryBase
  /\ fault = "NONE"
  /\ lost = {}
  /\ setbacks = 0

(* get_state_machine().init(): STARTUP's entry asks for a join.  START_SCAN, *)
(* which it sends first, is module Acquisition's.                          *)
InitStateMachine ==
  /\ main = "services_up"
  /\ main' = "machine_up"
  /\ SendToComms("JOIN_NETWORK", fault)
  /\ UNCHANGED <<bring_up, posted, state, app_queue, link, dispatching, retry>>

(* The outcome of bring-up goes to the application as an event. *)
AnnounceServices ==
  /\ main = "machine_up"
  /\ main' = "done"
  /\ SendToApp(IF bring_up = "ready" THEN "SERVICES_READY" ELSE "SERVICES_FAILED")
  /\ UNCHANGED <<bring_up, posted, state, comms_queue, link, dispatching, retry>>

(* main runs at the top priority and does not wait after the services are   *)
(* up, so no service thread runs until it is done.                         *)
AnyTime == TRUE
MainIsDone == main = "done"

-----------------------------------------------------------------------------
(* The application thread: one action per state and event. *)

AppTakes(e) ==
  /\ MainIsDone
  /\ app_queue # <<>> /\ Head(app_queue) = e
  /\ app_queue' = Tail(app_queue)

(* Doubled after arming; the cap is compared with half of itself. *)
DoubledOnly(delay) == 2 * delay
Doubled(delay) == IF delay > RetryMax \div 2 THEN RetryMax ELSE 2 * delay

ScheduleOnEntryOnly ==
  /\ retry_timer' = IF state = "SOFT_ERROR" THEN 0 ELSE retry_delay
  /\ retry_delay' = Doubled(retry_delay)
  /\ setbacks' = IF setbacks < MaxSetbacks THEN setbacks + 1 ELSE setbacks

ScheduleRetry ==
  /\ retry_timer' = retry_delay
  /\ retry_delay' = Doubled(retry_delay)
  /\ setbacks' = IF setbacks < MaxSetbacks THEN setbacks + 1 ELSE setbacks

(* The exit actions: SOFT_ERROR stops its timer, the others do nothing. *)
StayArmed == retry_timer' = retry_timer
LeaveState == retry_timer' = IF state = "SOFT_ERROR" THEN 0 ELSE retry_timer

EnterListening(delay) ==
  /\ state' = "LISTENING"
  /\ LeaveState
  /\ retry_delay' = delay
  /\ setbacks' = 0
  /\ SendToComms("START_DISPATCH", fault)

(* The join succeeded.  Only SOFT_ERROR puts the delay back: STARTUP has   *)
(* not changed it.                                                         *)
OnJoined ==
  /\ state \in {"STARTUP", "SOFT_ERROR"}
  /\ AppTakes("NETWORK_JOINED")
  /\ EnterListening(IF state = "SOFT_ERROR" THEN RetryBase ELSE retry_delay)
  /\ UNCHANGED <<boot, link, dispatching>>

(* From STARTUP this enters SOFT_ERROR, whose entry action schedules too. *)
OnJoinFailed ==
  /\ state \in {"STARTUP", "SOFT_ERROR"}
  /\ AppTakes("NETWORK_JOIN_FAILED")
  /\ state' = "SOFT_ERROR"
  /\ ScheduleRetry
  /\ UNCHANGED <<boot, comms_queue, link, dispatching, alarms>>

OnRetryTimeout ==
  /\ state = "SOFT_ERROR"
  /\ AppTakes("RETRY_TIMEOUT")
  /\ SendToComms("JOIN_NETWORK", fault)
  /\ UNCHANGED <<boot, state, link, dispatching, retry>>

(* HARD_ERROR's entry action latches its own reason first. *)
EnterHardError ==
  /\ state' = "HARD_ERROR"
  /\ LeaveState
  /\ SendToComms("STOP_DISPATCH", Latched(fault, "UNRECOVERABLE"))
  /\ UNCHANGED <<boot, link, dispatching, retry_delay, setbacks>>

OnServicesFailed ==
  /\ state = "STARTUP"
  /\ AppTakes("SERVICES_FAILED")
  /\ EnterHardError

OnHardError ==
  /\ state \in {"LISTENING", "DISPATCHING", "SOFT_ERROR"}
  /\ AppTakes("HARD_ERROR")
  /\ EnterHardError

OnSoftError ==
  /\ state \in {"LISTENING", "DISPATCHING"}
  /\ AppTakes("SOFT_ERROR")
  /\ state' = "SOFT_ERROR"
  /\ ScheduleRetry
  /\ UNCHANGED <<boot, comms_queue, link, dispatching, alarms>>

OnDispatchStarted ==
  /\ state = "LISTENING"
  /\ AppTakes("DISPATCH_STARTED")
  /\ state' = "DISPATCHING"
  /\ UNCHANGED <<boot, comms_queue, link, dispatching, retry, alarms>>

OnDispatchFinished ==
  /\ state = "DISPATCHING"
  /\ AppTakes("DISPATCH_FINISHED")
  /\ state' = "LISTENING"
  /\ SendToComms("START_DISPATCH", fault)
  /\ UNCHANGED <<boot, link, dispatching, retry>>

Handled ==
  {e \in AppEvent :
     \/ state \in {"STARTUP", "SOFT_ERROR"} /\ e \in Outcome
     \/ state = "STARTUP" /\ e = "SERVICES_FAILED"
     \/ state = "LISTENING" /\ e = "DISPATCH_STARTED"
     \/ state = "DISPATCHING" /\ e = "DISPATCH_FINISHED"
     \/ state \in {"LISTENING", "DISPATCHING"} /\ e = "SOFT_ERROR"
     \/ state \in {"LISTENING", "DISPATCHING", "SOFT_ERROR"} /\ e = "HARD_ERROR"
     \/ state = "SOFT_ERROR" /\ e = "RETRY_TIMEOUT"}

(* Every other event is dropped by the state's default branch. *)
OnOther ==
  /\ \E e \in AppEvent \ Handled : AppTakes(e)
  /\ UNCHANGED <<boot, state, comms_queue, link, dispatching, retry, alarms>>

App ==
  \/ OnJoined \/ OnJoinFailed \/ OnRetryTimeout \/ OnServicesFailed
  \/ OnHardError \/ OnSoftError \/ OnDispatchStarted \/ OnDispatchFinished
  \/ OnOther

-----------------------------------------------------------------------------
(* The comms thread: svc::comms::Port::execute_event(). *)

CommsTakes(e) ==
  /\ MainIsDone
  /\ comms = "waiting"
  /\ comms_queue # <<>> /\ Head(comms_queue) = e
  /\ comms_queue' = Tail(comms_queue)

BeginJoin ==
  /\ CommsTakes("JOIN_NETWORK")
  /\ comms' = "joining"
  /\ UNCHANGED <<boot, state, app_queue, joined, dispatching, retry, alarms>>

DiscardOutcome(e) == UNCHANGED <<app_queue, alarms>>
ReportOutcome(e) == SendToApp(e)

(* A socket that is up stays up; LoRaWAN joins anew whatever it had. *)
AfterConnect == IF Transport = "socket" /\ joined THEN {TRUE} ELSE BOOLEAN

(* A send that fails closes the socket; LoRaWAN stays joined. *)
AfterSending == IF Transport = "socket" THEN BOOLEAN ELSE {joined}

(* connect() returns and the outcome goes back. *)
EndJoin ==
  /\ comms = "joining"
  /\ comms' = "waiting"
  /\ joined' \in AfterConnect
  /\ ReportOutcome(IF joined' THEN "NETWORK_JOINED" ELSE "NETWORK_JOIN_FAILED")
  /\ UNCHANGED <<boot, state, comms_queue, dispatching, retry>>

StartDispatch ==
  /\ CommsTakes("START_DISPATCH")
  /\ dispatch_enabled' = TRUE
  /\ dispatch_timer' = TRUE
  /\ UNCHANGED <<boot, state, app_queue, link, retry, alarms>>

StopDispatch ==
  /\ CommsTakes("STOP_DISPATCH")
  /\ dispatch_enabled' = FALSE
  /\ dispatch_timer' = FALSE
  /\ UNCHANGED <<boot, state, app_queue, link, retry, alarms>>

(* Both tests of a due dispatch: the service's own and dispatch()'s first. *)
WhenJoined == joined
WhenAllowed == dispatch_enabled /\ joined

BeginDispatch ==
  /\ WhenAllowed
  /\ CommsTakes("DISPATCH_DUE")
  /\ comms' = "dispatching"
  /\ UNCHANGED <<boot, state, app_queue, joined, dispatching, retry, alarms>>

SkipDispatch ==
  /\ ~WhenAllowed
  /\ CommsTakes("DISPATCH_DUE")
  /\ UNCHANGED <<boot, state, app_queue, link, dispatching, retry, alarms>>

(* dispatch() returns. *)
EndDispatch ==
  /\ comms = "dispatching"
  /\ comms' = "waiting"
  /\ joined' \in AfterSending
  /\ UNCHANGED <<boot, state, app_queue, comms_queue, dispatching, retry, alarms>>

Comms ==
  \/ BeginJoin \/ EndJoin \/ StartDispatch \/ StopDispatch
  \/ BeginDispatch \/ SkipDispatch \/ EndDispatch

-----------------------------------------------------------------------------
Periodic(delay) == delay
OneShot(delay) == 0

(* on_retry_timer_expired(); the timer is a one-shot. *)
RetryTimerExpires ==
  /\ retry_timer > 0
  /\ retry_timer' = OneShot(retry_timer)
  /\ app_queue' = FromIsr(app_queue, "RETRY_TIMEOUT")
  /\ UNCHANGED <<boot, state, comms_queue, link, dispatching, retry_delay,
                 setbacks, alarms>>

(* As a task would send it: a full queue becomes a latched fault. *)
DispatchTimerSends ==
  /\ dispatch_timer
  /\ SendToComms("DISPATCH_DUE", fault)
  /\ UNCHANGED <<boot, state, app_queue, link, dispatching, retry>>

(* on_dispatch_timer_expired(): periodic, whatever comms is inside. *)
DispatchTimerExpires ==
  /\ dispatch_timer
  /\ comms_queue' = FromIsr(comms_queue, "DISPATCH_DUE")
  /\ UNCHANGED <<boot, state, app_queue, link, dispatching, retry, alarms>>

(* Somebody posts one of the events the state machine handles and the       *)
(* firmware does not send.  Bound: the last one has been dealt with.        *)
PostOpenEvent ==
  /\ MainIsDone
  /\ app_queue = <<>>
  /\ ~InComms("START_DISPATCH") /\ ~InComms("STOP_DISPATCH")
  /\ \E e \in posted : app_queue' = FromIsr(app_queue, e)
  /\ UNCHANGED <<boot, state, comms_queue, link, dispatching, retry, alarms>>

Main == InitStateMachine \/ AnnounceServices

Next ==
  \/ Main \/ App \/ Comms
  \/ RetryTimerExpires \/ DispatchTimerExpires \/ PostOpenEvent

Spec == Init /\ [][Next]_vars

(* Threads that can run do, an armed timer expires, and connect() and send() *)
(* return: every transport bounds them by a timeout.                       *)
FairSpec ==
  /\ Spec
  /\ WF_vars(Main) /\ WF_vars(App) /\ WF_vars(Comms)
  /\ WF_vars(RetryTimerExpires) /\ WF_vars(DispatchTimerExpires)

-----------------------------------------------------------------------------
(* Every variable holds a value of its type, both queues respect their      *)
(* capacity, and the retry delay stays between its base and its cap.       *)
TypeOK ==
  /\ main \in {"services_up", "machine_up", "done"}
  /\ bring_up \in {"ready", "acquisition", "comms"}
  /\ posted \in SUBSET OpenEvents
  /\ state \in {"STARTUP", "LISTENING", "DISPATCHING", "SOFT_ERROR", "HARD_ERROR"}
  /\ app_queue \in Seq(AppEvent) /\ Len(app_queue) <= QueueLength
  /\ comms_queue \in Seq(CommsEvent) /\ Len(comms_queue) <= QueueLength
  /\ comms \in {"waiting", "joining", "dispatching"}
  /\ joined \in BOOLEAN
  /\ dispatch_enabled \in BOOLEAN
  /\ dispatch_timer \in BOOLEAN
  /\ retry_timer \in 0..RetryMax
  /\ retry_delay \in RetryBase..RetryMax
  /\ fault \in {"NONE", "EVENT_LOST", "PORT_NOT_READY", "UNRECOVERABLE"}
  /\ lost \in SUBSET (AppEvent \cup CommsEvent)
  /\ setbacks \in 0..MaxSetbacks

(* Where the one join attempt of a device that is not joined yet can be:    *)
(* waited for, asked for, under way, or decided and not yet heard of.       *)
JoinTokens ==
  (IF retry_timer > 0 THEN {<<"timer", 0>>} ELSE {})
  \cup {<<"app", i>> : i \in {j \in DOMAIN app_queue :
                       app_queue[j] \in Outcome \cup {"RETRY_TIMEOUT"}}}
  \cup {<<"comms", i>> : i \in {j \in DOMAIN comms_queue :
                         comms_queue[j] = "JOIN_NETWORK"}}
  \cup (IF comms = "joining" THEN {<<"joining", 0>>} ELSE {})

(* As long as no event was lost, a device that is trying to join has exactly *)
(* one attempt going (none, and it is stuck in STARTUP or SOFT_ERROR for     *)
(* good; two, and the backoff doubles twice per failure), and a device that  *)
(* has joined has none that could still move it.                            *)
OneJoinOutstanding ==
  main # "services_up" /\ lost = {} =>
    /\ state \in {"STARTUP", "SOFT_ERROR"} => Cardinality(JoinTokens) = 1
    /\ state \in {"LISTENING", "DISPATCHING"} => JoinTokens = {}

(* Once comms has seen HARD_ERROR's STOP_DISPATCH nothing is transmitted any *)
(* more, whatever START_DISPATCH and DISPATCH_DUE were queued around it      *)
(* (comms/subsystem.cpp:73-76).                                             *)
MutedInHardError ==
  state = "HARD_ERROR" /\ ~InComms("STOP_DISPATCH") /\ "STOP_DISPATCH" \notin lost =>
    comms # "dispatching" /\ ~dispatch_timer

(* The wait before the next attempt is RETRY_MS doubled once per setback     *)
(* since the last success, up to the cap, and the timer is armed with the    *)
(* wait that was announced, not with the next one (soft_error.cpp:28-35,     *)
(* 63-66).                                                                  *)
BackoffMatchesSetbacks ==
  /\ retry_delay = Smaller(Uncapped[setbacks], RetryMax)
  /\ retry_timer > 0 =>
       \/ setbacks > 0 /\ retry_timer = Smaller(Uncapped[setbacks - 1], RetryMax)
       \/ setbacks = MaxSetbacks /\ retry_timer = RetryMax

(* The queues are long enough for the firmware: no command and no outcome    *)
(* is ever lost to a full queue.  Only dispatch ticks may be, and they are   *)
(* posted the way that raises no fault.                                     *)
NoCommandLost ==
  posted = {} =>
    /\ fault # "EVENT_LOST"
    /\ lost # {} => bring_up = "acquisition"

(* What of the lifecycle the threads, queues and timers stand for. *)
Phase ==
  CASE state = "HARD_ERROR" -> "halted"
    [] state \in {"LISTENING", "DISPATCHING"} -> "operating"
    [] OTHER -> IF retry_timer # 0 \/ InApp("RETRY_TIMEOUT")
                THEN "backing_off" ELSE "joining"

Answer ==
  IF InApp("NETWORK_JOINED") THEN "joined"
  ELSE IF InApp("NETWORK_JOIN_FAILED") THEN "failed" ELSE "none"

Licence ==
  IF state = "HARD_ERROR" /\ ~InComms("STOP_DISPATCH") /\ "STOP_DISPATCH" \notin lost
  THEN "withdrawn"
  ELSE IF \/ dispatch_enabled \/ InComms("START_DISPATCH")
          \/ "START_DISPATCH" \in lost
       THEN "granted" ELSE "none"

Life == INSTANCE Lifecycle
          WITH phase <- Phase, pause <- retry_timer, delay <- retry_delay,
               radio <- comms, answer <- Answer, licence <- Licence

(* Every step of the threads and timers is one of the lifecycle or none at   *)
(* all: an outcome is acted upon once and by the state it was meant for,     *)
(* each failure costs one wait and each wait leads to one attempt, nothing   *)
(* joins while the device waits or operates, and nothing is sent before the  *)
(* first success or after comms has heard of HARD_ERROR                      *)
(* (startup.cpp:49-75, soft_error.cpp:37-103, comms/subsystem.cpp:55-125).   *)
ImplementsLifecycle == Life!Spec

(* A service that failed to initialize puts the device into HARD_ERROR for   *)
(* good, although a join is already under way when that becomes known.      *)
FailedServicesHalt == bring_up # "ready" ~> [](state = "HARD_ERROR")

(* No number of unreachable networks stops a device from trying again: one   *)
(* in SOFT_ERROR joins sooner or later, or the last attempt's success gets   *)
(* through and it leaves.  Only a lost JOIN_NETWORK could end that, which    *)
(* takes a SOFT_ERROR posted from outside while ticks fill comms' queue.     *)
KeepsTrying ==
  state = "SOFT_ERROR" ~>
    comms = "joining" \/ state # "SOFT_ERROR" \/ "JOIN_NETWORK" \in lost

(* A device that has joined ends up dispatching: the outcome of connect()    *)
(* travels to the application and START_DISPATCH travels back.              *)
JoinedStartsDispatching == joined ~> dispatch_enabled \/ state = "HARD_ERROR"

-----------------------------------------------------------------------------
(* What documents and comments claim and the code does not do.              *)

(* link.md:168-171: after a failed send() "rebuilding the connection is the  *)
(* next connect(), which the state machine's error path already drives".    *)
BrokenLinkIsRebuilt ==
  state = "LISTENING" /\ ~joined ~> comms = "joining" \/ state = "HARD_ERROR"
=============================================================================
