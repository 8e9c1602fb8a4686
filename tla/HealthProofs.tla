----------------------------- MODULE HealthProofs ----------------------------
(***************************************************************************)
(* Proofs about Health, for every queue length, every bound on the beats    *)
(* and every set of events posted from outside.  Health adds a thread to    *)
(* Control without taking steps from it, so what is proved about Control    *)
(* holds beside the diagnostics service too.                                *)
(***************************************************************************)
EXTENDS Health, ControlProofs

(* The control plane does not notice the diagnostics service. *)
LEMMA HealthStepsControl == [HealthNext]_healthVars => [Next]_vars
BY DEF HealthNext, Controlled, HeartbeatExpires, Diagnostics, BeginBeat,
       ToggleHeartbeat, Announce, ShowError, ShowActivity, healthVars

THEOREM HealthIsControl == HealthSpec => Spec
<1>1. HealthInit => Init
  BY DEF HealthInit
<1>2. QED
  BY <1>1, HealthStepsControl, PTL DEF HealthSpec, Spec

THEOREM HealthKeepsOneJoin == HealthSpec => []OneJoinOutstanding
BY HealthIsControl, OneJoinAtATime, PTL

THEOREM HealthMutes == HealthSpec => []MutedInHardError
BY HealthIsControl, HardErrorMutes, PTL

-----------------------------------------------------------------------------
ServiceTyped ==
  /\ beats \in 0..MaxBeats
  /\ diagnostics \in {"waiting", "toggle", "announce", "show_error", "show_activity"}
  /\ announced \in BOOLEAN /\ blink_on \in BOOLEAN
LedsTyped == heartbeat_led \in BOOLEAN /\ activity_led \in BOOLEAN /\ error_led \in BOOLEAN

LEMMA ServiceInit == HealthInit => ServiceTyped /\ LedsTyped
<1>1. 0 \in 0..MaxBeats
  BY HealthConstants, ControlConstants
<1>2. QED
  BY <1>1 DEF HealthInit, ServiceTyped, LedsTyped

LEMMA ServiceStep ==
  ServiceTyped /\ LedsTyped /\ [HealthNext]_healthVars => ServiceTyped' /\ LedsTyped'
<1> SUFFICES ASSUME ServiceTyped, LedsTyped, [HealthNext]_healthVars
             PROVE  ServiceTyped' /\ LedsTyped'
  OBVIOUS
<1>1. CASE Controlled
  BY <1>1 DEF Controlled, service, ErrorLedFollows, ServiceTyped, LedsTyped
<1>2. CASE HeartbeatExpires
  BY <1>2, HealthConstants, ControlConstants
     DEF HeartbeatExpires, RoomForBeat, annunciation, leds, ServiceTyped, LedsTyped
<1>3. CASE BeginBeat
  BY <1>3, HealthConstants, ControlConstants
     DEF BeginBeat, annunciation, leds, ServiceTyped, LedsTyped
<1>4. CASE ToggleHeartbeat
  BY <1>4 DEF ToggleHeartbeat, Toggled, annunciation, ServiceTyped, LedsTyped
<1>5. CASE Announce
  BY <1>5 DEF Announce, ServiceTyped, LedsTyped
<1>6. CASE ShowError
  BY <1>6 DEF ShowError, Shown, annunciation, ServiceTyped, LedsTyped
<1>7. CASE ShowActivity
  BY <1>7 DEF ShowActivity, Shown, annunciation, ServiceTyped, LedsTyped
<1>8. CASE UNCHANGED healthVars
  BY <1>8 DEF healthVars, ServiceTyped, LedsTyped
<1>9. QED
  BY <1>1, <1>2, <1>3, <1>4, <1>5, <1>6, <1>7, <1>8 DEF HealthNext, Diagnostics

(* The service keeps its types beside those of the control plane. *)
THEOREM HealthTypes == HealthSpec => []HealthTypeOK
<1>1. TypeOK /\ ServiceTyped /\ LedsTyped => HealthTypeOK
  BY DEF HealthTypeOK, ServiceTyped, LedsTyped
<1>2. HealthSpec => []TypeOK
  BY HealthIsControl, ControlTypes, PTL
<1>3. HealthSpec => [](ServiceTyped /\ LedsTyped)
  BY ServiceInit, ServiceStep, PTL DEF HealthSpec
<1>4. QED
  BY <1>1, <1>2, <1>3, PTL

-----------------------------------------------------------------------------
(* What a step of the control plane does to what the service looks at. *)

(* The latch keeps the first reason it is given. *)
LEMMA FaultStays ==
  ASSUME [Next]_vars
  PROVE  fault # "NONE" => fault' # "NONE"
<1> USE DEF Deliver, LoseEvent, Latched, SendToComms, SendToApp
<1>1. CASE Main
  BY <1>1 DEF Main, InitStateMachine, AnnounceServices
<1>2. CASE OnJoined \/ OnRetryTimeout \/ OnDispatchFinished
  BY <1>2 DEF OnJoined, EnterListening, OnRetryTimeout, OnDispatchFinished
<1>3. CASE OnServicesFailed \/ OnHardError
  BY <1>3 DEF OnServicesFailed, OnHardError, EnterHardError
<1>4. CASE EndJoin
  BY <1>4 DEF EndJoin, ReportOutcome
<1>5. CASE \/ OnJoinFailed \/ OnSoftError \/ OnDispatchStarted \/ OnOther
           \/ BeginJoin \/ StartDispatch \/ StopDispatch
           \/ BeginDispatch \/ SkipDispatch \/ EndDispatch
           \/ RetryTimerExpires \/ DispatchTimerExpires \/ PostOpenEvent
           \/ UNCHANGED vars
  <2>1. UNCHANGED fault
    BY <1>5 DEF OnJoinFailed, OnSoftError, OnDispatchStarted, OnOther, BeginJoin,
                StartDispatch, StopDispatch, BeginDispatch, SkipDispatch, EndDispatch,
                RetryTimerExpires, DispatchTimerExpires, PostOpenEvent, alarms, vars
  <2>2. QED
    BY <2>1
<1>6. QED
  BY <1>1, <1>2, <1>3, <1>4, <1>5 DEF Next, App, Comms

(* HARD_ERROR is left for nothing, and entered only with a reason. *)
LEMMA HardErrorStays ==
  ASSUME [Next]_vars
  PROVE  /\ state = "HARD_ERROR" => state' = "HARD_ERROR"
         /\ state # "HARD_ERROR" /\ state' = "HARD_ERROR" => fault' # "NONE"
<1>1. CASE OnServicesFailed \/ OnHardError
  BY <1>1 DEF OnServicesFailed, OnHardError, EnterHardError, SendToComms, Deliver,
              LoseEvent, Latched
<1>2. CASE \/ OnJoined \/ OnJoinFailed \/ OnSoftError \/ OnDispatchStarted
           \/ OnDispatchFinished
  BY <1>2 DEF OnJoined, EnterListening, OnJoinFailed, OnSoftError, OnDispatchStarted,
              OnDispatchFinished
<1>3. CASE \/ Main \/ OnRetryTimeout \/ OnOther \/ Comms
           \/ RetryTimerExpires \/ DispatchTimerExpires \/ PostOpenEvent
           \/ UNCHANGED vars
  <2>1. UNCHANGED state
    BY <1>3 DEF Main, InitStateMachine, AnnounceServices, OnRetryTimeout, OnOther,
                Comms, BeginJoin, EndJoin, StartDispatch, StopDispatch, BeginDispatch,
                SkipDispatch, EndDispatch, RetryTimerExpires, DispatchTimerExpires,
                PostOpenEvent, vars
  <2>2. QED
    BY <2>1
<1>4. QED
  BY <1>1, <1>2, <1>3 DEF Next, App

-----------------------------------------------------------------------------
(* A beat that was begun for a fault still has one to show, and HARD_ERROR   *)
(* has one from the step that enters it.                                    *)
Reason ==
  /\ diagnostics \in {"announce", "show_error", "show_activity"} => fault # "NONE"
  /\ state = "HARD_ERROR" => fault # "NONE"

TruthInv == Reason /\ LedsTellTheTruth

LEMMA TruthInit == HealthInit => TruthInv
BY DEF HealthInit, Init, TruthInv, Reason, LedsTellTheTruth

LEMMA TruthStep == LedsTyped /\ TruthInv /\ [HealthNext]_healthVars => TruthInv'
<1> SUFFICES ASSUME LedsTyped, TruthInv, [HealthNext]_healthVars
             PROVE  TruthInv'
  OBVIOUS
<1>1. fault # "NONE" => fault' # "NONE"
  BY HealthStepsControl, FaultStays
<1>2. /\ state = "HARD_ERROR" => state' = "HARD_ERROR"
      /\ state # "HARD_ERROR" /\ state' = "HARD_ERROR" => fault' # "NONE"
  BY HealthStepsControl, HardErrorStays
<1>3. CASE Controlled
  <2>1. Reason'
    BY <1>1, <1>2, <1>3 DEF Controlled, service, TruthInv, Reason
  <2>2. LedsTellTheTruth'
    BY <1>1, <1>3 DEF Controlled, service, ErrorLedFollows, TruthInv,
                      LedsTellTheTruth, LedsTyped
  <2>3. QED
    BY <2>1, <2>2 DEF TruthInv
<1>4. CASE HeartbeatExpires \/ UNCHANGED healthVars
  BY <1>4 DEF HeartbeatExpires, leds, vars, healthVars, TruthInv, Reason,
              LedsTellTheTruth
<1>5. CASE BeginBeat
  BY <1>5 DEF BeginBeat, FaultActive, leds, vars, TruthInv, Reason, LedsTellTheTruth
<1>6. CASE ToggleHeartbeat
  BY <1>6 DEF ToggleHeartbeat, vars, TruthInv, Reason, LedsTellTheTruth
<1>7. CASE Announce \/ ShowError \/ ShowActivity
  BY <1>7 DEF Announce, ShowError, ShowActivity, vars, TruthInv, Reason,
              LedsTellTheTruth
<1>8. QED
  BY <1>3, <1>4, <1>5, <1>6, <1>7 DEF HealthNext, Diagnostics

(* Without a fault the lights say what the state machine says. *)
THEOREM HealthyLedsAreTrue == HealthSpec => []LedsTellTheTruth
<1>1. TruthInv => LedsTellTheTruth
  BY DEF TruthInv
<1>2. HealthSpec => [](ServiceTyped /\ LedsTyped /\ TruthInv)
  BY ServiceInit, ServiceStep, TruthInit, TruthStep, PTL DEF HealthSpec
<1>3. QED
  BY <1>1, <1>2, PTL

-----------------------------------------------------------------------------
(* In step, also in the middle of a blink: what was written already agrees   *)
(* with what the rest of the beat is going to write.                        *)
Blinking ==
  /\ state = "HARD_ERROR"
  /\ ~heartbeat_led
  /\ \/ diagnostics \in {"waiting", "announce"} /\ error_led = activity_led
     \/ diagnostics = "show_error"
     \/ diagnostics = "show_activity" /\ error_led = blink_on

LEMMA BlinkingStep ==
  TruthInv /\ Blinking /\ [HealthNext]_healthVars => Blinking'
<1> SUFFICES ASSUME TruthInv, Blinking, [HealthNext]_healthVars
             PROVE  Blinking'
  OBVIOUS
<1>1. state' = "HARD_ERROR"
  BY HealthStepsControl, HardErrorStays DEF Blinking
<1>2. CASE Controlled
  BY <1>1, <1>2 DEF Controlled, service, ErrorLedFollows, Blinking
<1>3. CASE HeartbeatExpires \/ UNCHANGED healthVars
  BY <1>1, <1>3 DEF HeartbeatExpires, annunciation, leds, healthVars, Blinking
<1>4. CASE BeginBeat
  BY <1>1, <1>4 DEF BeginBeat, FaultActive, annunciation, leds, TruthInv, Reason,
                    Blinking
<1>5. CASE ToggleHeartbeat
  BY <1>5 DEF ToggleHeartbeat, Blinking
<1>6. CASE Announce
  BY <1>1, <1>6 DEF Announce, Blinking
<1>7. CASE ShowError
  BY <1>1, <1>7 DEF ShowError, Shown, annunciation, Blinking
<1>8. CASE ShowActivity
  BY <1>1, <1>8 DEF ShowActivity, Shown, annunciation, Blinking
<1>9. QED
  BY <1>2, <1>3, <1>4, <1>5, <1>6, <1>7, <1>8 DEF HealthNext, Diagnostics

(* Lights that are in step in HARD_ERROR stay in step. *)
THEOREM StepIsKept == HealthSpec => BlinkStaysInStep
<1> DEFINE Begun == state = "HARD_ERROR" /\ diagnostics = "waiting" /\ InStep
         Seen == diagnostics = "waiting" => InStep
<1>1. Begun => Blinking
  BY DEF InStep, Blinking
<1>2. Blinking => Seen
  BY DEF InStep, Blinking
<1>3. HealthSpec => [](ServiceTyped /\ LedsTyped /\ TruthInv)
  BY ServiceInit, ServiceStep, TruthInit, TruthStep, PTL DEF HealthSpec
<1> HIDE DEF Begun, Seen
<1>4. HealthSpec => [](Begun => []Seen)
  BY <1>1, <1>2, <1>3, BlinkingStep, PTL DEF HealthSpec
<1>5. QED
  BY <1>4 DEF BlinkStaysInStep, Begun, Seen
=============================================================================
