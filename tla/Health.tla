------------------------------- MODULE Health -------------------------------
(***************************************************************************)
(* svc::system_diagnostics beside the control plane: a thread below all     *)
(* others that looks at the fault latch on every heartbeat and drives the   *)
(* three LEDs, one of which, ERROR, the application drives too.            *)
(*                                                                         *)
(* The application preempts this thread between any two of its LED writes,  *)
(* so each write is an action.  The application's own are part of the state *)
(* change they belong to.                                                  *)
(***************************************************************************)
EXTENDS Control

CONSTANT MaxBeats   (* bound: beats waiting in the service's queue           *)

ASSUME HealthConstants == MaxBeats \in 1..QueueLength

VARIABLES
  beats,          (* HEARTBEAT_DUE events in the service's queue             *)
  diagnostics,    (* what the service's thread does next                    *)
  announced,      (* s_fault_announced                                      *)
  blink_on,       (* s_fault_blink_on                                       *)
  heartbeat_led,
  activity_led,
  error_led

leds == <<heartbeat_led, activity_led, error_led>>
annunciation == <<announced, blink_on>>
service == <<beats, diagnostics, announced, blink_on, heartbeat_led, activity_led>>
healthVars == <<vars, beats, diagnostics, announced, blink_on, heartbeat_led,
                activity_led, error_led>>

HealthInit ==
  /\ Init
  /\ beats = 0
  /\ diagnostics = "waiting"
  /\ announced = FALSE
  /\ blink_on = FALSE
  /\ heartbeat_led = FALSE /\ activity_led = FALSE /\ error_led = FALSE

(* App::initialize() reaches system_diagnostics::initialize(), which starts  *)
(* the heartbeat timer, only if the services before it came up.            *)
Initialized == bring_up = "ready"

-----------------------------------------------------------------------------
(* SOFT_ERROR shows ERROR solid and leaves it off; no other state touches it. *)
ErrorLedStaysOn == error_led' = (error_led \/ state' = "SOFT_ERROR")
ErrorLedFollows ==
  error_led' = IF (state = "SOFT_ERROR") = (state' = "SOFT_ERROR")
               THEN error_led ELSE state' = "SOFT_ERROR"

Controlled ==
  /\ Next
  /\ ErrorLedFollows
  /\ UNCHANGED service

(* on_heartbeat_timer_expired(); a full queue drops the beat. *)
RoomForBeat == beats < MaxBeats
HeartbeatExpires ==
  /\ Initialized
  /\ RoomForBeat
  /\ beats' = beats + 1
  /\ UNCHANGED <<vars, diagnostics, annunciation, leds>>

FaultActiveIfUnrecoverable == fault = "UNRECOVERABLE"
FaultActive == fault # "NONE"

(* HEARTBEAT_DUE: the latch is read here, and acted upon afterwards. *)
BeginBeat ==
  /\ MainIsDone
  /\ diagnostics = "waiting"
  /\ beats > 0
  /\ beats' = beats - 1
  /\ diagnostics' = IF FaultActive THEN "announce" ELSE "toggle"
  /\ UNCHANGED <<vars, annunciation, leds>>

Toggled(led) == ~led

ToggleHeartbeat ==
  /\ diagnostics = "toggle"
  /\ diagnostics' = "waiting"
  /\ heartbeat_led' = Toggled(heartbeat_led)
  /\ UNCHANGED <<vars, beats, annunciation, activity_led, error_led>>

(* The first time also turns HEARTBEAT off. *)
Announce ==
  /\ diagnostics = "announce"
  /\ diagnostics' = "show_error"
  /\ announced' = TRUE
  /\ heartbeat_led' = (announced /\ heartbeat_led)
  /\ blink_on' = ~blink_on
  /\ UNCHANGED <<vars, beats, activity_led, error_led>>

Shown(led) == blink_on

ShowError ==
  /\ diagnostics = "show_error"
  /\ diagnostics' = "show_activity"
  /\ error_led' = Shown(error_led)
  /\ UNCHANGED <<vars, beats, annunciation, heartbeat_led, activity_led>>

ActivityStaysLit ==
  /\ diagnostics = "show_activity"
  /\ diagnostics' = "waiting"
  /\ activity_led' = (activity_led \/ blink_on)
  /\ UNCHANGED <<vars, beats, annunciation, heartbeat_led, error_led>>

ShowActivity ==
  /\ diagnostics = "show_activity"
  /\ diagnostics' = "waiting"
  /\ activity_led' = Shown(activity_led)
  /\ UNCHANGED <<vars, beats, annunciation, heartbeat_led, error_led>>

Diagnostics ==
  \/ BeginBeat \/ ToggleHeartbeat \/ Announce \/ ShowError \/ ShowActivity

HealthNext == Controlled \/ HeartbeatExpires \/ Diagnostics

HealthSpec == HealthInit /\ [][HealthNext]_healthVars

(* The threads above this one block when their queues are empty, and the    *)
(* heartbeat is periodic.                                                  *)
FairHealthSpec ==
  /\ HealthSpec
  /\ WF_vars(Main) /\ WF_vars(App) /\ WF_vars(Comms)
  /\ WF_healthVars(HeartbeatExpires)
  /\ WF_healthVars(Diagnostics)

-----------------------------------------------------------------------------
(* Every variable holds a value of its type, and beats that nobody has time  *)
(* for do not pile up.                                                      *)
HealthTypeOK ==
  /\ TypeOK
  /\ beats \in 0..MaxBeats
  /\ diagnostics \in {"waiting", "toggle", "announce", "show_error", "show_activity"}
  /\ announced \in BOOLEAN /\ blink_on \in BOOLEAN
  /\ heartbeat_led \in BOOLEAN /\ activity_led \in BOOLEAN /\ error_led \in BOOLEAN

(* As long as nothing went wrong, ERROR is lit in SOFT_ERROR and nowhere     *)
(* else, and ACTIVITY not at all: a join that succeeds after any number of   *)
(* retries leaves no light on behind it, and no healthy beat switches one    *)
(* (soft_error.cpp:83-103, system_diagnostics/subsystem.cpp:151-162).        *)
LedsTellTheTruth ==
  fault = "NONE" => (error_led <=> state = "SOFT_ERROR") /\ ~activity_led

InStep == error_led = activity_led /\ ~heartbeat_led

(* In HARD_ERROR the lights that are once in step stay in step: whatever     *)
(* fault was latched first, no later beat goes back to the heartbeat and no  *)
(* event that is still queued makes the application touch ERROR again        *)
(* (hard_error.cpp:31-32).                                                  *)
BlinkStaysInStep ==
  [](state = "HARD_ERROR" /\ diagnostics = "waiting" /\ InStep
       => [](diagnostics = "waiting" => InStep))

(* Whatever was lost or went wrong, in whatever state, becomes visible: the  *)
(* latch is only looked at on the next beat, and beats may be dropped.      *)
FaultIsShown == Initialized /\ fault # "NONE" ~> announced

(* HARD_ERROR ends up blinking, ERROR and ACTIVITY together and HEARTBEAT    *)
(* off, although the application may have switched ERROR between two writes *)
(* of a blink, and a beat begun before the fault may still toggle HEARTBEAT *)
(* (fault.md:42, hard_error.cpp:31-32).                                     *)
HardErrorBlinks ==
  LET stopped == state = "HARD_ERROR" /\ Initialized IN
    /\ stopped ~> [](diagnostics = "waiting" => InStep)
    /\ stopped ~> error_led
    /\ stopped ~> ~error_led

-----------------------------------------------------------------------------
(* What the documents claim and the code does not do.                       *)

(* COMMANDS.md:203 and 402: HARD_ERROR is "terminal, both LEDs blinking";     *)
(* hard_error.cpp:31: "svc::system_diagnostics owns the LEDs from here on". *)
HardErrorIsShown == state = "HARD_ERROR" ~> announced
=============================================================================
