------------------------------ MODULE Lifecycle ------------------------------
(***************************************************************************)
(* What the control plane promises, without queues, threads, timers' events *)
(* or a state machine: the device tries to join, and waits longer and       *)
(* longer between attempts that fail; it operates because an attempt        *)
(* succeeded and for no other reason; it halts for good.  One thing at a    *)
(* time uses the radio, and sending takes a licence that the first success  *)
(* grants and halting withdraws.                                           *)
(***************************************************************************)
EXTENDS Integers

CONSTANTS
  RetryBase,  (* the wait after the first failure                           *)
  RetryMax    (* the longest wait                                           *)

VARIABLES
  phase,      (* what the device is up to                                   *)
  pause,      (* what is left to wait before the next attempt               *)
  delay,      (* how long the next wait will be                             *)
  radio,      (* what the radio is used for                                 *)
  answer,     (* the outcome of an attempt, until it is acted upon          *)
  licence     (* whether anything may be sent                               *)

vars == <<phase, pause, delay, radio, answer, licence>>

Init ==
  /\ phase = "joining"
  /\ pause = 0
  /\ delay = RetryBase
  /\ radio = "waiting"
  /\ answer = "none"
  /\ licence = "none"

(* An attempt that was asked for before halting may still be made. *)
Connect ==
  /\ phase \in {"joining", "halted"}
  /\ radio = "waiting" /\ answer = "none"
  /\ radio' = "joining"
  /\ UNCHANGED <<phase, pause, delay, answer, licence>>

Conclude ==
  /\ radio = "joining"
  /\ radio' = "waiting"
  /\ answer' \in {"joined", "failed"}
  /\ UNCHANGED <<phase, pause, delay, licence>>

Succeed ==
  /\ phase = "joining" /\ answer = "joined"
  /\ phase' = "operating"
  /\ answer' = "none"
  /\ delay' = RetryBase
  /\ licence' = "granted"
  /\ UNCHANGED <<pause, radio>>

Longer == IF 2 * delay <= RetryMax THEN 2 * delay ELSE RetryMax

BackOff ==
  /\ phase' = "backing_off"
  /\ pause' = delay
  /\ delay' = Longer
  /\ UNCHANGED <<radio, licence>>

Fail ==
  /\ phase = "joining" /\ answer = "failed"
  /\ answer' = "none"
  /\ BackOff

(* Something went wrong in operation: nothing in the firmware says so yet. *)
Relapse ==
  /\ phase = "operating"
  /\ BackOff
  /\ UNCHANGED answer

Elapse ==
  /\ phase = "backing_off" /\ pause > 0
  /\ pause' = 0
  /\ UNCHANGED <<phase, delay, radio, answer, licence>>

Retry ==
  /\ phase = "backing_off" /\ pause = 0
  /\ phase' = "joining"
  /\ UNCHANGED <<pause, delay, radio, answer, licence>>

Halt ==
  /\ phase # "halted"
  /\ phase' = "halted"
  /\ pause' = 0
  /\ UNCHANGED <<delay, radio, answer, licence>>

(* What was under way when the device halted comes to its end. *)
Ignore ==
  /\ phase = "halted" /\ answer # "none"
  /\ answer' = "none"
  /\ UNCHANGED <<phase, pause, delay, radio, licence>>

Withdraw ==
  /\ phase = "halted" /\ radio = "waiting"
  /\ licence' = "withdrawn"
  /\ UNCHANGED <<phase, pause, delay, radio, answer>>

BeginSending ==
  /\ licence = "granted" /\ radio = "waiting"
  /\ radio' = "dispatching"
  /\ UNCHANGED <<phase, pause, delay, answer, licence>>

EndSending ==
  /\ radio = "dispatching"
  /\ radio' = "waiting"
  /\ UNCHANGED <<phase, pause, delay, answer, licence>>

Next ==
  \/ Connect \/ Conclude \/ Succeed \/ Fail \/ Relapse \/ Elapse \/ Retry
  \/ Halt \/ Ignore \/ Withdraw \/ BeginSending \/ EndSending

Spec == Init /\ [][Next]_vars
=============================================================================
