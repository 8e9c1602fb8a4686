------------------------------ MODULE BootProofs ------------------------------
(***************************************************************************)
(* Proofs about Boot, for every watchdog timeout and every pool of stacks.  *)
(***************************************************************************)
EXTENDS Boot, FiniteSetTheorems, TLAPS

LEMMA TaskNames == Tasks = {"acquisition", "comms", "app", "diagnostics"}
BY DEF Tasks, Task

LEMMA StepAfter ==
  /\ After("singletons") = "idle_hook"
  /\ After("idle_hook") = "watchdog"
  /\ After("watchdog") = "app"
  /\ After("app") = "acquisition"
  /\ After("acquisition") = "bluetooth"
  /\ After("bluetooth") = "comms"
  /\ After("comms") = "link"
  /\ After("link") = "diagnostics"
  /\ After("diagnostics") = "machine"
  /\ After("machine") = "announce"
  /\ After("announce") = "done"
<1>1. /\ Len(Order) = 12
      /\ \A i, j \in 1..12 : Order[i] = Order[j] => i = j
  BY DEF Order
<1>2. \A i \in 2..12 : After(Order[i - 1]) = Order[i]
  <2> SUFFICES ASSUME NEW i \in 2..12
               PROVE  After(Order[i - 1]) = Order[i]
    OBVIOUS
  <2>1. \A j \in 2..12 : Order[j - 1] = Order[i - 1] <=> j = i
    BY <1>1
  <2>2. QED
    BY <1>1, <2>1 DEF After
<1>3. QED
  BY <1>2 DEF Order


LEMMA StepNames ==
  Steps =
    {"singletons", "idle_hook", "watchdog", "app", "acquisition", "bluetooth",
     "comms", "link", "diagnostics", "machine", "announce", "done", "spinning"}
BY DEF Steps, Order

-----------------------------------------------------------------------------
(* The order of bring-up: which threads there can be, that every singleton  *)
(* is built before the first of them, and that the idle thread is there     *)
(* before the watchdog is armed.                                            *)
Before(s) ==
  CASE s \in {"singletons", "idle_hook", "watchdog", "app"} -> {}
    [] s = "acquisition" -> {"app"}
    [] s \in {"bluetooth", "comms"} -> {"app", "acquisition"}
    [] s \in {"link", "diagnostics"} -> {"app", "acquisition", "comms"}
    [] OTHER -> Tasks

InOrder ==
  /\ threads \subseteq Before(step)
  /\ step # "singletons" => constructed = Singletons
  /\ \A t \in Tasks : task[t] # "constructing"
  /\ step \notin {"singletons", "idle_hook"} => idle_thread
  /\ step \in {"singletons", "idle_hook", "watchdog"} => ~armed

(* A device on which no thread spins has been fed within the last tick. *)
FedLastTick ==
  armed /\ ~Spinning => left >= Timeout - 1 /\ (fed => left = Timeout)

BootInv == TypeOK /\ InOrder /\ FedLastTick

LEMMA PoolSuffices ==
  ASSUME BootInv, step \in Tasks
  PROVE  Created(step) = threads \cup {step}
<1> DEFINE A == {} \cup {"app"}
<1> DEFINE B == A \cup {"acquisition"}
<1> DEFINE C == B \cup {"comms"}
<1>1. IsFiniteSet(C) /\ Cardinality(C) \in Nat /\ Cardinality(C) <= 3
  <2>1. IsFiniteSet(A) /\ Cardinality(A) = 1
    <3>1. IsFiniteSet({}) /\ Cardinality({}) = 0
      BY FS_EmptySet
    <3>2. /\ IsFiniteSet(A)
          /\ Cardinality(A) = IF "app" \in {} THEN Cardinality({})
                              ELSE Cardinality({}) + 1
      BY <3>1, FS_AddElement
    <3>3. QED
      BY <3>1, <3>2
  <2> HIDE DEF A
  <2>2. IsFiniteSet(B) /\ Cardinality(B) \in {1, 2}
    <3>1. /\ IsFiniteSet(B)
          /\ Cardinality(B) = IF "acquisition" \in A THEN Cardinality(A)
                              ELSE Cardinality(A) + 1
      BY <2>1, FS_AddElement
    <3>2. QED
      BY <2>1, <3>1
  <2> HIDE DEF B
  <2>3. /\ IsFiniteSet(C)
        /\ Cardinality(C) = IF "comms" \in B THEN Cardinality(B)
                            ELSE Cardinality(B) + 1
    BY <2>2, FS_AddElement
  <2>4. QED
    BY <2>2, <2>3
<1>2. threads \in SUBSET C
  BY TaskNames DEF BootInv, InOrder, Before
<1> HIDE DEF C
<1>3. Cardinality(threads) \in Nat /\ Cardinality(threads) <= 3
  <2>1. IsFiniteSet(threads) /\ Cardinality(threads) <= Cardinality(C)
    BY <1>1, <1>2, FS_Subset
  <2>2. QED
    BY <1>1, <2>1, FS_CardinalityType
<1>4. QED
  BY <1>3, BootConstants DEF Created

LEMMA MainInv ==
  ASSUME BootInv, Main
  PROVE  BootInv'
<1>1. CASE ConstructSingletons
  BY <1>1, StepNames, StepAfter DEF ConstructSingletons, BootInv, TypeOK, InOrder, FedLastTick, Before,
              Listed, Singletons, watchdog
<1>2. CASE RegisterIdleHook
  BY <1>2, StepNames, StepAfter DEF RegisterIdleHook, BootInv, TypeOK, InOrder, FedLastTick, Before,
              watchdog
<1>3. CASE ArmWatchdog
  BY <1>3, StepNames, StepAfter, BootConstants DEF ArmWatchdog, BootInv, TypeOK, InOrder, FedLastTick, Before,
              Singletons
<1>4. CASE StartTask
  <2>1. threads' = threads \cup {step} /\ ports' = ports \cup {step}
    BY <1>4, PoolSuffices DEF StartTask, Registered
  <2>2. /\ step' = After(step)
        /\ UNCHANGED <<debug, ready, constructed, task, idle_thread, fed, armed, left>>
    BY <1>4 DEF StartTask, watchdog
  <2>3. step \in Tasks
    BY <1>4 DEF StartTask
  <2>4. TypeOK'
    BY <2>1, <2>2, <2>3, TaskNames, StepNames, StepAfter DEF BootInv, TypeOK
  <2>5. InOrder'
    BY <2>1, <2>2, <2>3, TaskNames, StepNames, StepAfter DEF BootInv, InOrder, Before
  <2>6. FedLastTick'
    BY <2>2, <2>3, TaskNames, StepAfter DEF BootInv, FedLastTick, Spinning, MainSpins
  <2>7. QED
    BY <2>4, <2>5, <2>6 DEF BootInv
<1>5. CASE BringUp("bluetooth", "ble") \/ BringUp("link", "link")
  <2>1. /\ step \in {"bluetooth", "link"}
        /\ step = "bluetooth" => step' \in {"comms", "machine"}
        /\ step = "link" => step' \in {"diagnostics", "machine"}
    <3>1. CASE BringUp("bluetooth", "ble")
      BY <3>1, StepAfter DEF BringUp
    <3>2. CASE BringUp("link", "link")
      BY <3>2, StepAfter DEF BringUp
    <3>3. QED
      BY <1>5, <3>1, <3>2
  <2>2. /\ ready' \in BOOLEAN /\ constructed' = constructed
        /\ UNCHANGED <<debug, threads, ports, task, idle_thread, fed, armed, left>>
    BY <1>5 DEF BringUp, watchdog, BootInv, TypeOK, InOrder, Singletons
  <2>3. TypeOK'
    BY <2>1, <2>2, StepNames DEF BootInv, TypeOK
  <2>4. InOrder'
    BY <2>1, <2>2, TaskNames DEF BootInv, InOrder, Before
  <2>5. FedLastTick'
    BY <2>1, <2>2 DEF BootInv, FedLastTick, Spinning, MainSpins
  <2>6. QED
    BY <2>3, <2>4, <2>5 DEF BootInv
<1>6. CASE StartMachine \/ Announce
  <2>1. /\ step \in {"machine", "announce"}
        /\ step = "machine" => step' \in {"spinning", "announce"}
        /\ step = "announce" => step' = "done"
    <3>1. CASE StartMachine
      BY <3>1, StepAfter DEF StartMachine
    <3>2. CASE Announce
      BY <3>2, StepAfter DEF Announce
    <3>3. QED
      BY <1>6, <3>1, <3>2
  <2>2. /\ UNCHANGED <<debug, ready, constructed, threads, ports, idle_thread,
                       fed, armed, left>>
        /\ \E T \in SUBSET Tasks : task' = Woken(T)
    BY <1>6, TaskNames DEF StartMachine, Announce, watchdog, system
  <2>3. TypeOK'
    BY <2>1, <2>2, StepNames DEF BootInv, TypeOK, Woken
  <2>4. InOrder'
    BY <2>1, <2>2 DEF BootInv, InOrder, Before, Woken
  <2>5. FedLastTick'
    BY <2>1, <2>2 DEF BootInv, FedLastTick, Spinning, MainSpins, Woken, TypeOK
  <2>6. QED
    BY <2>3, <2>4, <2>5 DEF BootInv
<1>7. QED
  BY <1>1, <1>2, <1>3, <1>4, <1>5, <1>6 DEF Main

(* What a thread does changes only what it is doing, and nothing is left    *)
(* for it to build.                                                         *)
LEMMA TaskInv ==
  ASSUME BootInv, NEW t \in Tasks, Arrives(t) \/ Handler(t)
  PROVE  BootInv'
<1> USE TaskNames
<1>1. step # "singletons" => Needs(t) \subseteq constructed
  BY DEF BootInv, InOrder, Needs, Singletons
<1>2. /\ UNCHANGED <<debug, step, ready, threads, ports, idle_thread, fed, armed, left>>
      /\ constructed' = constructed
      /\ \E d \in {"blocked", "handling", "using", "spinning"} :
           task[t] # "spinning" /\ task' = [task EXCEPT ![t] = d]
  <2>1. CASE Arrives(t)
    <3>1. task' = [task EXCEPT ![t] = "handling"]
      BY <2>1 DEF Arrives, Woken, BootInv, TypeOK
    <3>2. QED
      BY <2>1, <3>1 DEF Arrives, system, watchdog
  <2>2. CASE Handler(t)
    <3>1. step # "singletons"
      BY <2>2 DEF Handler, Reach, Leave, Return, AssertionFails, Runs, MainWaits
    <3>2. QED
      BY <1>1, <2>2, <3>1
         DEF Handler, Reach, Leave, Return, AssertionFails, system, watchdog
  <2>3. QED
    BY <2>1, <2>2
<1>3. TypeOK'
  BY <1>2 DEF BootInv, TypeOK
<1>4. InOrder'
  BY <1>2 DEF BootInv, InOrder, Before, TypeOK
<1>5. FedLastTick'
  BY <1>2 DEF BootInv, FedLastTick, Spinning, MainSpins, TypeOK
<1>6. QED
  BY <1>3, <1>4, <1>5 DEF BootInv

LEMMA WatchdogInv ==
  ASSUME BootInv, Feed \/ Tick \/ Bite
  PROVE  BootInv'
<1> USE BootConstants
<1>1. CASE Feed
  <2>1. /\ UNCHANGED <<debug, step, ready, constructed, threads, ports, task,
                       idle_thread, armed>>
        /\ fed' = TRUE /\ left' = Refreshed
    BY <1>1 DEF Feed, system
  <2>2. TypeOK' /\ InOrder'
    BY <2>1 DEF BootInv, TypeOK, InOrder, Before, Refreshed
  <2>3. FedLastTick'
    BY <2>1 DEF FedLastTick, Refreshed
  <2>4. QED
    BY <2>2, <2>3 DEF BootInv
<1>2. CASE Tick
  <2>1. /\ UNCHANGED <<debug, step, ready, constructed, threads, ports, task,
                       idle_thread, armed>>
        /\ armed /\ left > 0 /\ fed' = FALSE /\ left' = left - 1
        /\ TimePasses
    BY <1>2 DEF Tick, system
  <2>2. TypeOK' /\ InOrder'
    <3>1. left - 1 \in 0..Timeout
      BY <2>1 DEF BootInv, TypeOK
    <3>2. QED
      BY <2>1, <3>1 DEF BootInv, TypeOK, InOrder, Before
  <2>3. Spinning \/ fed
    BY <2>1 DEF TimePasses, BootInv, InOrder
  <2>4. FedLastTick'
    BY <2>1, <2>3 DEF BootInv, FedLastTick, Spinning, MainSpins
  <2>5. QED
    BY <2>2, <2>4 DEF BootInv
<1>3. CASE Bite
  <2>1. TypeOK'
    <3>1. step' \in Steps
      BY <1>3, StepNames DEF Bite
    <3>2. left' \in 0..Timeout
      BY <1>3 DEF Bite
    <3>3. QED
      BY <1>3, <3>1, <3>2 DEF Bite, BootInv, TypeOK
  <2>2. InOrder'
    BY <1>3 DEF Bite, InOrder, Before
  <2>3. FedLastTick'
    BY <1>3 DEF Bite, FedLastTick
  <2>4. QED
    BY <2>1, <2>2, <2>3 DEF BootInv
<1>4. QED
  BY <1>1, <1>2, <1>3

LEMMA BootInvInit == Init => BootInv
<1>1. Init => TypeOK
  <2>1. Init => step \in Steps
    BY StepNames DEF Init
  <2>2. Init => left \in 0..Timeout
    BY BootConstants DEF Init
  <2>3. QED
    BY <2>1, <2>2 DEF Init, TypeOK
<1>2. Init => InOrder
  BY DEF Init, InOrder, Before
<1>3. Init => FedLastTick
  BY DEF Init, FedLastTick
<1>4. QED
  BY <1>1, <1>2, <1>3 DEF BootInv

LEMMA BootInvStep == BootInv /\ [Next]_vars => BootInv'
<1> SUFFICES ASSUME BootInv, [Next]_vars
             PROVE  BootInv'
  OBVIOUS
<1>1. CASE UNCHANGED vars
  BY <1>1 DEF vars, BootInv, TypeOK, InOrder, FedLastTick, Before, Spinning, MainSpins
<1>2. QED
  BY <1>1, MainInv, TaskInv, WatchdogInv DEF Next

(* Bring-up keeps its types, every created thread has a stack and a         *)
(* registered port (Thread::create(), Port::init()).                        *)
THEOREM BootTypes == Spec => []TypeOK
<1>1. BootInv => TypeOK
  BY DEF BootInv
<1>2. QED
  BY <1>1, BootInvInit, BootInvStep, PTL DEF Spec

(* The list of singletons App::initialize() builds is complete: no thread   *)
(* ever finds one that it would have to construct, let alone two of them    *)
(* the same one.                                                            *)
THEOREM NoConstructorRaces == Spec => []NoRacingConstruction
<1>1. BootInv => NoRacingConstruction
  BY DEF BootInv, InOrder, NoRacingConstruction
<1>2. QED
  BY <1>1, BootInvInit, BootInvStep, PTL DEF Spec

(* The idle thread is registered before the watchdog is armed and runs      *)
(* whenever nothing else does: only a spinning thread lets it run out.      *)
THEOREM OnlySpinnersAreReset == Spec => []FedUnlessSpinning
<1>1. BootInv => FedUnlessSpinning
  BY BootConstants DEF BootInv, FedLastTick, FedUnlessSpinning
<1>2. QED
  BY <1>1, BootInvInit, BootInvStep, PTL DEF Spec
=============================================================================
