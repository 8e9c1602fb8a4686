-------------------------------- MODULE Boot --------------------------------
(***************************************************************************)
(* From power-up to a running system, and what the watchdog makes of it:    *)
(* App::initialize() step by step in the main thread, the threads it starts *)
(* on the way, the idle thread that feeds the watchdog, and the assertion   *)
(* that spins on a debug build.                                            *)
(*                                                                         *)
(* One processor, preemptive priorities: main above acquisition above comms *)
(* above app above diagnostics above idle.  Computing takes no time worth   *)
(* counting; time passes while every thread waits, and while one spins.     *)
(* What a handler does is reduced to the singletons it needs.              *)
(***************************************************************************)
EXTENDS Integers, Sequences, FiniteSets

CONSTANTS
  Timeout,      (* WATCHDOG_TIMEOUT_MS, in ticks                            *)
  MaxThreads    (* MAX_THREADS: stacks in the pool                          *)

ASSUME BootConstants ==
  /\ Timeout \in Nat /\ Timeout >= 2
  /\ MaxThreads \in Nat /\ MaxThreads >= 4

VARIABLES
  debug,        (* APP_DEBUG_BUILD: ASSERT_CRITICAL spins                   *)
  step,         (* where App::initialize() is                               *)
  ready,        (* services_ready                                           *)
  constructed,  (* the function-local statics whose constructor has run     *)
  threads,      (* the threads created so far                               *)
  ports,        (* m_active_ports_list: whose port is registered            *)
  task,         (* what each of those threads is doing                      *)
  idle_thread,  (* s_idle_thread_started                                    *)
  fed,          (* the idle thread ran since the last tick                  *)
  armed,        (* m_channel_id >= 0                                        *)
  left          (* ticks until the watchdog resets the device               *)

watchdog == <<armed, left>>
system == <<constructed, threads, ports, idle_thread>>
vars == <<debug, step, ready, constructed, threads, ports, task, idle_thread,
          fed, armed, left>>

(* In the order of their priorities, highest first. *)
Task == <<"acquisition", "comms", "app", "diagnostics">>
Tasks == {Task[i] : i \in DOMAIN Task}
Above(t, u) == \E i, j \in DOMAIN Task : i < j /\ Task[i] = t /\ Task[j] = u

Singletons == {"gpio", "led", "ble", "link", "watchdog"}
ListedButLeds == {"gpio", "ble", "link", "watchdog"}
Listed == Singletons

(* The statics a handler may reach: the LED manager's constructor reaches the  *)
(* GPIO manager in turn.                                                    *)
Needs(t) ==
  CASE t = "acquisition" -> {"ble"}
    [] t = "comms" -> {"link"}
    [] t \in {"app", "diagnostics"} -> {"led", "gpio"}

(* App::initialize(); a service that fails goes on at the state machine. *)
IdleHookLast ==
  <<"singletons", "watchdog", "app", "acquisition", "bluetooth", "comms",
    "link", "diagnostics", "machine", "announce", "idle_hook", "done">>
Order ==
  <<"singletons", "idle_hook", "watchdog", "app", "acquisition", "bluetooth",
    "comms", "link", "diagnostics", "machine", "announce", "done">>
Steps == {Order[i] : i \in DOMAIN Order} \cup {"spinning"}
After(s) == Order[CHOOSE i \in 2..Len(Order) : Order[i - 1] = s]

-----------------------------------------------------------------------------
(* Main waits for the controller and for the network; else it computes. *)
MainWaits == step \in {"bluetooth", "link", "done"}
Active == {t \in Tasks : task[t] # "blocked"}
Runs(t) == MainWaits /\ t \in Active /\ \A u \in Active : ~Above(u, t)

MainSpins == step = "spinning"
Spinning == MainSpins \/ \E t \in Tasks : task[t] = "spinning"
AllWait == MainWaits /\ Active = {}

Init ==
  /\ debug \in BOOLEAN
  /\ step = "singletons" /\ ready = TRUE
  /\ constructed = {}
  /\ threads = {} /\ ports = {}
  /\ task = [t \in Tasks |-> "blocked"]
  /\ idle_thread = FALSE
  /\ fed = FALSE
  /\ armed = FALSE /\ left = Timeout

(* Every singleton is built while there is no other thread. *)
ConstructSingletons ==
  /\ step = "singletons"
  /\ step' = After(step)
  /\ constructed' = Listed
  /\ UNCHANGED <<debug, ready, threads, ports, task, idle_thread, fed, watchdog>>

(* register_idle_callback() starts the thread that calls it. *)
RegisterIdleHook ==
  /\ step = "idle_hook"
  /\ step' = After(step)
  /\ idle_thread' = TRUE
  /\ UNCHANGED <<debug, ready, constructed, threads, ports, task, fed, watchdog>>

(* set_timeout(): without a watchdog the device goes on. *)
ArmWatchdog ==
  /\ step = "watchdog"
  /\ step' = After(step)
  /\ armed' \in BOOLEAN
  /\ left' = Timeout
  /\ constructed' = constructed \cup {"watchdog"}
  /\ UNCHANGED <<debug, ready, threads, ports, task, idle_thread, fed>>

(* Thread::create() draws from a pool of stacks. *)
Created(t) == IF Cardinality(threads) < MaxThreads THEN threads \cup {t} ELSE threads

Registered(t) == ports \cup {t}

(* init_task() and Port::init(); the thread waits on its empty queue.  For   *)
(* diagnostics this is all of initialize().                                 *)
StartTask ==
  /\ step \in Tasks
  /\ step' = After(step)
  /\ threads' = Created(step)
  /\ ports' = Registered(step)
  /\ UNCHANGED <<debug, ready, constructed, task, idle_thread, fed, watchdog>>

(* bt_enable() and the link's initialize() block, for as long as they like,  *)
(* and fail or not.                                                        *)
BringUp(name, singleton) ==
  /\ step = name
  /\ \/ step' = After(step) /\ UNCHANGED ready
     \/ step' = "machine" /\ ready' = FALSE
  /\ constructed' = constructed \cup {singleton}
  /\ UNCHANGED <<debug, threads, ports, task, idle_thread, fed, watchdog>>

(* A queued event makes a waiting thread active; bound: the next one is not  *)
(* sent before this one is handled.                                         *)
Woken(T) ==
  [t \in Tasks |-> IF t \in T \cap ports \cap threads /\ task[t] = "blocked"
                   THEN "handling" ELSE task[t]]

(* STARTUP's entry sends START_SCAN and JOIN_NETWORK; a port that is not     *)
(* registered stops a debug build right here.                               *)
StartMachine ==
  /\ step = "machine"
  /\ step' = IF debug /\ "comms" \notin ports THEN "spinning" ELSE After(step)
  /\ task' = Woken({"acquisition", "comms"})
  /\ UNCHANGED <<debug, ready, system, fed, watchdog>>

Announce ==
  /\ step = "announce"
  /\ step' = After(step)
  /\ task' = Woken({"app"})
  /\ UNCHANGED <<debug, ready, system, fed, watchdog>>

Main ==
  \/ ConstructSingletons \/ RegisterIdleHook \/ ArmWatchdog \/ StartTask
  \/ BringUp("bluetooth", "ble") \/ BringUp("link", "link")
  \/ StartMachine \/ Announce

-----------------------------------------------------------------------------
(* An event from an interrupt or another thread: the heartbeat, whose timer  *)
(* diagnostics starts, and once the system is up anything.                  *)
Arrives(t) ==
  /\ t = "diagnostics" \/ step = "done"
  /\ task[t] = "blocked"
  /\ task' = Woken({t})
  /\ task' # task
  /\ UNCHANGED <<debug, step, ready, system, fed, watchdog>>

(* The flag of a function-local static is set after its constructor has run, *)
(* and nothing locks it (-fno-threadsafe-statics): whoever comes by before   *)
(* constructs it too.                                                       *)
Reach(t) ==
  /\ Runs(t) /\ task[t] = "handling"
  /\ task' = [task EXCEPT ![t] = IF Needs(t) \subseteq constructed
                                THEN "using" ELSE "constructing"]
  /\ UNCHANGED <<debug, step, ready, system, fed, watchdog>>

Leave(t) ==
  /\ Runs(t) /\ task[t] \in {"using", "constructing"}
  /\ task' = [task EXCEPT ![t] = "handling"]
  /\ constructed' = constructed \cup Needs(t)
  /\ UNCHANGED <<debug, step, ready, threads, ports, idle_thread, fed, watchdog>>

(* The handler returns, and the thread waits for its next event. *)
Return(t) ==
  /\ Runs(t) /\ task[t] = "handling"
  /\ task' = [task EXCEPT ![t] = "blocked"]
  /\ UNCHANGED <<debug, step, ready, system, fed, watchdog>>

(* A send_event() that finds its queue full, on a debug build; acquisition   *)
(* and diagnostics send none from their threads.                            *)
AssertionFails(t) ==
  /\ debug /\ t \in {"comms", "app"}
  /\ Runs(t) /\ task[t] = "handling"
  /\ task' = [task EXCEPT ![t] = "spinning"]
  /\ UNCHANGED <<debug, step, ready, system, fed, watchdog>>

Handler(t) ==
  Reach(t) \/ Leave(t) \/ Return(t) \/ AssertionFails(t)

-----------------------------------------------------------------------------
(* The idle thread runs when no other can, and feeds the watchdog. *)
IdleAnyway == idle_thread
IdleRuns == idle_thread /\ AllWait

Refreshed == IF armed THEN Timeout ELSE left

Feed ==
  /\ IdleRuns
  /\ ~fed
  /\ fed' = TRUE
  /\ left' = Refreshed
  /\ UNCHANGED <<debug, step, ready, system, task, armed>>

(* Time passes while a thread spins, whatever runs above it, or when no      *)
(* thread wants the processor and the idle thread, if there is one, has run. *)
TimePasses == Spinning \/ (AllWait /\ (idle_thread => fed))

Tick ==
  /\ armed /\ left > 0
  /\ TimePasses
  /\ left' = left - 1
  /\ fed' = FALSE
  /\ UNCHANGED <<debug, step, ready, system, task, armed>>

(* WDT_FLAG_RESET_SOC: everything starts over. *)
Bite ==
  /\ armed /\ left = 0
  /\ step' = "singletons" /\ ready' = TRUE
  /\ constructed' = {}
  /\ threads' = {} /\ ports' = {}
  /\ task' = [t \in Tasks |-> "blocked"]
  /\ idle_thread' = FALSE
  /\ fed' = FALSE
  /\ armed' = FALSE /\ left' = Timeout
  /\ UNCHANGED debug

Next ==
  \/ Main
  \/ \E t \in Tasks : Arrives(t) \/ Handler(t)
  \/ Feed \/ Tick \/ Bite

Spec == Init /\ [][Next]_vars

(* Threads that have the processor use it, bring-up calls return, and time   *)
(* goes on.  Events need not come.                                          *)
FairSpec ==
  /\ Spec
  /\ WF_vars(Main)
  /\ \A t \in Tasks : WF_vars(Handler(t))
  /\ WF_vars(Feed) /\ WF_vars(Tick) /\ WF_vars(Bite)

-----------------------------------------------------------------------------
(* Every variable holds a value of its type, and the pool of stacks is never *)
(* exhausted.                                                              *)
TypeOK ==
  /\ debug \in BOOLEAN /\ ready \in BOOLEAN
  /\ step \in Steps
  /\ constructed \subseteq Singletons
  /\ threads \subseteq Tasks /\ ports = threads
  /\ task \in [Tasks -> {"blocked", "handling", "using", "constructing", "spinning"}]
  /\ idle_thread \in BOOLEAN /\ fed \in BOOLEAN
  /\ armed \in BOOLEAN /\ left \in 0..Timeout

(* No two threads are ever inside a constructor of the same singleton, which *)
(* nothing but the order of bring-up prevents (app.cpp:45-51).              *)
NoRacingConstruction ==
  \A t, u \in Tasks :
    task[t] = "constructing" /\ task[u] = "constructing" /\ t # u =>
      Needs(t) \cap Needs(u) = {}

(* The watchdog runs out only on a device that spins: however long main      *)
(* waits for the controller or an access point, and in HARD_ERROR, a device  *)
(* that works or has given up is fed (app.cpp:58-61, hard_error.cpp:45-47). *)
FedUnlessSpinning == armed /\ left = 0 => Spinning

(* A failed assertion is a reset, not a device that hangs for ever,         *)
(* whichever thread spins and whatever the others do (assert.hpp:19-24).    *)
SpinIsReset == Spinning /\ armed ~> step = "singletons"
=============================================================================
