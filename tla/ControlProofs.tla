---------------------------- MODULE ControlProofs ----------------------------
(***************************************************************************)
(* Proofs about Control, for every queue length, every pair of delays and   *)
(* every set of events posted from outside.                                 *)
(***************************************************************************)
EXTENDS Control, FiniteSetTheorems, WellFoundedInduction, TLAPS

-----------------------------------------------------------------------------
(* What a queue holds of a kind of events, as it grows and shrinks. *)
Has(q, X) == \E i \in DOMAIN q : q[i] \in X
Single(q, X) == \A i, j \in DOMAIN q : q[i] \in X /\ q[j] \in X => i = j

LEMMA Grown ==
  ASSUME NEW S, NEW q \in Seq(S), NEW e \in S, NEW X
  PROVE  /\ Append(q, e) \in Seq(S)
         /\ Len(Append(q, e)) = Len(q) + 1
         /\ Has(Append(q, e), X) <=> Has(q, X) \/ e \in X
         /\ Single(q, X) /\ (e \in X => ~Has(q, X)) => Single(Append(q, e), X)
<1> DEFINE r == Append(q, e)
<1>1. /\ r \in Seq(S) /\ Len(r) = Len(q) + 1 /\ Len(q) \in Nat
      /\ DOMAIN r = 1..Len(q) + 1 /\ DOMAIN q = 1..Len(q)
      /\ \A i \in 1..Len(q) : r[i] = q[i]
      /\ r[Len(q) + 1] = e
  OBVIOUS
<1> HIDE DEF r
<1>2. Has(r, X) <=> Has(q, X) \/ e \in X
  BY <1>1 DEF Has
<1>3. Single(q, X) /\ (e \in X => ~Has(q, X)) => Single(r, X)
  BY <1>1 DEF Has, Single
<1>4. QED
  BY <1>1, <1>2, <1>3 DEF r

LEMMA Shrunk ==
  ASSUME NEW S, NEW q \in Seq(S), q # <<>>, NEW X
  PROVE  /\ Tail(q) \in Seq(S)
         /\ Len(Tail(q)) = Len(q) - 1
         /\ Head(q) \in X => Has(q, X)
         /\ Head(q) \in X /\ Single(q, X) => ~Has(Tail(q), X)
         /\ Head(q) \notin X => (Has(Tail(q), X) <=> Has(q, X))
         /\ Has(Tail(q), X) => Has(q, X)
         /\ Single(q, X) => Single(Tail(q), X)
<1> DEFINE r == Tail(q)
<1>1. /\ r \in Seq(S) /\ Len(r) = Len(q) - 1 /\ Len(q) \in Nat /\ Len(q) > 0
      /\ DOMAIN r = 1..Len(q) - 1 /\ DOMAIN q = 1..Len(q)
      /\ \A i \in 1..Len(q) - 1 : r[i] = q[i + 1]
      /\ Head(q) = q[1]
  OBVIOUS
<1> HIDE DEF r
<1>2. Head(q) \in X => Has(q, X)
  BY <1>1 DEF Has
<1>3. Has(r, X) => Has(q, X)
  BY <1>1 DEF Has
<1>4. Head(q) \in X /\ Single(q, X) => ~Has(r, X)
  <2> SUFFICES ASSUME Head(q) \in X, Single(q, X), NEW i \in DOMAIN r, r[i] \in X
               PROVE  FALSE
    BY DEF Has
  <2>1. i + 1 \in DOMAIN q /\ q[i + 1] \in X /\ 1 \in DOMAIN q /\ q[1] \in X
    BY <1>1
  <2>2. QED
    BY <1>1, <2>1 DEF Single
<1>5. Head(q) \notin X /\ Has(q, X) => Has(r, X)
  <2> SUFFICES ASSUME Head(q) \notin X, NEW i \in DOMAIN q, q[i] \in X
               PROVE  Has(r, X)
    BY DEF Has
  <2>1. i # 1 /\ i - 1 \in DOMAIN r /\ r[i - 1] = q[(i - 1) + 1]
    BY <1>1
  <2>2. r[i - 1] = q[i]
    BY <1>1, <2>1
  <2>3. QED
    BY <2>1, <2>2 DEF Has
<1>6. Single(q, X) => Single(r, X)
  <2> SUFFICES ASSUME Single(q, X), NEW i \in DOMAIN r, NEW j \in DOMAIN r,
                      r[i] \in X, r[j] \in X
               PROVE  i = j
    BY DEF Single
  <2>1. /\ i + 1 \in DOMAIN q /\ j + 1 \in DOMAIN q
        /\ q[i + 1] \in X /\ q[j + 1] \in X
    BY <1>1
  <2>2. i + 1 = j + 1
    BY <2>1 DEF Single
  <2>3. QED
    BY <1>1, <2>2
<1>7. QED
  BY <1>1, <1>2, <1>3, <1>4, <1>5, <1>6 DEF r

LEMMA Empty ==
  ASSUME NEW X
  PROVE  ~Has(<<>>, X) /\ Single(<<>>, X)
BY DEF Has, Single

-----------------------------------------------------------------------------
(* What the helpers do to the queues and the latch. *)
Fault == {"NONE", "EVENT_LOST", "PORT_NOT_READY", "UNRECOVERABLE"}

CommsTyped == comms_queue \in Seq(CommsEvent) /\ Len(comms_queue) <= QueueLength
AppTyped == app_queue \in Seq(AppEvent) /\ Len(app_queue) <= QueueLength
AlarmsTyped == fault \in Fault /\ lost \in SUBSET (AppEvent \cup CommsEvent)

LEMMA SentToComms ==
  ASSUME CommsTyped, AlarmsTyped, NEW e \in CommsEvent, NEW b \in Fault,
         SendToComms(e, b)
  PROVE  /\ CommsTyped' /\ AlarmsTyped'
         /\ \/ /\ comms_queue' = Append(comms_queue, e)
               /\ fault' = b /\ UNCHANGED lost
            \/ /\ comms_queue' = comms_queue /\ lost' = lost \cup {e}
               /\ ~CommsRegistered \/ Len(comms_queue) = QueueLength
<1>1. CASE comms_queue' = Append(comms_queue, e) /\ Len(comms_queue) < QueueLength
           /\ fault' = b /\ UNCHANGED lost
  <2>1. comms_queue' \in Seq(CommsEvent) /\ Len(comms_queue') <= QueueLength
    BY <1>1, ControlConstants DEF CommsTyped
  <2>2. QED
    BY <1>1, <2>1 DEF CommsTyped, AlarmsTyped
<1>2. CASE comms_queue' = comms_queue /\ lost' = lost \cup {e}
           /\ (~CommsRegistered \/ Len(comms_queue) = QueueLength)
           /\ fault' \in Fault
  BY <1>2 DEF CommsTyped, AlarmsTyped
<1>3. QED
  BY <1>1, <1>2 DEF SendToComms, Deliver, LoseEvent, Latched, Fault

LEMMA SentToApp ==
  ASSUME AppTyped, AlarmsTyped, NEW e \in AppEvent, SendToApp(e)
  PROVE  /\ AppTyped' /\ AlarmsTyped'
         /\ \/ /\ app_queue' = Append(app_queue, e) /\ UNCHANGED alarms
            \/ /\ app_queue' = app_queue /\ lost' = lost \cup {e}
               /\ Len(app_queue) = QueueLength
<1>1. CASE app_queue' = Append(app_queue, e) /\ Len(app_queue) < QueueLength
           /\ UNCHANGED alarms
  <2>1. app_queue' \in Seq(AppEvent) /\ Len(app_queue') <= QueueLength
    BY <1>1, ControlConstants DEF AppTyped
  <2>2. QED
    BY <1>1, <2>1 DEF AppTyped, AlarmsTyped, alarms
<1>2. CASE app_queue' = app_queue /\ lost' = lost \cup {e}
           /\ Len(app_queue) = QueueLength /\ fault' \in Fault
  BY <1>2 DEF AppTyped, AlarmsTyped
<1>3. QED
  BY <1>1, <1>2 DEF SendToApp, Deliver, LoseEvent, Latched, Fault, AlarmsTyped, alarms

LEMMA Interrupted ==
  ASSUME NEW S, NEW q \in Seq(S), Len(q) <= QueueLength, NEW e \in S
  PROVE  /\ FromIsr(q, e) \in Seq(S) /\ Len(FromIsr(q, e)) <= QueueLength
         /\ \/ FromIsr(q, e) = Append(q, e)
            \/ FromIsr(q, e) = q /\ Len(q) = QueueLength
<1>1. CASE Len(q) < QueueLength
  <2>1. FromIsr(q, e) = Append(q, e)
    BY <1>1 DEF FromIsr
  <2>2. Append(q, e) \in Seq(S)
    OBVIOUS
  <2>3. Len(Append(q, e)) <= QueueLength
    BY <1>1, ControlConstants
  <2>4. QED
    BY <2>1, <2>2, <2>3, Zenon
<1>2. CASE ~(Len(q) < QueueLength)
  BY <1>2, ControlConstants DEF FromIsr
<1>3. QED
  BY <1>1, <1>2

LEMMA AppTook ==
  ASSUME AppTyped, NEW e, AppTakes(e)
  PROVE  /\ AppTyped' /\ main = "done"
         /\ app_queue # <<>> /\ Head(app_queue) = e /\ app_queue' = Tail(app_queue)
BY ControlConstants DEF AppTyped, AppTakes, MainIsDone

LEMMA CommsTook ==
  ASSUME CommsTyped, NEW e, CommsTakes(e)
  PROVE  /\ CommsTyped' /\ main = "done" /\ comms = "waiting"
         /\ comms_queue # <<>> /\ Head(comms_queue) = e
         /\ comms_queue' = Tail(comms_queue)
BY ControlConstants DEF CommsTyped, CommsTakes, MainIsDone

(* The wait after a wait stays between the base and the cap. *)
LEMMA Backoff ==
  ASSUME NEW d \in RetryBase..RetryMax
  PROVE  Doubled(d) \in RetryBase..RetryMax
<1>1. CASE d > RetryMax \div 2
  BY <1>1, ControlConstants DEF Doubled
<1>2. CASE ~(d > RetryMax \div 2)
  <2>1. RetryMax \div 2 \in Nat /\ 2 * (RetryMax \div 2) <= RetryMax
    BY ControlConstants
  <2>2. QED
    BY <1>2, <2>1, ControlConstants DEF Doubled
<1>3. QED
  BY <1>1, <1>2

-----------------------------------------------------------------------------
(* The rest of TypeOK, by what belongs together. *)
StateTyped ==
  /\ main \in {"services_up", "machine_up", "done"}
  /\ bring_up \in {"ready", "acquisition", "comms"}
  /\ posted \in SUBSET OpenEvents
  /\ state \in {"STARTUP", "LISTENING", "DISPATCHING", "SOFT_ERROR", "HARD_ERROR"}
  /\ comms \in {"waiting", "joining", "dispatching"}
FlagsTyped == joined \in BOOLEAN /\ dispatch_enabled \in BOOLEAN /\ dispatch_timer \in BOOLEAN
RetryTyped ==
  /\ retry_timer \in 0..RetryMax
  /\ retry_delay \in RetryBase..RetryMax
  /\ setbacks \in 0..MaxSetbacks

LEMMA Typed ==
  TypeOK <=> /\ StateTyped /\ FlagsTyped /\ RetryTyped
             /\ AppTyped /\ CommsTyped /\ AlarmsTyped
BY DEF TypeOK, StateTyped, FlagsTyped, RetryTyped, AppTyped, CommsTyped,
       AlarmsTyped, Fault

LEMMA TypedNext ==
  TypeOK' <=> /\ StateTyped' /\ FlagsTyped' /\ RetryTyped'
              /\ AppTyped' /\ CommsTyped' /\ AlarmsTyped'
BY Typed, PTL

LEMMA Scheduled ==
  ASSUME RetryTyped, ScheduleRetry
  PROVE  RetryTyped' /\ retry_timer' > 0
BY Backoff, ControlConstants DEF RetryTyped, ScheduleRetry

LEMMA TypeInit == Init => TypeOK
<1> SUFFICES ASSUME Init
             PROVE  TypeOK
  OBVIOUS
<1>1. StateTyped /\ FlagsTyped
  BY DEF Init, StateTyped, FlagsTyped
<1>2. RetryTyped
  BY ControlConstants DEF Init, RetryTyped
<1>3. AppTyped /\ CommsTyped
  <2>1. app_queue = <<>> /\ comms_queue = <<>>
    BY DEF Init
  <2>2. <<>> \in Seq(AppEvent) /\ <<>> \in Seq(CommsEvent) /\ Len(<<>>) = 0
    OBVIOUS
  <2>3. QED
    BY <2>1, <2>2, ControlConstants DEF AppTyped, CommsTyped
<1>4. AlarmsTyped
  BY DEF Init, AlarmsTyped, Fault
<1>5. QED
  BY <1>1, <1>2, <1>3, <1>4, Typed

LEMMA TypeMain ==
  ASSUME TypeOK, Main
  PROVE  TypeOK'
<1>1. StateTyped /\ FlagsTyped /\ RetryTyped /\ AppTyped /\ CommsTyped /\ AlarmsTyped
  BY Typed
<1>2. CASE InitStateMachine
  <2>1. CommsTyped' /\ AlarmsTyped'
    <3>1. SendToComms("JOIN_NETWORK", fault) /\ fault \in Fault
      BY <1>1, <1>2 DEF InitStateMachine, AlarmsTyped
    <3>2. QED
      BY <1>1, <3>1, SentToComms DEF CommsEvent
  <2>2. StateTyped' /\ FlagsTyped' /\ RetryTyped' /\ AppTyped'
    BY <1>1, <1>2 DEF InitStateMachine, StateTyped, FlagsTyped, RetryTyped,
                      AppTyped, link, dispatching, retry
  <2>3. QED
    BY <2>1, <2>2, TypedNext
<1>3. CASE AnnounceServices
  <2>1. AppTyped' /\ AlarmsTyped'
    <3>1. CASE bring_up = "ready"
      <4>1. SendToApp("SERVICES_READY")
        BY <1>3, <3>1 DEF AnnounceServices
      <4>2. QED
        BY <1>1, <4>1, SentToApp DEF AppEvent
    <3>2. CASE bring_up # "ready"
      <4>1. SendToApp("SERVICES_FAILED")
        BY <1>3, <3>2 DEF AnnounceServices
      <4>2. QED
        BY <1>1, <4>1, SentToApp DEF AppEvent
    <3>3. QED
      BY <3>1, <3>2
  <2>2. StateTyped' /\ FlagsTyped' /\ RetryTyped' /\ CommsTyped'
    BY <1>1, <1>3 DEF AnnounceServices, StateTyped, FlagsTyped, RetryTyped,
                      CommsTyped, link, dispatching, retry
  <2>3. QED
    BY <2>1, <2>2, TypedNext
<1>4. QED
  BY <1>2, <1>3 DEF Main

LEMMA TypeApp ==
  ASSUME TypeOK, App
  PROVE  TypeOK'
<1>1. StateTyped /\ FlagsTyped /\ RetryTyped /\ AppTyped /\ CommsTyped /\ AlarmsTyped
  BY Typed
<1>2. AppTyped' /\ FlagsTyped'
  <2>1. FlagsTyped'
    BY <1>1 DEF App, OnJoined, OnJoinFailed, OnRetryTimeout, OnServicesFailed,
                OnHardError, OnSoftError, OnDispatchStarted, OnDispatchFinished,
                OnOther, EnterHardError, link, dispatching, FlagsTyped
  <2>2. \E e \in AppEvent \cup {"HARD_ERROR", "SOFT_ERROR", "DISPATCH_STARTED",
                                "DISPATCH_FINISHED"} : AppTakes(e)
    BY DEF App, OnJoined, OnJoinFailed, OnRetryTimeout, OnServicesFailed,
           OnHardError, OnSoftError, OnDispatchStarted, OnDispatchFinished,
           OnOther, AppEvent, Outcome
  <2>3. QED
    BY <1>1, <2>1, <2>2, AppTook
<1>3. StateTyped'
  BY <1>1 DEF App, OnJoined, OnJoinFailed, OnRetryTimeout, OnServicesFailed,
              OnHardError, OnSoftError, OnDispatchStarted, OnDispatchFinished,
              OnOther, EnterHardError, EnterListening, boot, link, StateTyped
<1>4. RetryTyped'
  <2>1. CASE OnJoinFailed \/ OnSoftError
    BY <1>1, <2>1, Scheduled DEF OnJoinFailed, OnSoftError
  <2>2. CASE OnJoined
    <3>1. /\ retry_timer' \in {0, retry_timer}
          /\ retry_delay' \in {RetryBase, retry_delay} /\ setbacks' = 0
      BY <2>2 DEF OnJoined, EnterListening, LeaveState
    <3>2. QED
      BY <1>1, <3>1, ControlConstants DEF RetryTyped
  <2>3. CASE OnHardError \/ OnServicesFailed
    <3>1. /\ retry_timer' \in {0, retry_timer}
          /\ UNCHANGED <<retry_delay, setbacks>>
      BY <2>3 DEF OnHardError, OnServicesFailed, EnterHardError, LeaveState
    <3>2. QED
      BY <1>1, <3>1, ControlConstants DEF RetryTyped
  <2>4. CASE OnRetryTimeout \/ OnDispatchStarted \/ OnDispatchFinished \/ OnOther
    BY <1>1, <2>4 DEF OnRetryTimeout, OnDispatchStarted, OnDispatchFinished,
                      OnOther, retry, RetryTyped
  <2>5. QED
    BY <2>1, <2>2, <2>3, <2>4 DEF App
<1>5. CommsTyped' /\ AlarmsTyped'
  <2>1. CASE UNCHANGED <<comms_queue, alarms>>
    BY <1>1, <2>1 DEF CommsTyped, AlarmsTyped, alarms
  <2>2. CASE \E e \in CommsEvent :
               SendToComms(e, fault) \/ SendToComms(e, Latched(fault, "UNRECOVERABLE"))
    <3>1. fault \in Fault /\ Latched(fault, "UNRECOVERABLE") \in Fault
      BY <1>1 DEF AlarmsTyped, Latched, Fault
    <3>2. QED
      BY <1>1, <2>2, <3>1, SentToComms
  <2>3. QED
    BY <2>1, <2>2
       DEF App, OnJoined, OnJoinFailed, OnRetryTimeout, OnServicesFailed,
           OnHardError, OnSoftError, OnDispatchStarted, OnDispatchFinished,
           OnOther, EnterHardError, EnterListening, CommsEvent
<1>6. QED
  BY <1>2, <1>3, <1>4, <1>5, TypedNext

LEMMA TypeComms ==
  ASSUME TypeOK, Comms
  PROVE  TypeOK'
<1>1. StateTyped /\ FlagsTyped /\ RetryTyped /\ AppTyped /\ CommsTyped /\ AlarmsTyped
  BY Typed
<1>2. CASE EndJoin
  <2>1. joined' \in BOOLEAN
    BY <1>1, <1>2 DEF EndJoin, AfterConnect, FlagsTyped
  <2>2. AppTyped' /\ AlarmsTyped'
    <3>1. \E e \in AppEvent : SendToApp(e)
      BY <1>2 DEF EndJoin, ReportOutcome, AppEvent, Outcome
    <3>2. QED
      BY <1>1, <3>1, SentToApp
  <2>3. StateTyped' /\ FlagsTyped' /\ RetryTyped' /\ CommsTyped'
    BY <1>1, <1>2, <2>1 DEF EndJoin, StateTyped, FlagsTyped, RetryTyped,
                            CommsTyped, boot, dispatching, retry
  <2>4. QED
    BY <2>2, <2>3, TypedNext
<1>3. CASE EndDispatch
  <2>1. joined' \in BOOLEAN
    BY <1>1, <1>3 DEF EndDispatch, AfterSending, FlagsTyped
  <2>2. QED
    BY <1>1, <1>3, <2>1, TypedNext
       DEF EndDispatch, StateTyped, FlagsTyped, RetryTyped, AppTyped, CommsTyped,
           AlarmsTyped, boot, dispatching, retry, alarms
<1>4. CASE BeginJoin \/ StartDispatch \/ StopDispatch \/ BeginDispatch \/ SkipDispatch
  <2>1. \E e : CommsTakes(e)
    BY <1>4 DEF BeginJoin, StartDispatch, StopDispatch, BeginDispatch, SkipDispatch
  <2>2. CommsTyped'
    BY <1>1, <2>1, CommsTook
  <2>3. StateTyped' /\ FlagsTyped'
    BY <1>1, <1>4 DEF BeginJoin, StartDispatch, StopDispatch, BeginDispatch,
                      SkipDispatch, StateTyped, FlagsTyped, boot, link, dispatching
  <2>4. RetryTyped' /\ AppTyped' /\ AlarmsTyped'
    BY <1>1, <1>4 DEF BeginJoin, StartDispatch, StopDispatch, BeginDispatch,
                      SkipDispatch, RetryTyped, AppTyped, AlarmsTyped, retry, alarms
  <2>5. QED
    BY <2>2, <2>3, <2>4, TypedNext
<1>5. QED
  BY <1>2, <1>3, <1>4 DEF Comms

LEMMA TypeTimers ==
  ASSUME TypeOK, RetryTimerExpires \/ DispatchTimerExpires \/ PostOpenEvent
  PROVE  TypeOK'
<1>1. StateTyped /\ FlagsTyped /\ RetryTyped /\ AppTyped /\ CommsTyped /\ AlarmsTyped
  BY Typed
<1>2. CASE RetryTimerExpires \/ PostOpenEvent
  <2>1. \E e \in AppEvent : app_queue' = FromIsr(app_queue, e)
    BY <1>1, <1>2 DEF RetryTimerExpires, PostOpenEvent, AppEvent, StateTyped
  <2>2. AppTyped'
    BY <1>1, <2>1, Interrupted DEF AppTyped
  <2>3. RetryTyped'
    BY <1>1, <1>2, ControlConstants
       DEF RetryTimerExpires, PostOpenEvent, OneShot, RetryTyped, retry
  <2>4. StateTyped' /\ FlagsTyped' /\ CommsTyped' /\ AlarmsTyped'
    BY <1>1, <1>2 DEF RetryTimerExpires, PostOpenEvent, StateTyped, FlagsTyped,
                      CommsTyped, AlarmsTyped, boot, link, dispatching, alarms
  <2>5. QED
    BY <2>2, <2>3, <2>4, TypedNext
<1>3. CASE DispatchTimerExpires
  <2>1. CommsTyped'
    BY <1>1, <1>3, Interrupted DEF DispatchTimerExpires, CommsTyped, CommsEvent
  <2>2. QED
    BY <1>1, <1>3, <2>1, TypedNext
       DEF DispatchTimerExpires, StateTyped, FlagsTyped, RetryTyped, AppTyped,
           AlarmsTyped, boot, link, dispatching, retry, alarms
<1>4. QED
  BY <1>2, <1>3

LEMMA TypeStep == TypeOK /\ [Next]_vars => TypeOK'
<1> SUFFICES ASSUME TypeOK, [Next]_vars
             PROVE  TypeOK'
  OBVIOUS
<1>1. CASE UNCHANGED vars
  BY <1>1 DEF vars, TypeOK
<1>2. QED
  BY <1>1, TypeMain, TypeApp, TypeComms, TypeTimers DEF Next

(* The control plane keeps its types: both queues stay within their         *)
(* capacity and the retry delay between its base and its cap.               *)
THEOREM ControlTypes == Spec => []TypeOK
BY TypeInit, TypeStep, PTL DEF Spec

-----------------------------------------------------------------------------
(* The two queues, seen through one kind of events. *)
LEMMA AppConsumes ==
  ASSUME AppTyped, NEW e, AppTakes(e), NEW X
  PROVE  /\ e \in X => Has(app_queue, X)
         /\ e \in X /\ Single(app_queue, X) => ~Has(app_queue', X)
         /\ e \notin X => (Has(app_queue', X) <=> Has(app_queue, X))
         /\ Has(app_queue', X) => Has(app_queue, X)
         /\ Single(app_queue, X) => Single(app_queue', X)
<1>1. /\ app_queue \in Seq(AppEvent) /\ app_queue # <<>>
      /\ Head(app_queue) = e /\ app_queue' = Tail(app_queue)
  BY AppTook DEF AppTyped
<1>2. QED
  BY <1>1, Shrunk

LEMMA CommsConsumes ==
  ASSUME CommsTyped, NEW e, CommsTakes(e), NEW X
  PROVE  /\ e \in X => Has(comms_queue, X)
         /\ e \in X /\ Single(comms_queue, X) => ~Has(comms_queue', X)
         /\ e \notin X => (Has(comms_queue', X) <=> Has(comms_queue, X))
         /\ Has(comms_queue', X) => Has(comms_queue, X)
         /\ Single(comms_queue, X) => Single(comms_queue', X)
<1>1. /\ comms_queue \in Seq(CommsEvent) /\ comms_queue # <<>>
      /\ Head(comms_queue) = e /\ comms_queue' = Tail(comms_queue)
  BY CommsTook DEF CommsTyped
<1>2. QED
  BY <1>1, Shrunk

LEMMA AppReceives ==
  ASSUME AppTyped, NEW e \in AppEvent, app_queue' = Append(app_queue, e), NEW X
  PROVE  /\ Has(app_queue', X) <=> Has(app_queue, X) \/ e \in X
         /\ Single(app_queue, X) /\ (e \in X => ~Has(app_queue, X))
              => Single(app_queue', X)
BY Grown DEF AppTyped

LEMMA CommsReceives ==
  ASSUME CommsTyped, NEW e \in CommsEvent, comms_queue' = Append(comms_queue, e),
         NEW X
  PROVE  /\ Has(comms_queue', X) <=> Has(comms_queue, X) \/ e \in X
         /\ Single(comms_queue, X) /\ (e \in X => ~Has(comms_queue, X))
              => Single(comms_queue', X)
BY Grown DEF CommsTyped

(* Whatever becomes of an event sent to comms, nothing else of X arrives. *)
LEMMA CommsSent ==
  ASSUME CommsTyped, AlarmsTyped, NEW e \in CommsEvent, NEW b \in Fault,
         SendToComms(e, b), NEW X
  PROVE  /\ e \notin X => (Has(comms_queue', X) <=> Has(comms_queue, X))
         /\ Single(comms_queue, X) /\ (e \in X => ~Has(comms_queue, X))
              => Single(comms_queue', X)
         /\ e \in X => Has(comms_queue', X) \/ lost' # {}
         /\ lost' = {} => lost = {}
<1>1. CASE comms_queue' = Append(comms_queue, e) /\ UNCHANGED lost
  BY <1>1, CommsReceives
<1>2. CASE comms_queue' = comms_queue /\ lost' = lost \cup {e}
  BY <1>2
<1>3. QED
  BY <1>1, <1>2, SentToComms

-----------------------------------------------------------------------------
(* The one join attempt, wherever it is: a token that the retry timer, the   *)
(* application's queue, comms' queue and connect() hand on.                 *)
Tok == {"NETWORK_JOINED", "NETWORK_JOIN_FAILED", "RETRY_TIMEOUT"}
Others == AppEvent \ Tok
Join == {"JOIN_NETWORK"}

Armed == retry_timer # 0
Told == Has(app_queue, Tok)
Asked == Has(comms_queue, Join)
Joining == comms = "joining"

Once ==
  /\ Single(app_queue, Tok) /\ Single(app_queue, Others) /\ Single(comms_queue, Join)
  /\ ~(Armed /\ Told) /\ ~(Armed /\ Asked) /\ ~(Armed /\ Joining)
  /\ ~(Told /\ Asked) /\ ~(Told /\ Joining) /\ ~(Asked /\ Joining)

Booting ==
  /\ main # "done" => /\ app_queue = <<>> /\ state = "STARTUP"
                      /\ comms = "waiting" /\ ~dispatch_timer
  /\ main = "services_up" => comms_queue = <<>>

Where ==
  /\ Armed => state = "SOFT_ERROR"
  /\ state \in {"LISTENING", "DISPATCHING"} => ~Told /\ ~Asked /\ ~Joining
  /\ state = "STARTUP" => ~Has(app_queue, {"RETRY_TIMEOUT"})
  /\ main # "services_up" /\ lost = {} /\ state \in {"STARTUP", "SOFT_ERROR"}
       => Armed \/ Told \/ Asked \/ Joining

OneJoin == Once /\ Booting /\ Where

(* With one token and one other event the application's queue has room. *)
LEMMA AppHasRoom ==
  ASSUME AppTyped, Once
  PROVE  Len(app_queue) < QueueLength
<1> SUFFICES ASSUME Len(app_queue) >= 3
             PROVE  FALSE
  BY ControlConstants DEF AppTyped
<1>1. /\ 1 \in DOMAIN app_queue /\ 2 \in DOMAIN app_queue /\ 3 \in DOMAIN app_queue
      /\ app_queue[1] \in AppEvent /\ app_queue[2] \in AppEvent
      /\ app_queue[3] \in AppEvent
  BY DEF AppTyped
<1>2. \A i, j \in DOMAIN app_queue :
        \/ app_queue[i] \in Tok /\ app_queue[j] \in Tok
        \/ app_queue[i] \in Others /\ app_queue[j] \in Others
        => i = j
  BY DEF Once, Single
<1>3. QED
  BY <1>1, <1>2 DEF Others

LEMMA OneJoinInit == Init => OneJoin
<1> SUFFICES ASSUME Init
             PROVE  OneJoin
  OBVIOUS
<1>1. app_queue = <<>> /\ comms_queue = <<>>
  BY DEF Init
<1>2. \A X : ~Has(app_queue, X) /\ Single(app_queue, X)
  BY <1>1, Empty
<1>3. \A X : ~Has(comms_queue, X) /\ Single(comms_queue, X)
  BY <1>1, Empty
<1>4. QED
  BY <1>1, <1>2, <1>3 DEF Init, OneJoin, Once, Booting, Where, Armed, Told, Asked, Joining

LEMMA OneJoinMain ==
  ASSUME TypeOK, OneJoin, Main
  PROVE  OneJoin'
<1>1. AppTyped /\ CommsTyped /\ AlarmsTyped
  BY Typed
<1>2. CASE InitStateMachine
  <2>1. SendToComms("JOIN_NETWORK", fault) /\ fault \in Fault
    BY <1>1, <1>2 DEF InitStateMachine, AlarmsTyped
  <2>2. comms_queue = <<>> /\ ~Asked /\ Single(comms_queue, Join) /\ ~Told
        /\ state = "STARTUP" /\ comms = "waiting" /\ ~dispatch_timer
        /\ app_queue = <<>> /\ ~Armed
    BY <1>2, Empty DEF InitStateMachine, OneJoin, Once, Booting, Where, Asked, Told
  <2>3. Single(comms_queue', Join) /\ (Asked' \/ lost' # {})
    BY <1>1, <2>1, <2>2, CommsSent DEF CommsEvent, Join, Asked
  <2>4. UNCHANGED <<state, app_queue, comms, retry_timer, dispatch_timer>>
        /\ main' = "machine_up"
    BY <1>2 DEF InitStateMachine, link, dispatching, retry
  <2>5. QED
    BY <2>2, <2>3, <2>4 DEF OneJoin, Once, Booting, Where, Armed, Told, Asked, Joining
<1>3. CASE AnnounceServices
  <2>1. PICK e \in {"SERVICES_READY", "SERVICES_FAILED"} : SendToApp(e)
    BY <1>3 DEF AnnounceServices
  <2>2. e \in AppEvent /\ e \in Others /\ e \notin Tok /\ e # "RETRY_TIMEOUT"
    BY DEF AppEvent, Others, Tok
  <2>3. app_queue' = Append(app_queue, e) /\ UNCHANGED lost
    BY <1>1, <2>1, <2>2, SentToApp, AppHasRoom DEF OneJoin, AppTyped, alarms
  <2>4. app_queue = <<>> /\ ~Has(app_queue, Others)
    BY <1>3, Empty DEF AnnounceServices, OneJoin, Booting
  <2>5. Single(app_queue', Tok) /\ Single(app_queue', Others)
    BY <1>1, <2>2, <2>3, <2>4, AppReceives DEF OneJoin, Once
  <2>6. Told' <=> Told
    BY <1>1, <2>2, <2>3, AppReceives DEF Told
  <2>7. Has(app_queue', {"RETRY_TIMEOUT"}) <=> Has(app_queue, {"RETRY_TIMEOUT"})
    BY <1>1, <2>2, <2>3, AppReceives
  <2>8. /\ UNCHANGED <<state, comms_queue, comms, retry_timer, dispatch_timer, lost>>
        /\ main = "machine_up" /\ main' = "done"
    BY <1>3, <2>3 DEF AnnounceServices, link, dispatching, retry
  <2>9. QED
    BY <2>5, <2>6, <2>7, <2>8 DEF OneJoin, Once, Booting, Where, Armed, Told, Asked, Joining
<1>4. QED
  BY <1>2, <1>3 DEF Main

LEMMA OneJoinApp ==
  ASSUME TypeOK, OneJoin, App
  PROVE  OneJoin'
<1>1. AppTyped /\ CommsTyped /\ AlarmsTyped /\ fault \in Fault
      /\ Latched(fault, "UNRECOVERABLE") \in Fault
  BY Typed DEF AlarmsTyped, Latched, Fault
<1>2. PICK e : AppTakes(e) /\ main = "done" /\ UNCHANGED <<main, comms>>
  BY AppTook, <1>1 DEF App, OnJoined, OnJoinFailed, OnRetryTimeout, OnServicesFailed,
     OnHardError, OnSoftError, OnDispatchStarted, OnDispatchFinished, OnOther,
     EnterHardError, boot, link
<1>3. /\ Single(app_queue', Tok) /\ Single(app_queue', Others)
      /\ (Told' => Told) /\ (Has(app_queue', {"RETRY_TIMEOUT"})
                               => Has(app_queue, {"RETRY_TIMEOUT"}))
  BY <1>1, <1>2, AppConsumes DEF OneJoin, Once, Told
<1>4. ASSUME NEW d \in Tok, AppTakes(d)
      PROVE  Told /\ ~Told'
  BY <1>1, <1>4, AppConsumes DEF OneJoin, Once, Told
<1>5. ASSUME NEW d, d \notin Tok, AppTakes(d)
      PROVE  Told' <=> Told
  BY <1>1, <1>5, AppConsumes DEF Told
<1>6. ASSUME UNCHANGED <<comms_queue, alarms>>
      PROVE  (Asked' <=> Asked) /\ Single(comms_queue', Join) /\ lost' = lost
  BY <1>6 DEF OneJoin, Once, Asked, alarms
<1>7. ASSUME NEW d \in CommsEvent \ Join, NEW b \in Fault, SendToComms(d, b)
      PROVE  (Asked' <=> Asked) /\ Single(comms_queue', Join) /\ (lost' = {} => lost = {})
  BY <1>1, <1>7, CommsSent DEF OneJoin, Once, Asked
<1>8. CASE OnJoined
  <2>1. AppTakes("NETWORK_JOINED") /\ SendToComms("START_DISPATCH", fault)
        /\ retry_timer' \in {0, retry_timer} /\ state' = "LISTENING"
    BY <1>8 DEF OnJoined, EnterListening, LeaveState
  <2>2. Told /\ ~Told'
    BY <1>4, <2>1 DEF Tok
  <2>3. (Asked' <=> Asked) /\ Single(comms_queue', Join)
    BY <1>1, <1>7, <2>1 DEF CommsEvent, Join
  <2>4. QED
    BY <1>2, <1>3, <2>1, <2>2, <2>3
       DEF OneJoin, Once, Booting, Where, Armed, Joining
<1>9. CASE OnJoinFailed
  <2>1. AppTakes("NETWORK_JOIN_FAILED") /\ state' = "SOFT_ERROR"
        /\ UNCHANGED <<comms_queue, alarms>>
    BY <1>9 DEF OnJoinFailed
  <2>2. Told /\ ~Told'
    BY <1>4, <2>1 DEF Tok
  <2>3. (Asked' <=> Asked) /\ Single(comms_queue', Join)
    BY <1>6, <2>1
  <2>4. Armed'
    BY <1>9, Typed, Scheduled DEF OnJoinFailed, Armed
  <2>5. QED
    BY <1>2, <1>3, <2>1, <2>2, <2>3, <2>4
       DEF OneJoin, Once, Booting, Where, Joining
<1>10. CASE OnRetryTimeout
  <2>1. /\ AppTakes("RETRY_TIMEOUT") /\ SendToComms("JOIN_NETWORK", fault)
        /\ state = "SOFT_ERROR" /\ UNCHANGED <<state, retry_timer>>
    BY <1>10 DEF OnRetryTimeout, retry
  <2>2. Told /\ ~Told'
    BY <1>4, <2>1 DEF Tok
  <2>3. ~Asked /\ ~Joining /\ ~Armed
    BY <2>2 DEF OneJoin, Once
  <2>4. Single(comms_queue', Join) /\ (Asked' \/ lost' # {})
    BY <1>1, <2>1, <2>3, CommsSent DEF CommsEvent, Join, Asked, OneJoin, Once
  <2>5. QED
    BY <1>2, <1>3, <2>1, <2>2, <2>3, <2>4
       DEF OneJoin, Once, Booting, Where, Armed, Joining
<1>11. CASE OnServicesFailed \/ OnHardError
  <2>1. /\ \E d \in {"SERVICES_FAILED", "HARD_ERROR"} : AppTakes(d)
        /\ SendToComms("STOP_DISPATCH", Latched(fault, "UNRECOVERABLE"))
        /\ state' = "HARD_ERROR"
        /\ retry_timer' = IF state = "SOFT_ERROR" THEN 0 ELSE retry_timer
    BY <1>11 DEF OnServicesFailed, OnHardError, EnterHardError, LeaveState
  <2>2. Told' <=> Told
    BY <1>5, <2>1 DEF Tok
  <2>3. (Asked' <=> Asked) /\ Single(comms_queue', Join)
    BY <1>1, <1>7, <2>1 DEF CommsEvent, Join
  <2>4. ~Armed'
    BY <2>1 DEF OneJoin, Where, Armed
  <2>5. QED
    BY <1>2, <1>3, <2>1, <2>2, <2>3, <2>4
       DEF OneJoin, Once, Booting, Where, Joining
<1>12. CASE OnSoftError
  <2>1. AppTakes("SOFT_ERROR") /\ state' = "SOFT_ERROR"
        /\ UNCHANGED <<comms_queue, alarms>> /\ state \in {"LISTENING", "DISPATCHING"}
    BY <1>12 DEF OnSoftError
  <2>2. (Told' <=> Told) /\ ~Told /\ ~Asked /\ ~Joining
    BY <1>5, <2>1 DEF Tok, OneJoin, Where
  <2>3. (Asked' <=> Asked) /\ Single(comms_queue', Join)
    BY <1>6, <2>1
  <2>4. Armed'
    BY <1>12, Typed, Scheduled DEF OnSoftError, Armed
  <2>5. QED
    BY <1>2, <1>3, <2>1, <2>2, <2>3, <2>4
       DEF OneJoin, Once, Booting, Where, Joining
<1>13. CASE OnDispatchStarted \/ OnDispatchFinished
  <2>1. /\ \E d \in {"DISPATCH_STARTED", "DISPATCH_FINISHED"} : AppTakes(d)
        /\ state \in {"LISTENING", "DISPATCHING"} /\ state' \in {"LISTENING", "DISPATCHING"}
        /\ retry_timer' = retry_timer
        /\ UNCHANGED <<comms_queue, alarms>> \/ SendToComms("START_DISPATCH", fault)
    BY <1>13 DEF OnDispatchStarted, OnDispatchFinished, retry
  <2>2. Told' <=> Told
    BY <1>5, <2>1 DEF Tok
  <2>3. (Asked' <=> Asked) /\ Single(comms_queue', Join)
    BY <1>1, <1>6, <1>7, <2>1 DEF CommsEvent, Join
  <2>4. QED
    BY <1>2, <1>3, <2>1, <2>2, <2>3
       DEF OneJoin, Once, Booting, Where, Armed, Joining
<1>14. CASE OnOther
  <2>1. PICK d \in AppEvent \ Handled : AppTakes(d)
    BY <1>14 DEF OnOther
  <2>2. UNCHANGED <<state, retry_timer, comms_queue, alarms>>
    BY <1>14 DEF OnOther, retry
  <2>3. (Asked' <=> Asked) /\ Single(comms_queue', Join) /\ lost' = lost
    BY <1>6, <2>2
  <2>4. CASE d \notin Tok
    <3>1. Told' <=> Told
      BY <1>5, <2>1, <2>4
    <3>2. QED
      BY <1>2, <1>3, <2>2, <2>3, <3>1
         DEF OneJoin, Once, Booting, Where, Armed, Joining
  <2>5. CASE d \in Tok
    <3>1. Told /\ ~Told'
      BY <1>4, <2>1, <2>5
    <3>2. d = "RETRY_TIMEOUT" => Has(app_queue, {"RETRY_TIMEOUT"})
      BY <1>1, <2>1, AppConsumes
    <3>3. state \notin {"STARTUP", "SOFT_ERROR"}
      BY <2>1, <2>5, <3>2 DEF Handled, Tok, Outcome, OneJoin, Where
    <3>4. QED
      BY <1>2, <1>3, <2>2, <2>3, <3>1, <3>3
         DEF OneJoin, Once, Booting, Where, Armed, Joining
  <2>6. QED
    BY <2>4, <2>5
<1>15. QED
  BY <1>8, <1>9, <1>10, <1>11, <1>12, <1>13, <1>14 DEF App

LEMMA OneJoinComms ==
  ASSUME TypeOK, OneJoin, Comms
  PROVE  OneJoin'
<1>1. AppTyped /\ CommsTyped /\ AlarmsTyped
  BY Typed
<1>2. CASE EndJoin
  <2>1. PICK e \in Outcome : SendToApp(e)
    BY <1>2 DEF EndJoin, ReportOutcome, Outcome
  <2>2. e \in AppEvent /\ e \in Tok /\ e \notin Others /\ e # "RETRY_TIMEOUT"
    BY DEF AppEvent, Others, Tok, Outcome
  <2>3. app_queue' = Append(app_queue, e) /\ UNCHANGED lost
    BY <1>1, <2>1, <2>2, SentToApp, AppHasRoom DEF OneJoin, AppTyped, alarms
  <2>4. Joining /\ ~Told /\ ~Armed /\ ~Asked /\ ~Joining' /\ main = "done"
    BY <1>2 DEF EndJoin, OneJoin, Once, Booting, Joining
  <2>5. Single(app_queue', Tok) /\ Single(app_queue', Others) /\ Told'
    BY <1>1, <2>2, <2>3, <2>4, AppReceives DEF OneJoin, Once, Told
  <2>6. Has(app_queue', {"RETRY_TIMEOUT"}) <=> Has(app_queue, {"RETRY_TIMEOUT"})
    BY <1>1, <2>2, <2>3, AppReceives
  <2>7. UNCHANGED <<main, state, comms_queue, retry_timer, lost>>
    BY <1>2, <2>3 DEF EndJoin, boot, retry
  <2>8. QED
    BY <2>4, <2>5, <2>6, <2>7 DEF OneJoin, Once, Booting, Where, Armed, Asked, Joining
<1>3. CASE BeginJoin
  <2>1. /\ CommsTakes("JOIN_NETWORK") /\ Joining'
        /\ UNCHANGED <<main, state, app_queue, retry_timer, lost>>
    BY <1>3 DEF BeginJoin, boot, retry, alarms, Joining
  <2>2. main = "done" /\ Asked /\ ~Asked' /\ Single(comms_queue', Join)
    BY <1>1, <2>1, CommsConsumes, CommsTook DEF Join, Asked, OneJoin, Once
  <2>3. QED
    BY <2>1, <2>2 DEF OneJoin, Once, Booting, Where, Armed, Told, Joining
<1>4. CASE StartDispatch \/ StopDispatch \/ BeginDispatch \/ SkipDispatch
  <2>1. /\ \E e \in CommsEvent \ Join : CommsTakes(e)
        /\ (Joining' <=> Joining)
        /\ UNCHANGED <<main, state, app_queue, retry_timer, lost>>
    BY <1>1, <1>4, CommsTook
       DEF StartDispatch, StopDispatch, BeginDispatch, SkipDispatch, boot, retry,
           alarms, link, CommsEvent, Join, Joining
  <2>2. main = "done" /\ (Asked' <=> Asked) /\ Single(comms_queue', Join)
    BY <1>1, <2>1, CommsConsumes, CommsTook DEF Asked, OneJoin, Once
  <2>3. QED
    BY <2>1, <2>2 DEF OneJoin, Once, Booting, Where, Armed, Told
<1>5. CASE EndDispatch
  <2>1. /\ (Joining' <=> Joining) /\ main = "done"
        /\ UNCHANGED <<main, state, app_queue, comms_queue, retry_timer, lost>>
    BY <1>5 DEF EndDispatch, boot, retry, alarms, Joining, OneJoin, Booting
  <2>2. QED
    BY <2>1 DEF OneJoin, Once, Booting, Where, Armed, Told, Asked
<1>6. QED
  BY <1>2, <1>3, <1>4, <1>5 DEF Comms

LEMMA OneJoinTimers ==
  ASSUME TypeOK, OneJoin, RetryTimerExpires \/ DispatchTimerExpires \/ PostOpenEvent
  PROVE  OneJoin'
<1>1. AppTyped /\ CommsTyped
  BY Typed
<1>2. CASE RetryTimerExpires
  <2>1. /\ Armed /\ ~Armed'
        /\ UNCHANGED <<main, state, comms_queue, comms, lost>>
    BY <1>2 DEF RetryTimerExpires, OneShot, Armed, boot, link, alarms
  <2>2. app_queue' = Append(app_queue, "RETRY_TIMEOUT")
    BY <1>1, <1>2, AppHasRoom DEF RetryTimerExpires, FromIsr, OneJoin
  <2>3. ~Told /\ ~Asked /\ ~Joining /\ state = "SOFT_ERROR"
    BY <2>1 DEF OneJoin, Once, Where
  <2>4. Single(app_queue', Tok) /\ Single(app_queue', Others) /\ Told'
    BY <1>1, <2>2, <2>3, AppReceives DEF OneJoin, Once, Told, Tok, Others, AppEvent
  <2>5. QED
    BY <2>1, <2>3, <2>4 DEF OneJoin, Once, Booting, Where, Asked, Joining
<1>3. CASE PostOpenEvent
  <2>1. PICK e \in posted : app_queue' = FromIsr(app_queue, e)
    BY <1>3 DEF PostOpenEvent
  <2>2. e \in AppEvent /\ e \in Others /\ e \notin Tok /\ e # "RETRY_TIMEOUT"
    BY ControlConstants, Typed DEF StateTyped, AppEvent, Others, Tok
  <2>3. app_queue' = Append(app_queue, e)
    BY <1>1, <2>1, AppHasRoom DEF FromIsr, OneJoin
  <2>4. app_queue = <<>> /\ ~Has(app_queue, Others) /\ main = "done"
        /\ UNCHANGED <<main, state, comms_queue, comms, retry_timer, lost>>
    BY <1>3, Empty DEF PostOpenEvent, MainIsDone, boot, link, retry, alarms
  <2>5. Single(app_queue', Tok) /\ Single(app_queue', Others) /\ (Told' <=> Told)
    BY <1>1, <2>2, <2>3, <2>4, AppReceives DEF OneJoin, Once, Told
  <2>6. Has(app_queue', {"RETRY_TIMEOUT"}) <=> Has(app_queue, {"RETRY_TIMEOUT"})
    BY <1>1, <2>2, <2>3, AppReceives
  <2>7. QED
    BY <2>4, <2>5, <2>6 DEF OneJoin, Once, Booting, Where, Armed, Asked, Joining
<1>4. CASE DispatchTimerExpires
  <2>1. /\ dispatch_timer
        /\ UNCHANGED <<main, state, app_queue, comms, retry_timer, lost>>
    BY <1>4 DEF DispatchTimerExpires, boot, link, retry, alarms
  <2>2. \/ comms_queue' = Append(comms_queue, "DISPATCH_DUE")
        \/ comms_queue' = comms_queue
    BY <1>4 DEF DispatchTimerExpires, FromIsr
  <2>3. (Asked' <=> Asked) /\ Single(comms_queue', Join)
    <3>1. CASE comms_queue' = Append(comms_queue, "DISPATCH_DUE")
      BY <1>1, <3>1, CommsReceives DEF Asked, OneJoin, Once, CommsEvent, Join
    <3>2. CASE comms_queue' = comms_queue
      BY <3>2 DEF Asked, OneJoin, Once
    <3>3. QED
      BY <2>2, <3>1, <3>2
  <2>4. QED
    BY <2>1, <2>3 DEF OneJoin, Once, Booting, Where, Armed, Told, Joining
<1>5. QED
  BY <1>2, <1>3, <1>4

LEMMA OneJoinStep == TypeOK /\ OneJoin /\ [Next]_vars => OneJoin'
<1> SUFFICES ASSUME TypeOK, OneJoin, [Next]_vars
             PROVE  OneJoin'
  OBVIOUS
<1>1. CASE UNCHANGED vars
  BY <1>1 DEF vars, OneJoin, Once, Booting, Where, Armed, Told, Asked, Joining
<1>2. QED
  BY <1>1, OneJoinMain, OneJoinApp, OneJoinComms, OneJoinTimers DEF Next

LEMMA OneJoinCounted ==
  ASSUME TypeOK, OneJoin
  PROVE  OneJoinOutstanding
<1>1. AppTyped /\ CommsTyped /\ RetryTyped
  BY Typed
<1> DEFINE T == IF retry_timer > 0 THEN {<<"timer", 0>>} ELSE {}
           A == {<<"app", i>> : i \in {j \in DOMAIN app_queue :
                                app_queue[j] \in Outcome \cup {"RETRY_TIMEOUT"}}}
           C == {<<"comms", i>> : i \in {j \in DOMAIN comms_queue :
                                  comms_queue[j] = "JOIN_NETWORK"}}
           J == IF comms = "joining" THEN {<<"joining", 0>>} ELSE {}
<1>2. JoinTokens = T \cup A \cup C \cup J
  BY DEF JoinTokens
<1>3. (~Armed => T = {}) /\ (Armed => T = {<<"timer", 0>>})
  BY <1>1, ControlConstants DEF Armed, RetryTyped
<1>4. (~Joining => J = {}) /\ (Joining => J = {<<"joining", 0>>})
  BY DEF Joining
<1>5. Outcome \cup {"RETRY_TIMEOUT"} = Tok
  BY DEF Outcome, Tok
<1>6. ~Told => A = {}
  BY <1>5 DEF Told, Has
<1>7. Told => \E x : A = {x}
  <2> SUFFICES ASSUME Told
               PROVE  \E x : A = {x}
    OBVIOUS
  <2>1. PICK i \in DOMAIN app_queue : app_queue[i] \in Tok
    BY DEF Told, Has
  <2>2. {j \in DOMAIN app_queue : app_queue[j] \in Outcome \cup {"RETRY_TIMEOUT"}} = {i}
    BY <1>5, <2>1 DEF OneJoin, Once, Single
  <2>3. A = {<<"app", i>>}
    BY <2>2
  <2>4. QED
    BY <2>3
<1>8. ~Asked => C = {}
  BY DEF Asked, Has, Join
<1>9. Asked => \E x : C = {x}
  <2> SUFFICES ASSUME Asked
               PROVE  \E x : C = {x}
    OBVIOUS
  <2>1. PICK i \in DOMAIN comms_queue : comms_queue[i] = "JOIN_NETWORK"
    BY DEF Asked, Has, Join
  <2>2. {j \in DOMAIN comms_queue : comms_queue[j] = "JOIN_NETWORK"} = {i}
    BY <2>1 DEF OneJoin, Once, Single, Join
  <2>3. C = {<<"comms", i>>}
    BY <2>2
  <2>4. QED
    BY <2>3
<1> HIDE DEF T, A, C, J
<1> SUFFICES ASSUME main # "services_up", lost = {}
             PROVE  /\ state \in {"STARTUP", "SOFT_ERROR"} => Cardinality(JoinTokens) = 1
                    /\ state \in {"LISTENING", "DISPATCHING"} => JoinTokens = {}
  BY DEF OneJoinOutstanding
<1>10. state \in {"LISTENING", "DISPATCHING"} => JoinTokens = {}
  BY <1>2, <1>3, <1>4, <1>6, <1>8 DEF OneJoin, Where
<1>11. state \in {"STARTUP", "SOFT_ERROR"} => Cardinality(JoinTokens) = 1
  <2> SUFFICES ASSUME state \in {"STARTUP", "SOFT_ERROR"}
               PROVE  Cardinality(JoinTokens) = 1
    OBVIOUS
  <2>1. \E x : JoinTokens = {x}
    <3>1. CASE Armed
      BY <1>2, <1>3, <1>4, <1>6, <1>8, <3>1 DEF OneJoin, Once
    <3>2. CASE Told
      BY <1>2, <1>3, <1>4, <1>7, <1>8, <3>2 DEF OneJoin, Once
    <3>3. CASE Asked
      BY <1>2, <1>3, <1>4, <1>6, <1>9, <3>3 DEF OneJoin, Once
    <3>4. CASE Joining
      BY <1>2, <1>3, <1>4, <1>6, <1>8, <3>4 DEF OneJoin, Once
    <3>5. QED
      BY <3>1, <3>2, <3>3, <3>4 DEF OneJoin, Where
  <2>2. QED
    BY <2>1, FS_Singleton
<1>12. QED
  BY <1>10, <1>11

(* A device that is not joined yet has exactly one join attempt going, as    *)
(* long as no event was lost; a device that is joined has none.             *)
THEOREM OneJoinAtATime == Spec => []OneJoinOutstanding
<1>1. Init => OneJoin
  BY OneJoinInit
<1>2. Spec => [](TypeOK /\ OneJoin)
  BY <1>1, TypeInit, TypeStep, OneJoinStep, PTL DEF Spec
<1>3. TypeOK /\ OneJoin => OneJoinOutstanding
  BY OneJoinCounted
<1>4. QED
  BY <1>2, <1>3, PTL

-----------------------------------------------------------------------------
(* HARD_ERROR is for good, so STOP_DISPATCH is the last word: every          *)
(* START_DISPATCH was sent before it, and once it has been taken, nothing    *)
(* that could start a dispatch again is left.                               *)
StartsFirst(q) ==
  \A i, j \in DOMAIN q : q[i] = "START_DISPATCH" /\ q[j] = "STOP_DISPATCH" => i < j

Start == {"START_DISPATCH"}
Stop == {"STOP_DISPATCH"}

Silent ==
  /\ ~Has(comms_queue, Start) /\ comms # "dispatching"
  /\ ~dispatch_timer /\ ~dispatch_enabled

LastWord ==
  /\ state # "HARD_ERROR" => ~Has(comms_queue, Stop)
  /\ state = "HARD_ERROR" /\ "STOP_DISPATCH" \notin lost =>
       /\ StartsFirst(comms_queue)
       /\ ~Has(comms_queue, Stop) => Silent

LEMMA StartsGrown ==
  ASSUME CommsTyped, NEW e \in CommsEvent, comms_queue' = Append(comms_queue, e)
  PROVE  /\ e \notin Start /\ StartsFirst(comms_queue) => StartsFirst(comms_queue')
         /\ e \in Stop /\ ~Has(comms_queue, Stop) => StartsFirst(comms_queue')
<1> DEFINE q == comms_queue
           r == Append(comms_queue, e)
<1>1. /\ Len(q) \in Nat /\ DOMAIN r = 1..Len(q) + 1 /\ DOMAIN q = 1..Len(q)
      /\ \A i \in 1..Len(q) : r[i] = q[i]
      /\ r[Len(q) + 1] = e
  BY DEF CommsTyped
<1> HIDE DEF r, q
<1>2. e \notin Start /\ StartsFirst(q) => StartsFirst(r)
  BY <1>1 DEF StartsFirst, Start
<1>3. e \in Stop /\ ~Has(q, Stop) => StartsFirst(r)
  BY <1>1 DEF StartsFirst, Stop, Has
<1>4. QED
  BY <1>2, <1>3 DEF q, r

LEMMA StartsShrunk ==
  ASSUME CommsTyped, NEW e, CommsTakes(e), StartsFirst(comms_queue)
  PROVE  /\ StartsFirst(comms_queue')
         /\ e \in Stop => ~Has(comms_queue', Start)
<1> DEFINE q == comms_queue
           r == Tail(comms_queue)
<1>1. /\ Len(q) \in Nat /\ Len(q) > 0
      /\ DOMAIN r = 1..Len(q) - 1 /\ DOMAIN q = 1..Len(q)
      /\ \A i \in 1..Len(q) - 1 : r[i] = q[i + 1]
      /\ q[1] = e /\ comms_queue' = r /\ StartsFirst(q)
  BY CommsTook DEF CommsTyped
<1> HIDE DEF q, r
<1>2. StartsFirst(r)
  <2> SUFFICES ASSUME NEW i \in DOMAIN r, NEW j \in DOMAIN r,
                      r[i] = "START_DISPATCH", r[j] = "STOP_DISPATCH"
               PROVE  i < j
    BY DEF StartsFirst
  <2>1. /\ i + 1 \in DOMAIN q /\ j + 1 \in DOMAIN q
        /\ q[i + 1] = "START_DISPATCH" /\ q[j + 1] = "STOP_DISPATCH"
    BY <1>1
  <2>2. i + 1 < j + 1
    BY <1>1, <2>1 DEF StartsFirst
  <2>3. QED
    BY <1>1, <2>2
<1>3. ASSUME e \in Stop, NEW i \in DOMAIN r, r[i] \in Start
      PROVE  FALSE
  <2>1. /\ i + 1 \in DOMAIN q /\ q[i + 1] = "START_DISPATCH"
        /\ 1 \in DOMAIN q /\ q[1] = "STOP_DISPATCH"
    BY <1>1, <1>3 DEF Start, Stop
  <2>2. i + 1 < 1
    BY <1>1, <2>1 DEF StartsFirst
  <2>3. QED
    BY <1>1, <1>3, <2>2
<1>4. QED
  BY <1>1, <1>2, <1>3 DEF Has

LEMMA LastWordInit == Init => LastWord
BY Empty DEF Init, LastWord

LEMMA LastWordMain ==
  ASSUME TypeOK, OneJoin, LastWord, Main
  PROVE  LastWord'
<1>1. state = "STARTUP" /\ UNCHANGED state /\ CommsTyped /\ AlarmsTyped
  BY Typed DEF Main, InitStateMachine, AnnounceServices, OneJoin, Booting
<1>2. ~Has(comms_queue', Stop)
  <2>1. CASE InitStateMachine
    BY <1>1, <2>1, CommsSent
       DEF InitStateMachine, LastWord, CommsEvent, Stop, AlarmsTyped
  <2>2. CASE AnnounceServices
    BY <1>1, <2>2 DEF AnnounceServices, LastWord
  <2>3. QED
    BY <2>1, <2>2 DEF Main
<1>3. QED
  BY <1>1, <1>2 DEF LastWord

LEMMA LastWordApp ==
  ASSUME TypeOK, LastWord, App
  PROVE  LastWord'
<1>1. /\ CommsTyped /\ AlarmsTyped /\ fault \in Fault
      /\ Latched(fault, "UNRECOVERABLE") \in Fault
  BY Typed DEF AlarmsTyped, Latched, Fault
<1>2. CASE OnServicesFailed \/ OnHardError
  <2>1. /\ state # "HARD_ERROR" /\ state' = "HARD_ERROR"
        /\ SendToComms("STOP_DISPATCH", Latched(fault, "UNRECOVERABLE"))
    BY <1>2 DEF OnServicesFailed, OnHardError, EnterHardError
  <2>2. \/ comms_queue' = Append(comms_queue, "STOP_DISPATCH")
        \/ "STOP_DISPATCH" \in lost'
    BY <1>1, <2>1, SentToComms DEF CommsEvent
  <2>3. CASE comms_queue' = Append(comms_queue, "STOP_DISPATCH")
    <3>1. StartsFirst(comms_queue') /\ Has(comms_queue', Stop)
      BY <1>1, <2>1, <2>3, StartsGrown, CommsReceives DEF CommsEvent, Stop, LastWord
    <3>2. QED
      BY <2>1, <3>1 DEF LastWord
  <2>4. QED
    BY <2>1, <2>2, <2>3 DEF LastWord
<1>3. CASE \/ OnJoined \/ OnJoinFailed \/ OnRetryTimeout \/ OnSoftError
           \/ OnDispatchStarted \/ OnDispatchFinished
  <2>1. /\ state # "HARD_ERROR" /\ state' # "HARD_ERROR"
        /\ \/ UNCHANGED comms_queue
           \/ \E e \in {"START_DISPATCH", "JOIN_NETWORK"} : SendToComms(e, fault)
    BY <1>3 DEF OnJoined, OnJoinFailed, OnRetryTimeout, OnSoftError,
                OnDispatchStarted, OnDispatchFinished, EnterListening
  <2>2. ~Has(comms_queue', Stop)
    BY <1>1, <2>1, CommsSent DEF LastWord, CommsEvent, Stop
  <2>3. QED
    BY <2>1, <2>2 DEF LastWord
<1>4. CASE OnOther
  BY <1>4 DEF OnOther, LastWord, Silent, link, dispatching, alarms
<1>5. QED
  BY <1>2, <1>3, <1>4 DEF App

LEMMA LastWordComms ==
  ASSUME TypeOK, LastWord, Comms
  PROVE  LastWord'
<1>1. CommsTyped
  BY Typed
<1>2. CASE EndJoin \/ EndDispatch
  <2>1. /\ UNCHANGED <<state, comms_queue, dispatch_enabled, dispatch_timer>>
        /\ comms' = "waiting" /\ (lost' = lost \/ \E e \in Outcome : lost' = lost \cup {e})
    BY <1>2 DEF EndJoin, EndDispatch, dispatching, alarms, ReportOutcome, SendToApp,
                Deliver, LoseEvent, Outcome
  <2>2. "STOP_DISPATCH" \notin lost' => "STOP_DISPATCH" \notin lost
    BY <2>1
  <2>3. QED
    BY <2>1, <2>2 DEF LastWord, Silent
<1>3. ASSUME NEW e, CommsTakes(e)
      PROVE  /\ state # "HARD_ERROR" => ~Has(comms_queue', Stop)
             /\ StartsFirst(comms_queue) => StartsFirst(comms_queue')
  BY <1>1, <1>3, CommsConsumes, StartsShrunk DEF LastWord
<1>4. CASE BeginJoin \/ SkipDispatch
  <2>1. PICK e \in {"JOIN_NETWORK", "DISPATCH_DUE"} : CommsTakes(e)
    BY <1>4 DEF BeginJoin, SkipDispatch
  <2>2. /\ UNCHANGED <<state, dispatch_enabled, dispatch_timer, lost>>
        /\ comms' # "dispatching"
    BY <1>1, <1>4, CommsTook DEF BeginJoin, SkipDispatch, dispatching, alarms, link
  <2>3. /\ Has(comms_queue', Stop) <=> Has(comms_queue, Stop)
        /\ Has(comms_queue', Start) => Has(comms_queue, Start)
    BY <1>1, <2>1, CommsConsumes DEF Stop
  <2>4. QED
    BY <1>3, <2>1, <2>2, <2>3 DEF LastWord, Silent
<1>5. CASE BeginDispatch
  <2>1. CommsTakes("DISPATCH_DUE") /\ dispatch_enabled /\ UNCHANGED <<state, lost>>
    BY <1>5 DEF BeginDispatch, WhenAllowed, alarms
  <2>2. Has(comms_queue', Stop) <=> Has(comms_queue, Stop)
    BY <1>1, <2>1, CommsConsumes DEF Stop
  <2>3. QED
    BY <1>3, <2>1, <2>2 DEF LastWord, Silent
<1>6. CASE StartDispatch
  <2>1. CommsTakes("START_DISPATCH") /\ UNCHANGED <<state, lost>>
    BY <1>6 DEF StartDispatch, alarms
  <2>2. Has(comms_queue, Start) /\ (Has(comms_queue', Stop) <=> Has(comms_queue, Stop))
    BY <1>1, <2>1, CommsConsumes DEF Start, Stop
  <2>3. QED
    BY <1>3, <2>1, <2>2 DEF LastWord, Silent
<1>7. CASE StopDispatch
  <2>1. /\ CommsTakes("STOP_DISPATCH") /\ UNCHANGED <<state, lost, comms>>
        /\ ~dispatch_enabled' /\ ~dispatch_timer'
    BY <1>7 DEF StopDispatch, alarms, link
  <2>2. Has(comms_queue, Stop) /\ comms = "waiting"
    BY <1>1, <2>1, CommsConsumes, CommsTook DEF Stop
  <2>3. StartsFirst(comms_queue) => ~Has(comms_queue', Start)
    BY <1>1, <2>1, StartsShrunk DEF Stop
  <2>4. QED
    BY <1>3, <2>1, <2>2, <2>3 DEF LastWord, Silent
<1>8. QED
  BY <1>2, <1>4, <1>5, <1>6, <1>7 DEF Comms

LEMMA LastWordTimers ==
  ASSUME TypeOK, LastWord, RetryTimerExpires \/ DispatchTimerExpires \/ PostOpenEvent
  PROVE  LastWord'
<1>1. CommsTyped
  BY Typed
<1>2. CASE RetryTimerExpires \/ PostOpenEvent
  BY <1>2 DEF RetryTimerExpires, PostOpenEvent, LastWord, Silent, link, dispatching, alarms
<1>3. CASE DispatchTimerExpires
  <2>1. dispatch_timer /\ UNCHANGED <<state, dispatch_timer, dispatch_enabled, comms, lost>>
    BY <1>3 DEF DispatchTimerExpires, link, dispatching, alarms
  <2>2. \/ comms_queue' = Append(comms_queue, "DISPATCH_DUE")
        \/ comms_queue' = comms_queue
    BY <1>3 DEF DispatchTimerExpires, FromIsr
  <2>3. (Has(comms_queue', Stop) <=> Has(comms_queue, Stop))
        /\ (StartsFirst(comms_queue) => StartsFirst(comms_queue'))
    <3>1. CASE comms_queue' = Append(comms_queue, "DISPATCH_DUE")
      BY <1>1, <3>1, CommsReceives, StartsGrown DEF CommsEvent, Stop, Start
    <3>2. CASE comms_queue' = comms_queue
      BY <3>2
    <3>3. QED
      BY <2>2, <3>1, <3>2
  <2>4. QED
    BY <2>1, <2>3 DEF LastWord, Silent
<1>4. QED
  BY <1>2, <1>3

LEMMA LastWordStep == TypeOK /\ OneJoin /\ LastWord /\ [Next]_vars => LastWord'
<1> SUFFICES ASSUME TypeOK, OneJoin, LastWord, [Next]_vars
             PROVE  LastWord'
  OBVIOUS
<1>1. CASE UNCHANGED vars
  BY <1>1 DEF vars, LastWord, Silent
<1>2. QED
  BY <1>1, LastWordMain, LastWordApp, LastWordComms, LastWordTimers DEF Next

(* Once comms has taken HARD_ERROR's STOP_DISPATCH, nothing is transmitted   *)
(* any more, whatever was queued around it.                                 *)
THEOREM HardErrorMutes == Spec => []MutedInHardError
<1>1. LastWord => MutedInHardError
  BY DEF LastWord, Silent, MutedInHardError, InComms, Has, Stop
<1>2. Spec => [](TypeOK /\ OneJoin /\ LastWord)
  BY TypeInit, OneJoinInit, LastWordInit, TypeStep, OneJoinStep, LastWordStep, PTL
     DEF Spec
<1>3. QED
  BY <1>1, <1>2, PTL

-----------------------------------------------------------------------------
(* With nobody posting from outside, comms' queue holds no more than one     *)
(* JOIN_NETWORK until the device has joined, so what the application sends   *)
(* there finds room; ticks come only afterwards, and then nothing else does. *)
Open == {"DISPATCH_STARTED", "DISPATCH_FINISHED", "SOFT_ERROR", "HARD_ERROR"}
Orders == CommsEvent \ Join

Quiet ==
  posted = {} =>
    /\ ~Has(app_queue, Open)
    /\ state # "DISPATCHING"
    /\ state \in {"STARTUP", "SOFT_ERROR"} => ~dispatch_timer /\ ~Has(comms_queue, Orders)
    /\ fault # "EVENT_LOST"
    /\ lost # {} => bring_up = "acquisition"

LEMMA CommsHasRoom ==
  ASSUME CommsTyped, Single(comms_queue, Join), ~Has(comms_queue, Orders)
  PROVE  Len(comms_queue) < QueueLength
<1> SUFFICES ASSUME Len(comms_queue) >= 3
             PROVE  FALSE
  BY ControlConstants DEF CommsTyped
<1>1. /\ 1 \in DOMAIN comms_queue /\ 2 \in DOMAIN comms_queue
      /\ comms_queue[1] \in CommsEvent /\ comms_queue[2] \in CommsEvent
  BY DEF CommsTyped
<1>2. comms_queue[1] \in Join /\ comms_queue[2] \in Join
  BY <1>1 DEF Has, Orders
<1>3. QED
  BY <1>1, <1>2 DEF Single

(* What is sent into a queue with room arrives, unless comms never came up. *)
LEMMA SentQuietly ==
  ASSUME NEW e, NEW b, SendToComms(e, b), b # "EVENT_LOST",
         Len(comms_queue) < QueueLength, Len(comms_queue) \in Nat,
         lost # {} => bring_up = "acquisition"
  PROVE  fault' # "EVENT_LOST" /\ (lost' # {} => bring_up = "acquisition")
BY ControlConstants DEF SendToComms, Deliver, LoseEvent, Latched, CommsRegistered

LEMMA QuietInit == Init => Quiet
BY Empty DEF Init, Quiet

LEMMA QuietMain ==
  ASSUME TypeOK, OneJoin, Quiet, Main
  PROVE  Quiet'
<1>1. AppTyped /\ CommsTyped /\ AlarmsTyped
  BY Typed
<1> SUFFICES ASSUME posted = {}, posted' = {}
             PROVE  Quiet'
  BY DEF Main, InitStateMachine, AnnounceServices, Quiet
<1>2. CASE InitStateMachine
  <2>1. /\ SendToComms("JOIN_NETWORK", fault) /\ fault \in Fault
        /\ UNCHANGED <<app_queue, state, dispatch_timer, bring_up>>
    BY <1>1, <1>2 DEF InitStateMachine, AlarmsTyped, dispatching
  <2>2. Len(comms_queue) < QueueLength /\ Len(comms_queue) \in Nat
    BY <1>2, ControlConstants DEF InitStateMachine, OneJoin, Booting
  <2>3. fault' # "EVENT_LOST" /\ (lost' # {} => bring_up = "acquisition")
    BY <2>1, <2>2, SentQuietly DEF Quiet
  <2>4. Has(comms_queue', Orders) <=> Has(comms_queue, Orders)
    BY <1>1, <2>1, CommsSent DEF CommsEvent, Orders, Join
  <2>5. QED
    BY <2>1, <2>3, <2>4 DEF Quiet
<1>3. CASE AnnounceServices
  <2>1. PICK e \in {"SERVICES_READY", "SERVICES_FAILED"} : SendToApp(e)
    BY <1>3 DEF AnnounceServices
  <2>2. e \in AppEvent /\ e \notin Open
    BY DEF AppEvent, Open
  <2>3. app_queue' = Append(app_queue, e) /\ UNCHANGED alarms
    BY <1>1, <2>1, <2>2, SentToApp, AppHasRoom DEF OneJoin, AppTyped
  <2>4. ~Has(app_queue', Open)
    BY <1>1, <2>2, <2>3, AppReceives DEF Quiet
  <2>5. QED
    BY <1>3, <2>3, <2>4 DEF AnnounceServices, Quiet, alarms, dispatching
<1>4. QED
  BY <1>2, <1>3 DEF Main

LEMMA QuietApp ==
  ASSUME TypeOK, OneJoin, Quiet, App
  PROVE  Quiet'
<1>1. /\ AppTyped /\ CommsTyped /\ AlarmsTyped /\ fault \in Fault
      /\ Latched(fault, "UNRECOVERABLE") \in Fault
      /\ fault # "EVENT_LOST" => Latched(fault, "UNRECOVERABLE") # "EVENT_LOST"
  BY Typed DEF AlarmsTyped, Latched, Fault
<1>2. PICK e : AppTakes(e) /\ UNCHANGED <<bring_up, posted, dispatch_timer>>
  BY DEF App, OnJoined, OnJoinFailed, OnRetryTimeout, OnServicesFailed,
     OnHardError, OnSoftError, OnDispatchStarted, OnDispatchFinished, OnOther,
     EnterHardError, boot, dispatching
<1> SUFFICES ASSUME posted = {}
             PROVE  Quiet'
  BY <1>2 DEF Quiet
<1>3. ~Has(app_queue', Open)
  BY <1>1, <1>2, AppConsumes DEF Quiet
<1>4. ASSUME NEW d \in Open, AppTakes(d)
      PROVE  FALSE
  BY <1>1, <1>4, AppConsumes DEF Quiet
<1>5. state \in {"STARTUP", "SOFT_ERROR"} =>
        Len(comms_queue) < QueueLength /\ Len(comms_queue) \in Nat
  BY <1>1, CommsHasRoom DEF Quiet, OneJoin, Once, CommsTyped
<1>6. CASE OnJoined
  <2>1. state \in {"STARTUP", "SOFT_ERROR"} /\ state' = "LISTENING"
        /\ SendToComms("START_DISPATCH", fault)
    BY <1>6 DEF OnJoined, EnterListening
  <2>2. fault' # "EVENT_LOST" /\ (lost' # {} => bring_up = "acquisition")
    BY <1>5, <2>1, SentQuietly DEF Quiet
  <2>3. QED
    BY <1>2, <1>3, <2>1, <2>2 DEF Quiet
<1>7. CASE OnServicesFailed
  <2>1. state = "STARTUP" /\ state' = "HARD_ERROR"
        /\ SendToComms("STOP_DISPATCH", Latched(fault, "UNRECOVERABLE"))
    BY <1>7 DEF OnServicesFailed, EnterHardError
  <2>2. fault' # "EVENT_LOST" /\ (lost' # {} => bring_up = "acquisition")
    BY <1>1, <1>5, <2>1, SentQuietly DEF Quiet
  <2>3. QED
    BY <1>2, <1>3, <2>1, <2>2 DEF Quiet
<1>8. CASE OnRetryTimeout
  <2>1. state = "SOFT_ERROR" /\ UNCHANGED state /\ SendToComms("JOIN_NETWORK", fault)
    BY <1>8 DEF OnRetryTimeout
  <2>2. fault' # "EVENT_LOST" /\ (lost' # {} => bring_up = "acquisition")
    BY <1>5, <2>1, SentQuietly DEF Quiet
  <2>3. Has(comms_queue', Orders) <=> Has(comms_queue, Orders)
    BY <1>1, <2>1, CommsSent DEF CommsEvent, Orders, Join
  <2>4. QED
    BY <1>2, <1>3, <2>1, <2>2, <2>3 DEF Quiet
<1>9. CASE OnJoinFailed
  <2>1. state \in {"STARTUP", "SOFT_ERROR"} /\ state' = "SOFT_ERROR"
        /\ UNCHANGED <<comms_queue, fault, lost>>
    BY <1>9 DEF OnJoinFailed, alarms
  <2>2. QED
    BY <1>2, <1>3, <2>1 DEF Quiet
<1>10. CASE OnOther
  BY <1>2, <1>3, <1>10 DEF OnOther, Quiet, alarms
<1>11. CASE OnHardError \/ OnSoftError \/ OnDispatchStarted \/ OnDispatchFinished
  BY <1>4, <1>11
     DEF OnHardError, OnSoftError, OnDispatchStarted, OnDispatchFinished, Open
<1>12. QED
  BY <1>6, <1>7, <1>8, <1>9, <1>10, <1>11 DEF App

LEMMA QuietComms ==
  ASSUME TypeOK, OneJoin, Quiet, Comms
  PROVE  Quiet'
<1>1. AppTyped /\ CommsTyped /\ AlarmsTyped
  BY Typed
<1> SUFFICES ASSUME posted = {}
             PROVE  Quiet'
  BY DEF Comms, BeginJoin, EndJoin, StartDispatch, StopDispatch, BeginDispatch,
         SkipDispatch, EndDispatch, boot, Quiet
<1>2. CASE EndJoin
  <2>1. PICK e \in Outcome : SendToApp(e)
    BY <1>2 DEF EndJoin, ReportOutcome, Outcome
  <2>2. e \in AppEvent /\ e \notin Open
    BY DEF AppEvent, Open, Outcome
  <2>3. app_queue' = Append(app_queue, e) /\ UNCHANGED alarms
    BY <1>1, <2>1, <2>2, SentToApp, AppHasRoom DEF OneJoin, AppTyped
  <2>4. ~Has(app_queue', Open)
    BY <1>1, <2>2, <2>3, AppReceives DEF Quiet
  <2>5. QED
    BY <1>2, <2>3, <2>4 DEF EndJoin, Quiet, alarms, boot, dispatching
<1>3. CASE EndDispatch
  BY <1>3 DEF EndDispatch, Quiet, alarms, boot, dispatching
<1>4. CASE BeginJoin \/ StartDispatch \/ StopDispatch \/ BeginDispatch \/ SkipDispatch
  <2>1. PICK e : /\ CommsTakes(e)
                 /\ e \in {"START_DISPATCH", "STOP_DISPATCH"} \/ UNCHANGED dispatch_timer
    BY <1>4 DEF BeginJoin, StartDispatch, StopDispatch, BeginDispatch, SkipDispatch,
                dispatching
  <2>2. /\ Has(comms_queue', Orders) => Has(comms_queue, Orders)
        /\ e \in Orders => Has(comms_queue, Orders)
    BY <1>1, <2>1, CommsConsumes
  <2>3. UNCHANGED <<bring_up, state, app_queue, fault, lost>>
    BY <1>4 DEF BeginJoin, StartDispatch, StopDispatch, BeginDispatch, SkipDispatch,
                boot, alarms
  <2>4. e \in {"START_DISPATCH", "STOP_DISPATCH"} => e \in Orders
    BY DEF Orders, CommsEvent, Join
  <2>5. QED
    BY <2>1, <2>2, <2>3, <2>4 DEF Quiet
<1>5. QED
  BY <1>2, <1>3, <1>4 DEF Comms

LEMMA QuietTimers ==
  ASSUME TypeOK, OneJoin, Quiet, RetryTimerExpires \/ DispatchTimerExpires \/ PostOpenEvent
  PROVE  Quiet'
<1>1. AppTyped /\ CommsTyped
  BY Typed
<1> SUFFICES ASSUME posted = {}
             PROVE  Quiet'
  BY DEF RetryTimerExpires, DispatchTimerExpires, PostOpenEvent, boot, Quiet
<1>2. CASE RetryTimerExpires
  <2>1. app_queue' = Append(app_queue, "RETRY_TIMEOUT")
    BY <1>1, <1>2, AppHasRoom DEF RetryTimerExpires, FromIsr, OneJoin
  <2>2. ~Has(app_queue', Open)
    BY <1>1, <2>1, AppReceives DEF Quiet, AppEvent, Open
  <2>3. QED
    BY <1>2, <2>2 DEF RetryTimerExpires, Quiet, boot, dispatching, alarms
<1>3. CASE DispatchTimerExpires
  BY <1>3 DEF DispatchTimerExpires, Quiet, boot, dispatching, alarms
<1>4. CASE PostOpenEvent
  BY <1>4 DEF PostOpenEvent
<1>5. QED
  BY <1>2, <1>3, <1>4

LEMMA QuietStep == TypeOK /\ OneJoin /\ Quiet /\ [Next]_vars => Quiet'
<1> SUFFICES ASSUME TypeOK, OneJoin, Quiet, [Next]_vars
             PROVE  Quiet'
  OBVIOUS
<1>1. CASE UNCHANGED vars
  BY <1>1 DEF vars, Quiet
<1>2. QED
  BY <1>1, QuietMain, QuietApp, QuietComms, QuietTimers DEF Next

(* In the firmware, where nobody posts the open events, no queue of three or *)
(* more ever turns a command or an outcome away; the firmware's hold 20.     *)
THEOREM CommandsArrive == Spec => []NoCommandLost
<1>1. Quiet => NoCommandLost
  BY DEF Quiet, NoCommandLost
<1>2. Spec => [](TypeOK /\ OneJoin /\ Quiet)
  BY TypeInit, OneJoinInit, QuietInit, TypeStep, OneJoinStep, QuietStep, PTL
     DEF Spec
<1>3. QED
  BY <1>1, <1>2, PTL

-----------------------------------------------------------------------------
(* What the reference of the backoff computes: the provers have no induction *)
(* over a definition, but every set of naturals has a least element.         *)
LEMMA LeastNatural ==
  ASSUME NEW T \in SUBSET Nat, T # {}
  PROVE  \E t \in T : \A u \in T : t <= u
<1>1. PICK t \in T : \A u \in T : ~ (<<u, t>> \in OpToRel(<, Nat))
  BY NatLessThanWellFounded, WFMin
<1>2. ASSUME NEW u \in T, ~(t <= u)
      PROVE  FALSE
  <2>1. u \in Nat /\ t \in Nat /\ u < t
    BY <1>2
  <2>2. <<u, t>> \in OpToRel(<, Nat)
    BY <2>1 DEF OpToRel
  <2>3. QED
    BY <1>1, <2>2
<1>3. QED
  BY <1>2

(* Uncapped up to k: a table of the waits after 0 to k setbacks. *)
Waits(k) ==
  {g \in [0..k -> Nat] :
     g[0] = RetryBase /\ \A i \in 1..k : g[i] = 2 * g[i - 1]}

LEMMA WaitsExist == \A k \in Nat : Waits(k) # {}
<1> DEFINE T == {k \in Nat : Waits(k) = {}}
<1> SUFFICES ASSUME T # {}
             PROVE  FALSE
  OBVIOUS
<1>1. PICK t \in T : \A u \in T : t <= u
  BY LeastNatural
<1>2. t \in Nat /\ Waits(t) = {}
  OBVIOUS
<1>3. CASE t = 0
  <2> DEFINE g == [i \in 0..0 |-> RetryBase]
  <2>1. g \in Waits(0)
    BY ControlConstants DEF Waits
  <2>2. QED
    BY <1>2, <1>3, <2>1
<1>4. CASE t # 0
  <2>1. t - 1 \in Nat /\ t - 1 \notin T
    BY <1>1, <1>2, <1>4
  <2>2. PICK h : h \in Waits(t - 1)
    BY <2>1
  <2> DEFINE g == [i \in 0..t |-> IF i = t THEN 2 * h[t - 1] ELSE h[i]]
  <2>3. /\ h \in [0..t - 1 -> Nat] /\ h[0] = RetryBase
        /\ \A i \in 1..t - 1 : h[i] = 2 * h[i - 1]
    BY <2>2 DEF Waits
  <2>4. h[t - 1] \in Nat
    BY <2>1, <2>3
  <2>5. g \in [0..t -> Nat]
    BY <1>2, <2>1, <2>3, <2>4
  <2>6. g[0] = RetryBase
    BY <1>2, <1>4, <2>3
  <2>7. ASSUME NEW i \in 1..t
        PROVE  g[i] = 2 * g[i - 1]
    BY <1>2, <2>3
  <2>8. g \in Waits(t)
    BY <2>5, <2>6, <2>7 DEF Waits
  <2>9. QED
    BY <1>2, <2>8
<1>5. QED
  BY <1>3, <1>4

(* Two tables agree wherever both have an entry. *)
LEMMA WaitsAgree ==
  ASSUME NEW j \in Nat, NEW k \in Nat, j <= k,
         NEW g \in Waits(j), NEW h \in Waits(k)
  PROVE  \A i \in 0..j : g[i] = h[i]
<1> DEFINE T == {i \in 0..j : g[i] # h[i]}
<1> SUFFICES ASSUME T # {}
             PROVE  FALSE
  OBVIOUS
<1>1. T \in SUBSET Nat
  OBVIOUS
<1>2. PICK t \in T : \A u \in T : t <= u
  BY <1>1, LeastNatural
<1>3. t \in 0..j /\ g[t] # h[t]
  OBVIOUS
<1>4. t # 0
  BY <1>3 DEF Waits
<1>5. t - 1 \in 0..j /\ t \in 1..j /\ t \in 1..k /\ t - 1 \notin T
  BY <1>2, <1>3, <1>4
<1>6. g[t - 1] = h[t - 1]
  BY <1>5
<1>7. g[t] = 2 * g[t - 1] /\ h[t] = 2 * h[t - 1]
  BY <1>5 DEF Waits
<1>8. QED
  BY <1>3, <1>6, <1>7

LEMMA UncappedIsWellDefined ==
  Uncapped = [n \in Nat |-> IF n = 0 THEN RetryBase ELSE 2 * Uncapped[n - 1]]
<1> DEFINE table(k) == CHOOSE g : g \in Waits(k)
           F == [n \in Nat |-> table(n)[n]]
<1>1. \A k \in Nat : table(k) \in Waits(k)
  BY WaitsExist
<1> HIDE DEF table
<1>2. F[0] = RetryBase
  BY <1>1 DEF Waits
<1>3. ASSUME NEW n \in Nat, n # 0
      PROVE  F[n] = 2 * F[n - 1]
  <2>1. n - 1 \in Nat /\ n - 1 <= n /\ n - 1 \in 0..n - 1 /\ n \in 1..n
    BY <1>3
  <2>2. table(n - 1)[n - 1] = table(n)[n - 1]
    BY <1>1, <2>1, WaitsAgree
  <2>3. table(n)[n] = 2 * table(n)[n - 1]
    BY <1>1, <2>1 DEF Waits
  <2>4. QED
    BY <2>1, <2>2, <2>3
<1>4. F = [n \in Nat |-> IF n = 0 THEN RetryBase ELSE 2 * F[n - 1]]
  BY <1>2, <1>3
<1> HIDE DEF F
<1>5. \E f : f = [n \in Nat |-> IF n = 0 THEN RetryBase ELSE 2 * f[n - 1]]
  BY <1>4
<1>6. QED
  BY <1>5 DEF Uncapped

(* What the reference says of each number of setbacks. *)
LEMMA Uncap ==
  /\ Uncapped[0] = RetryBase
  /\ \A n \in Nat : Uncapped[n] \in Nat /\ Uncapped[n + 1] = 2 * Uncapped[n]
<1>1. Uncapped[0] = RetryBase
  BY UncappedIsWellDefined
<1>2. ASSUME NEW n \in Nat
      PROVE  Uncapped[n + 1] = 2 * Uncapped[n]
  <2>1. n + 1 \in Nat /\ n + 1 # 0 /\ (n + 1) - 1 = n
    OBVIOUS
  <2>2. QED
    BY <2>1, UncappedIsWellDefined
<1>3. \A n \in Nat : Uncapped[n] \in Nat
  <2> DEFINE T == {n \in Nat : Uncapped[n] \notin Nat}
  <2> SUFFICES ASSUME T # {}
               PROVE  FALSE
    OBVIOUS
  <2>1. PICK t \in T : \A u \in T : t <= u
    BY LeastNatural
  <2>2. t \in Nat /\ Uncapped[t] \notin Nat
    OBVIOUS
  <2>3. t # 0
    BY <1>1, <2>2, ControlConstants
  <2>4. t - 1 \in Nat /\ t - 1 \notin T /\ (t - 1) + 1 = t
    BY <2>1, <2>2, <2>3
  <2>5. Uncapped[t - 1] \in Nat
    BY <2>4
  <2>6. Uncapped[t] = 2 * Uncapped[t - 1]
    BY <1>2, <2>4
  <2>7. QED
    BY <2>2, <2>5, <2>6
<1>4. QED
  BY <1>1, <1>2, <1>3

-----------------------------------------------------------------------------
(* The wait before the next attempt. *)
BackoffInv ==
  /\ BackoffMatchesSetbacks
  /\ retry_timer > 0 => state = "SOFT_ERROR"
  /\ state = "STARTUP" => retry_delay = RetryBase /\ setbacks = 0

(* The cap is compared with half of itself, and rounds down: a wait over the *)
(* rounded half doubles past the cap, and one at or under it does not.       *)
LEMMA DoublingIsCapped ==
  ASSUME NEW n \in Nat
  PROVE  Doubled(Smaller(Uncapped[n], RetryMax)) = Smaller(Uncapped[n + 1], RetryMax)
<1> DEFINE u == Uncapped[n]
<1>1. u \in Nat /\ Uncapped[n + 1] = 2 * u
  BY Uncap
<1> HIDE DEF u
<1>2. RetryMax \in Nat \ {0}
  BY ControlConstants
<1>3. u > RetryMax \div 2 <=> 2 * u > RetryMax
  BY <1>1, <1>2
<1>4. RetryMax > RetryMax \div 2
  BY <1>2
<1>5. CASE u <= RetryMax
  <2>1. Smaller(u, RetryMax) = u
    BY <1>5 DEF Smaller
  <2>2. QED
    BY <1>1, <1>2, <1>3, <2>1 DEF Doubled, Smaller, u
<1>6. CASE ~(u <= RetryMax)
  <2>1. Smaller(u, RetryMax) = RetryMax /\ ~(2 * u <= RetryMax)
    BY <1>1, <1>2, <1>6 DEF Smaller
  <2>2. QED
    BY <1>1, <1>4, <2>1 DEF Doubled, Smaller, u
<1>7. QED
  BY <1>5, <1>6

LEMMA BackoffInit == Init => BackoffInv
BY Uncap, ControlConstants DEF Init, BackoffInv, BackoffMatchesSetbacks, Smaller

(* One more setback: the timer takes the wait, and the wait doubles. *)
LEMMA SetBack ==
  ASSUME TypeOK, BackoffInv, ScheduleRetry, state' = "SOFT_ERROR"
  PROVE  BackoffInv'
<1>1. setbacks \in Nat /\ setbacks <= MaxSetbacks /\ MaxSetbacks \in Nat
  BY ControlConstants DEF TypeOK
<1>2. /\ retry_timer' = retry_delay
      /\ retry_delay' = Doubled(retry_delay)
      /\ setbacks' = IF setbacks < MaxSetbacks THEN setbacks + 1 ELSE setbacks
  BY DEF ScheduleRetry
<1>3. retry_delay = Smaller(Uncapped[setbacks], RetryMax)
  BY DEF BackoffInv, BackoffMatchesSetbacks
<1>4. retry_delay' = Smaller(Uncapped[setbacks + 1], RetryMax)
  BY <1>1, <1>2, <1>3, DoublingIsCapped
<1>5. CASE setbacks < MaxSetbacks
  <2>1. setbacks' = setbacks + 1 /\ setbacks' > 0 /\ setbacks' - 1 = setbacks
    BY <1>1, <1>2, <1>5
  <2>2. QED
    BY <1>2, <1>3, <1>4, <2>1 DEF BackoffInv, BackoffMatchesSetbacks
<1>6. CASE setbacks = MaxSetbacks
  <2>1. setbacks' = setbacks
    BY <1>1, <1>2, <1>6
  <2>2. /\ Uncapped[setbacks] \in Nat /\ Uncapped[setbacks + 1] = 2 * Uncapped[setbacks]
        /\ RetryMax <= Uncapped[setbacks] /\ RetryMax \in Nat
    BY <1>1, <1>6, Uncap, SetbacksReachTheCap, ControlConstants
  <2>3. /\ Smaller(Uncapped[setbacks], RetryMax) = RetryMax
        /\ Smaller(Uncapped[setbacks + 1], RetryMax) = RetryMax
    BY <2>2 DEF Smaller
  <2>4. QED
    BY <1>2, <1>3, <1>4, <1>6, <2>1, <2>3 DEF BackoffInv, BackoffMatchesSetbacks
<1>7. QED
  BY <1>1, <1>5, <1>6

LEMMA BackoffApp ==
  ASSUME TypeOK, BackoffInv, App
  PROVE  BackoffInv'
<1>1. CASE OnJoined
  <2>1. retry_delay' = RetryBase /\ setbacks' = 0 /\ state' = "LISTENING"
    BY <1>1 DEF OnJoined, EnterListening, BackoffInv
  <2>2. ~(retry_timer' > 0)
    BY <1>1 DEF OnJoined, EnterListening, LeaveState, BackoffInv
  <2>3. QED
    BY <2>1, <2>2, Uncap, ControlConstants
       DEF BackoffInv, BackoffMatchesSetbacks, Smaller
<1>2. CASE OnJoinFailed \/ OnSoftError
  BY <1>2, SetBack DEF OnJoinFailed, OnSoftError
<1>3. CASE OnServicesFailed \/ OnHardError
  <2>1. UNCHANGED <<retry_delay, setbacks>> /\ state' = "HARD_ERROR"
    BY <1>3 DEF OnServicesFailed, OnHardError, EnterHardError
  <2>2. ~(retry_timer' > 0)
    BY <1>3 DEF OnServicesFailed, OnHardError, EnterHardError, LeaveState, BackoffInv
  <2>3. QED
    BY <2>1, <2>2 DEF BackoffInv, BackoffMatchesSetbacks
<1>4. CASE OnRetryTimeout \/ OnDispatchStarted \/ OnDispatchFinished \/ OnOther
  <2>1. UNCHANGED <<retry_timer, retry_delay, setbacks>>
    BY <1>4 DEF OnRetryTimeout, OnDispatchStarted, OnDispatchFinished, OnOther, retry
  <2>2. \/ UNCHANGED state
        \/ state \in {"LISTENING", "DISPATCHING"} /\ state' \in {"LISTENING", "DISPATCHING"}
    BY <1>4 DEF OnRetryTimeout, OnDispatchStarted, OnDispatchFinished, OnOther
  <2>3. QED
    BY <2>1, <2>2 DEF BackoffInv, BackoffMatchesSetbacks
<1>5. QED
  BY <1>1, <1>2, <1>3, <1>4 DEF App

LEMMA BackoffStep == TypeOK /\ BackoffInv /\ [Next]_vars => BackoffInv'
<1> SUFFICES ASSUME TypeOK, BackoffInv, [Next]_vars
             PROVE  BackoffInv'
  OBVIOUS
<1>1. CASE App
  BY <1>1, BackoffApp
<1>2. CASE RetryTimerExpires
  <2>1. UNCHANGED <<state, retry_delay, setbacks>> /\ retry_timer' = 0
    BY <1>2 DEF RetryTimerExpires, OneShot
  <2>2. QED
    BY <2>1 DEF BackoffInv, BackoffMatchesSetbacks
<1>3. CASE Main \/ Comms \/ DispatchTimerExpires \/ PostOpenEvent \/ UNCHANGED vars
  <2>1. UNCHANGED <<state, retry_timer, retry_delay, setbacks>>
    BY <1>3 DEF Main, InitStateMachine, AnnounceServices, Comms, BeginJoin, EndJoin,
                StartDispatch, StopDispatch, BeginDispatch, SkipDispatch, EndDispatch,
                DispatchTimerExpires, PostOpenEvent, retry, vars
  <2>2. QED
    BY <2>1 DEF BackoffInv, BackoffMatchesSetbacks
<1>4. QED
  BY <1>1, <1>2, <1>3 DEF Next

(* For every base and every cap: after n failures since the last success the *)
(* device waits RETRY_MS doubled n times or the cap, whichever is less.      *)
THEOREM BackoffDoubles == Spec => []BackoffMatchesSetbacks
<1>1. BackoffInv => BackoffMatchesSetbacks
  BY DEF BackoffInv
<1>2. Spec => [](TypeOK /\ BackoffInv)
  BY TypeInit, TypeStep, BackoffInit, BackoffStep, PTL DEF Spec
<1>3. QED
  BY <1>1, <1>2, PTL

-----------------------------------------------------------------------------
(* The control plane implements Lifecycle.  First the licence: it is granted *)
(* for as long as START_DISPATCH has been sent, and withdrawn when the one   *)
(* STOP_DISPATCH has been taken.                                            *)
Granted ==
  dispatch_enabled \/ Has(comms_queue, Start) \/ "START_DISPATCH" \in lost
Withdrawn ==
  state = "HARD_ERROR" /\ ~Has(comms_queue, Stop) /\ "STOP_DISPATCH" \notin lost

Licensed ==
  /\ Single(comms_queue, Stop)
  /\ state # "HARD_ERROR" \/ Has(comms_queue, Stop) => "STOP_DISPATCH" \notin lost
  /\ state \in {"LISTENING", "DISPATCHING"} => Granted

LEMMA LicenceIs ==
  Licence = IF Withdrawn THEN "withdrawn" ELSE IF Granted THEN "granted" ELSE "none"
BY DEF Licence, Withdrawn, Granted, InComms, Has, Start, Stop

LEMMA LicenceWillBe ==
  Licence' = IF Withdrawn' THEN "withdrawn" ELSE IF Granted' THEN "granted" ELSE "none"
BY DEF Licence, Withdrawn, Granted, InComms, Has, Start, Stop

(* A command arrives or is counted as lost, and no other command is. *)
LEMMA Commanded ==
  ASSUME CommsTyped, AlarmsTyped, NEW e \in CommsEvent, NEW b \in Fault,
         SendToComms(e, b)
  PROVE  /\ \/ Has(comms_queue', {e}) /\ UNCHANGED lost
            \/ UNCHANGED comms_queue /\ lost' = lost \cup {e}
         /\ \A k : k # e => /\ Has(comms_queue', {k}) <=> Has(comms_queue, {k})
                            /\ k \in lost' <=> k \in lost
         /\ \A k : /\ Single(comms_queue, {k})
                   /\ k = e => ~Has(comms_queue, {k})
                   => Single(comms_queue', {k})
<1>1. \/ comms_queue' = Append(comms_queue, e) /\ UNCHANGED lost
      \/ UNCHANGED comms_queue /\ lost' = lost \cup {e}
  BY SentToComms
<1>2. CASE comms_queue' = Append(comms_queue, e) /\ UNCHANGED lost
  <2>1. \A k : /\ Has(comms_queue', {k}) <=> Has(comms_queue, {k}) \/ e \in {k}
               /\ Single(comms_queue, {k}) /\ (e \in {k} => ~Has(comms_queue, {k}))
                    => Single(comms_queue', {k})
    BY <1>2, CommsReceives
  <2>2. QED
    BY <1>2, <2>1
<1>3. CASE UNCHANGED comms_queue /\ lost' = lost \cup {e}
  BY <1>3
<1>4. QED
  BY <1>1, <1>2, <1>3

(* The application's queue has room for what is sent there. *)
LEMMA Informed ==
  ASSUME AppTyped, AlarmsTyped, OneJoin, NEW e \in AppEvent, SendToApp(e)
  PROVE  app_queue' = Append(app_queue, e) /\ UNCHANGED alarms
BY SentToApp, AppHasRoom DEF OneJoin, AppTyped

LEMMA LicensedInit == Init => Licensed
BY Empty DEF Init, Licensed

LEMMA LicensedMain ==
  ASSUME TypeOK, OneJoin, LastWord, Licensed, Main
  PROVE  Licensed' /\ UNCHANGED Licence
<1>1. AppTyped /\ CommsTyped /\ AlarmsTyped
  BY Typed
<1>2. state = "STARTUP" /\ UNCHANGED <<state, dispatch_enabled>>
  BY DEF Main, InitStateMachine, AnnounceServices, OneJoin, Booting, dispatching
<1>3. /\ Has(comms_queue', Start) <=> Has(comms_queue, Start)
      /\ Has(comms_queue', Stop) <=> Has(comms_queue, Stop)
      /\ "START_DISPATCH" \in lost' <=> "START_DISPATCH" \in lost
      /\ "STOP_DISPATCH" \in lost' <=> "STOP_DISPATCH" \in lost
      /\ Single(comms_queue', Stop)
  <2>1. CASE InitStateMachine
    <3>1. SendToComms("JOIN_NETWORK", fault) /\ fault \in Fault
      BY <1>1, <2>1 DEF InitStateMachine, AlarmsTyped
    <3>2. QED
      BY <1>1, <3>1, Commanded DEF CommsEvent, Start, Stop, Licensed
  <2>2. CASE AnnounceServices
    <3>1. PICK e \in AppEvent : SendToApp(e)
      BY <2>2 DEF AnnounceServices, AppEvent
    <3>2. QED
      BY <1>1, <2>2, <3>1, Informed DEF AnnounceServices, alarms, Licensed
  <2>3. QED
    BY <2>1, <2>2 DEF Main
<1>4. QED
  BY <1>2, <1>3, LicenceIs, LicenceWillBe DEF Licensed, Granted, Withdrawn

LEMMA LicensedApp ==
  ASSUME TypeOK, OneJoin, LastWord, Licensed, App
  PROVE  /\ Licensed'
         /\ IF OnJoined THEN Licence' = "granted" ELSE UNCHANGED Licence
<1>1. /\ CommsTyped /\ AlarmsTyped /\ fault \in Fault
      /\ Latched(fault, "UNRECOVERABLE") \in Fault
  BY Typed DEF AlarmsTyped, Latched, Fault
<1>2. UNCHANGED dispatch_enabled
  BY DEF App, OnJoined, OnJoinFailed, OnRetryTimeout, OnServicesFailed, OnHardError,
         OnSoftError, OnDispatchStarted, OnDispatchFinished, OnOther, EnterHardError,
         dispatching
<1>3. CASE OnJoined \/ OnDispatchFinished
  <2>1. /\ state # "HARD_ERROR" /\ state' = "LISTENING"
        /\ SendToComms("START_DISPATCH", fault)
        /\ ~OnJoined => state = "DISPATCHING"
    BY <1>3 DEF OnJoined, OnDispatchFinished, EnterListening
  <2>2. Has(comms_queue', Start) \/ "START_DISPATCH" \in lost'
    BY <1>1, <2>1, Commanded DEF CommsEvent, Start
  <2>3. /\ ~Has(comms_queue', Stop) /\ "STOP_DISPATCH" \notin lost'
        /\ Single(comms_queue', Stop)
    BY <1>1, <2>1, Commanded DEF CommsEvent, Stop, LastWord, Licensed
  <2>4. QED
    BY <2>1, <2>2, <2>3, LicenceIs, LicenceWillBe DEF Licensed, Granted, Withdrawn
<1>4. CASE OnServicesFailed \/ OnHardError
  <2>1. /\ state # "HARD_ERROR" /\ state' = "HARD_ERROR" /\ ~OnJoined
        /\ SendToComms("STOP_DISPATCH", Latched(fault, "UNRECOVERABLE"))
    BY <1>4 DEF OnServicesFailed, OnHardError, EnterHardError, OnJoined, EnterListening
  <2>2. ~Has(comms_queue, Stop) /\ "STOP_DISPATCH" \notin lost
    BY <2>1 DEF LastWord, Licensed
  <2>3. \/ Has(comms_queue', Stop) /\ UNCHANGED lost
        \/ ~Has(comms_queue', Stop) /\ "STOP_DISPATCH" \in lost'
    BY <1>1, <2>1, <2>2, Commanded DEF CommsEvent, Stop
  <2>4. /\ Single(comms_queue', Stop)
        /\ Has(comms_queue', Start) <=> Has(comms_queue, Start)
        /\ "START_DISPATCH" \in lost' <=> "START_DISPATCH" \in lost
    BY <1>1, <2>1, <2>2, Commanded DEF CommsEvent, Start, Stop, Licensed
  <2>5. QED
    BY <1>2, <2>1, <2>2, <2>3, <2>4, LicenceIs, LicenceWillBe
       DEF Licensed, Granted, Withdrawn
<1>5. CASE \/ OnJoinFailed \/ OnRetryTimeout \/ OnSoftError \/ OnDispatchStarted
           \/ OnOther
  <2>1. /\ state = "HARD_ERROR" <=> state' = "HARD_ERROR"
        /\ state' \in {"LISTENING", "DISPATCHING"}
             => state \in {"LISTENING", "DISPATCHING"}
        /\ \/ UNCHANGED <<comms_queue, lost>>
           \/ SendToComms("JOIN_NETWORK", fault)
    BY <1>5 DEF OnJoinFailed, OnRetryTimeout, OnSoftError, OnDispatchStarted, OnOther,
                alarms
  <2>2. ~OnJoined
    BY <1>5 DEF OnJoined, EnterListening, OnJoinFailed, OnRetryTimeout, OnSoftError,
                OnDispatchStarted, OnOther
  <2>3. /\ Has(comms_queue', Start) <=> Has(comms_queue, Start)
        /\ Has(comms_queue', Stop) <=> Has(comms_queue, Stop)
        /\ "START_DISPATCH" \in lost' <=> "START_DISPATCH" \in lost
        /\ "STOP_DISPATCH" \in lost' <=> "STOP_DISPATCH" \in lost
        /\ Single(comms_queue', Stop)
    <3>1. CASE UNCHANGED <<comms_queue, lost>>
      BY <3>1 DEF Licensed
    <3>2. CASE SendToComms("JOIN_NETWORK", fault)
      BY <1>1, <3>2, Commanded DEF CommsEvent, Start, Stop, Licensed
    <3>3. QED
      BY <2>1, <3>1, <3>2
  <2>4. QED
    BY <1>2, <2>1, <2>2, <2>3, LicenceIs, LicenceWillBe DEF Licensed, Granted, Withdrawn
<1>6. QED
  BY <1>3, <1>4, <1>5 DEF App

LEMMA LicensedComms ==
  ASSUME TypeOK, OneJoin, LastWord, Licensed, Comms
  PROVE  /\ Licensed'
         /\ IF StopDispatch THEN Licence' = "withdrawn" ELSE UNCHANGED Licence
<1>1. AppTyped /\ CommsTyped /\ AlarmsTyped
  BY Typed
<1>2. UNCHANGED state
  BY DEF Comms, BeginJoin, EndJoin, StartDispatch, StopDispatch, BeginDispatch,
         SkipDispatch, EndDispatch
<1>3. CASE EndJoin \/ EndDispatch
  <2>1. UNCHANGED <<comms_queue, dispatch_enabled, lost>>
    <3>1. CASE EndJoin
      <4>1. PICK e \in AppEvent : SendToApp(e)
        BY <3>1 DEF EndJoin, ReportOutcome, AppEvent, Outcome
      <4>2. QED
        BY <1>1, <3>1, <4>1, Informed DEF EndJoin, dispatching, alarms
    <3>2. CASE EndDispatch
      BY <3>2 DEF EndDispatch, dispatching, alarms
    <3>3. QED
      BY <1>3, <3>1, <3>2
  <2>2. ~StopDispatch
    BY <1>1, <1>3, CommsTook DEF StopDispatch, EndJoin, EndDispatch
  <2>3. QED
    BY <1>2, <2>1, <2>2, LicenceIs, LicenceWillBe DEF Licensed, Granted, Withdrawn
<1>4. CASE BeginJoin \/ BeginDispatch \/ SkipDispatch
  <2>1. PICK e \in {"JOIN_NETWORK", "DISPATCH_DUE"} : CommsTakes(e)
    BY <1>4 DEF BeginJoin, BeginDispatch, SkipDispatch
  <2>2. UNCHANGED <<dispatch_enabled, lost>> /\ ~StopDispatch
    <3>1. UNCHANGED <<dispatch_enabled, lost>>
      BY <1>4 DEF BeginJoin, BeginDispatch, SkipDispatch, dispatching, alarms
    <3>2. ~StopDispatch
      BY <2>1 DEF StopDispatch, CommsTakes
    <3>3. QED
      BY <3>1, <3>2
  <2>3. /\ Has(comms_queue', Start) <=> Has(comms_queue, Start)
        /\ Has(comms_queue', Stop) <=> Has(comms_queue, Stop)
        /\ Single(comms_queue', Stop)
    BY <1>1, <2>1, CommsConsumes DEF Start, Stop, Licensed
  <2>4. QED
    BY <1>2, <2>2, <2>3, LicenceIs, LicenceWillBe DEF Licensed, Granted, Withdrawn
<1>5. CASE StartDispatch
  <2>1. CommsTakes("START_DISPATCH") /\ dispatch_enabled' /\ UNCHANGED lost
    BY <1>5 DEF StartDispatch, alarms
  <2>2. ~StopDispatch
    BY <2>1 DEF StopDispatch, CommsTakes
  <2>3. /\ Has(comms_queue, Start)
        /\ Has(comms_queue', Stop) <=> Has(comms_queue, Stop)
        /\ Single(comms_queue', Stop)
    BY <1>1, <2>1, CommsConsumes DEF Start, Stop, Licensed
  <2>4. QED
    BY <1>2, <2>1, <2>2, <2>3, LicenceIs, LicenceWillBe DEF Licensed, Granted, Withdrawn
<1>6. CASE StopDispatch
  <2>1. CommsTakes("STOP_DISPATCH") /\ UNCHANGED lost
    BY <1>6 DEF StopDispatch, alarms
  <2>2. /\ Has(comms_queue, Stop) /\ ~Has(comms_queue', Stop)
        /\ Single(comms_queue', Stop)
    BY <1>1, <2>1, CommsConsumes DEF Stop, Licensed
  <2>3. state = "HARD_ERROR" /\ "STOP_DISPATCH" \notin lost
    BY <2>2 DEF LastWord, Licensed
  <2>4. QED
    BY <1>2, <1>6, <2>1, <2>2, <2>3, LicenceWillBe DEF Licensed, Withdrawn
<1>7. QED
  BY <1>3, <1>4, <1>5, <1>6 DEF Comms

LEMMA LicensedTimers ==
  ASSUME TypeOK, OneJoin, LastWord, Licensed,
         RetryTimerExpires \/ DispatchTimerExpires \/ PostOpenEvent
  PROVE  Licensed' /\ UNCHANGED Licence
<1>1. CommsTyped
  BY Typed
<1>2. /\ UNCHANGED <<state, dispatch_enabled, lost>>
      /\ \/ UNCHANGED comms_queue
         \/ comms_queue' = Append(comms_queue, "DISPATCH_DUE")
  BY DEF RetryTimerExpires, DispatchTimerExpires, PostOpenEvent, dispatching, alarms,
         FromIsr
<1>3. /\ Has(comms_queue', Start) <=> Has(comms_queue, Start)
      /\ Has(comms_queue', Stop) <=> Has(comms_queue, Stop)
      /\ Single(comms_queue', Stop)
  BY <1>1, <1>2, CommsReceives DEF CommsEvent, Start, Stop, Licensed
<1>4. QED
  BY <1>2, <1>3, LicenceIs, LicenceWillBe DEF Licensed, Granted, Withdrawn

LEMMA LicensedStep ==
  TypeOK /\ OneJoin /\ LastWord /\ Licensed /\ [Next]_vars => Licensed'
<1>1. UNCHANGED vars /\ Licensed => Licensed'
  BY DEF vars, Licensed, Granted
<1>2. QED
  BY <1>1, LicensedMain, LicensedApp, LicensedComms, LicensedTimers DEF Next

-----------------------------------------------------------------------------
(* The application's view: where the one attempt is, by the event that       *)
(* carries it.                                                              *)
Heard(e) == Has(app_queue, {e})

LEMMA PhaseIs ==
  /\ state = "HARD_ERROR" => Phase = "halted"
  /\ state \in {"LISTENING", "DISPATCHING"} => Phase = "operating"
  /\ state \in {"STARTUP", "SOFT_ERROR"} =>
       Phase = IF Armed \/ Heard("RETRY_TIMEOUT") THEN "backing_off" ELSE "joining"
BY DEF Phase, Armed, Heard, Has, InApp

LEMMA PhaseWillBe ==
  /\ state' = "HARD_ERROR" => Phase' = "halted"
  /\ state' \in {"LISTENING", "DISPATCHING"} => Phase' = "operating"
  /\ state' \in {"STARTUP", "SOFT_ERROR"} =>
       Phase' = IF Armed' \/ Heard("RETRY_TIMEOUT")' THEN "backing_off" ELSE "joining"
BY DEF Phase, Armed, Heard, Has, InApp

LEMMA AnswerIs ==
  Answer = IF Heard("NETWORK_JOINED") THEN "joined"
           ELSE IF Heard("NETWORK_JOIN_FAILED") THEN "failed" ELSE "none"
BY DEF Answer, Heard, Has, InApp

LEMMA AnswerWillBe ==
  Answer' = IF Heard("NETWORK_JOINED")' THEN "joined"
            ELSE IF Heard("NETWORK_JOIN_FAILED")' THEN "failed" ELSE "none"
BY DEF Answer, Heard, Has, InApp

(* Of the three events that carry it at most one is queued. *)
LEMMA OneIsHeard ==
  ASSUME Once
  PROVE  /\ Told <=> \E e \in Tok : Heard(e)
         /\ \A d, e \in Tok : Heard(d) /\ Heard(e) => d = e
BY DEF Once, Single, Told, Has, Heard

(* Once the one that carries it is taken, none is left. *)
LEMMA NoneIsLeft ==
  ASSUME AppTyped, Once, NEW e, AppTakes(e)
  PROVE  /\ Heard(e)
         /\ e \in Tok => \A d \in Tok : ~Heard(d)'
         /\ e \notin Tok => \A d \in Tok : Heard(d)' <=> Heard(d)
<1>1. Heard(e)
  BY AppConsumes DEF Heard
<1>2. ASSUME e \in Tok
      PROVE  \A d \in Tok : ~Heard(d)'
  <2>1. ~Has(app_queue', Tok)
    BY <1>2, AppConsumes DEF Once
  <2>2. QED
    BY <2>1 DEF Has, Heard
<1>3. ASSUME e \notin Tok
      PROVE  \A d \in Tok : Heard(d)' <=> Heard(d)
  <2> SUFFICES ASSUME NEW d \in Tok
               PROVE  Has(app_queue', {d}) <=> Has(app_queue, {d})
    BY DEF Heard
  <2>1. e \notin {d}
    BY <1>3
  <2>2. QED
    BY <2>1, AppConsumes
<1>4. QED
  BY <1>1, <1>2, <1>3

(* What is sent there is heard, and nothing else is. *)
LEMMA HeardGrows ==
  ASSUME AppTyped, NEW e \in AppEvent, app_queue' = Append(app_queue, e)
  PROVE  \A d : Heard(d)' <=> Heard(d) \/ d = e
<1>1. \A d : Has(app_queue', {d}) <=> Has(app_queue, {d}) \/ e \in {d}
  BY AppReceives
<1>2. QED
  BY <1>1 DEF Heard

-----------------------------------------------------------------------------
Implementing == TypeOK /\ OneJoin /\ LastWord /\ BackoffInv /\ Licensed

(* The four things of the lifecycle that none but a few actions touch. *)
Still == UNCHANGED <<Phase, retry_timer, retry_delay, Answer>>

LEMMA Stutters ==
  ASSUME Still, UNCHANGED <<comms, Licence>>
  PROVE  UNCHANGED Life!vars
BY DEF Still, Life!vars

LEMMA LifeInit == Init => Life!Init
<1> SUFFICES ASSUME Init
             PROVE  Life!Init
  OBVIOUS
<1>1. \A X : ~Has(app_queue, X) /\ ~Has(comms_queue, X)
  BY Empty DEF Init
<1>2. Phase = "joining" /\ Answer = "none"
  BY <1>1, PhaseIs, AnswerIs DEF Init, Heard, Armed
<1>3. Licence = "none"
  BY <1>1, LicenceIs DEF Init, Granted, Withdrawn
<1>4. QED
  BY <1>2, <1>3 DEF Init, Life!Init

LEMMA LifeMain ==
  ASSUME Implementing, Main
  PROVE  UNCHANGED Life!vars
<1>1. AppTyped /\ CommsTyped /\ AlarmsTyped /\ Once
  BY Typed DEF Implementing, OneJoin
<1>2. UNCHANGED <<state, retry_timer, retry_delay, comms>>
  BY DEF Main, InitStateMachine, AnnounceServices, link, retry
<1>3. \A d \in Tok : Heard(d)' <=> Heard(d)
  <2>1. CASE InitStateMachine
    BY <2>1 DEF InitStateMachine, Heard
  <2>2. CASE AnnounceServices
    <3>1. PICK e \in {"SERVICES_READY", "SERVICES_FAILED"} : SendToApp(e)
      BY <2>2 DEF AnnounceServices
    <3>2. e \in AppEvent /\ e \notin Tok
      BY DEF AppEvent, Tok
    <3>3. app_queue' = Append(app_queue, e)
      BY <1>1, <3>1, <3>2, Informed DEF Implementing
    <3>4. QED
      BY <1>1, <3>2, <3>3, HeardGrows
  <2>3. QED
    BY <2>1, <2>2 DEF Main
<1>4. UNCHANGED Answer
  BY <1>3, AnswerIs, AnswerWillBe DEF Tok
<1>5. UNCHANGED Phase
  <2>1. state = "STARTUP"
    BY DEF Implementing, OneJoin, Booting, Main, InitStateMachine, AnnounceServices
  <2>2. QED
    BY <1>2, <1>3, <2>1, PhaseIs, PhaseWillBe DEF Armed, Tok
<1>6. QED
  BY <1>2, <1>4, <1>5, LicensedMain, Stutters DEF Implementing, Still

(* Arming the timer is what the lifecycle calls backing off. *)
BacksOff ==
  /\ Phase' = "backing_off"
  /\ retry_timer' = retry_delay
  /\ retry_delay' = Life!Longer

LEMMA Scheduling ==
  ASSUME TypeOK, ScheduleRetry, state' = "SOFT_ERROR"
  PROVE  BacksOff
<1>1. retry_delay \in RetryBase..RetryMax
  BY DEF TypeOK
<1>2. retry_delay > RetryMax \div 2 <=> 2 * retry_delay > RetryMax
  BY <1>1, ControlConstants
<1>3. Doubled(retry_delay) = Life!Longer
  BY <1>1, <1>2, ControlConstants DEF Doubled, Life!Longer
<1>4. retry_timer' = retry_delay /\ Armed'
  BY <1>1, ControlConstants DEF ScheduleRetry, Armed
<1>5. Phase' = "backing_off"
  BY <1>4, PhaseWillBe
<1>6. QED
  BY <1>3, <1>4, <1>5 DEF BacksOff, ScheduleRetry

(* The two outcomes, acted upon in the states that wait for them. *)
LEMMA LifeOutcome ==
  ASSUME Implementing, OnJoined \/ OnJoinFailed
  PROVE  Life!Succeed \/ Life!Fail
<1>1. AppTyped /\ Once /\ App
  BY Typed DEF Implementing, OneJoin, App
<1>2. PICK e \in Outcome : AppTakes(e) /\ (OnJoined <=> e = "NETWORK_JOINED")
  BY DEF OnJoined, OnJoinFailed, Outcome, AppTakes, EnterListening
<1>3. /\ state \in {"STARTUP", "SOFT_ERROR"} /\ UNCHANGED comms
      /\ e = "NETWORK_JOINED" \/ e = "NETWORK_JOIN_FAILED"
  BY <1>2 DEF OnJoined, OnJoinFailed, link, Outcome
<1>4. e \in Tok
  BY <1>3 DEF Tok
<1>5. Heard(e) /\ (\A d \in Tok : d # e => ~Heard(d)) /\ (\A d \in Tok : ~Heard(d)')
  BY <1>1, <1>2, <1>4, NoneIsLeft, OneIsHeard
<1>6. ~Armed
  BY <1>1, <1>4, <1>5, OneIsHeard DEF Once
<1>7. /\ Phase = "joining" /\ Answer' = "none"
      /\ Answer = IF e = "NETWORK_JOINED" THEN "joined" ELSE "failed"
  BY <1>3, <1>5, <1>6, PhaseIs, AnswerIs, AnswerWillBe DEF Tok
<1>8. retry_timer = 0
  BY <1>6 DEF Armed
<1>9. CASE OnJoined
  <2>1. /\ state' = "LISTENING" /\ retry_delay' = RetryBase
        /\ retry_timer' = 0
    BY <1>8, <1>9 DEF OnJoined, EnterListening, LeaveState, Implementing, BackoffInv
  <2>2. Licence' = "granted"
    BY <1>1, <1>9, LicensedApp DEF Implementing
  <2>3. Phase' = "operating"
    BY <2>1, PhaseWillBe
  <2>4. QED
    BY <1>2, <1>3, <1>7, <1>8, <1>9, <2>1, <2>2, <2>3 DEF Life!Succeed
<1>10. CASE OnJoinFailed /\ ~OnJoined
  <2>1. state' = "SOFT_ERROR" /\ ScheduleRetry
    BY <1>10 DEF OnJoinFailed
  <2>2. BacksOff
    BY <2>1, Scheduling DEF Implementing
  <2>3. UNCHANGED Licence
    BY <1>1, <1>10, LicensedApp DEF Implementing
  <2>4. QED
    BY <1>2, <1>3, <1>7, <1>10, <2>2, <2>3
       DEF BacksOff, Life!Fail, Life!BackOff
<1>11. QED
  BY <1>9, <1>10

(* An event that no state waits for: an outcome is one only in HARD_ERROR. *)
LEMMA LifeOther ==
  ASSUME Implementing, OnOther
  PROVE  Life!Next \/ UNCHANGED Life!vars
<1>1. AppTyped /\ Once /\ App
  BY Typed DEF Implementing, OneJoin, App
<1>2. PICK e \in AppEvent \ Handled : AppTakes(e)
  BY DEF OnOther
<1>3. UNCHANGED <<state, comms, retry_timer, retry_delay>>
  BY DEF OnOther, link, retry
<1>4. UNCHANGED Licence
  <2>1. ~OnJoined
    BY <1>2 DEF OnJoined, Handled, Outcome, AppTakes
  <2>2. QED
    BY <1>1, <2>1, LicensedApp DEF Implementing
<1>5. CASE e \in Tok
  <2>1. Told /\ Heard(e) /\ \A d \in Tok : ~Heard(d)'
    BY <1>1, <1>2, <1>5, NoneIsLeft, OneIsHeard
  <2>2. state = "HARD_ERROR"
    <3>1. state \notin {"LISTENING", "DISPATCHING"}
      BY <2>1 DEF Implementing, OneJoin, Where
    <3>2. state = "STARTUP" => e # "RETRY_TIMEOUT"
      BY <2>1 DEF Implementing, OneJoin, Where, Heard
    <3>3. QED
      BY <1>2, <1>5, <3>1, <3>2 DEF Handled, Outcome, Tok, Implementing, TypeOK
  <2>3. Phase = "halted" /\ Phase' = "halted" /\ Answer' = "none"
    BY <1>3, <2>1, <2>2, PhaseIs, PhaseWillBe, AnswerWillBe DEF Tok
  <2>4. CASE Answer = "none"
    BY <1>3, <1>4, <2>3, <2>4, Stutters DEF Still
  <2>5. CASE Answer # "none"
    BY <1>3, <1>4, <2>3, <2>5 DEF Life!Ignore, Life!Next
  <2>6. QED
    BY <2>4, <2>5
<1>6. CASE e \notin Tok
  <2>1. \A d \in Tok : Heard(d)' <=> Heard(d)
    BY <1>1, <1>2, <1>6, NoneIsLeft
  <2>2. UNCHANGED Answer
    BY <2>1, AnswerIs, AnswerWillBe DEF Tok
  <2>3. UNCHANGED Phase
    BY <1>3, <2>1, PhaseIs, PhaseWillBe DEF Tok, Armed, Implementing, TypeOK
  <2>4. QED
    BY <1>3, <1>4, <2>2, <2>3, Stutters DEF Still
<1>7. QED
  BY <1>5, <1>6

LEMMA LifeApp ==
  ASSUME Implementing, App
  PROVE  Life!Next \/ UNCHANGED Life!vars
<1>1. /\ AppTyped /\ Once
      /\ Licence' = Licence \/ OnJoined
  BY Typed, LicensedApp DEF Implementing, OneJoin
<1>2. UNCHANGED comms
  BY DEF App, OnJoined, OnJoinFailed, OnRetryTimeout, OnServicesFailed, OnHardError,
         OnSoftError, OnDispatchStarted, OnDispatchFinished, OnOther, EnterHardError, link
<1>3. ASSUME NEW e, AppTakes(e), e \notin Tok
      PROVE  UNCHANGED Answer /\ (Heard("RETRY_TIMEOUT")' <=> Heard("RETRY_TIMEOUT"))
  BY <1>1, <1>3, NoneIsLeft, AnswerIs, AnswerWillBe DEF Tok
<1>4. CASE OnJoined \/ OnJoinFailed
  BY <1>4, LifeOutcome DEF Life!Next
<1>5. CASE OnRetryTimeout
  <2>1. /\ state = "SOFT_ERROR" /\ UNCHANGED <<state, retry_timer, retry_delay>>
        /\ AppTakes("RETRY_TIMEOUT") /\ "RETRY_TIMEOUT" \in Tok
    BY <1>5 DEF OnRetryTimeout, retry, Tok
  <2>2. Heard("RETRY_TIMEOUT") /\ \A d \in Tok : ~Heard(d)'
    BY <1>1, <2>1, NoneIsLeft
  <2>3. \A d \in Tok : d # "RETRY_TIMEOUT" => ~Heard(d)
    BY <1>1, <2>1, <2>2, OneIsHeard
  <2>4. ~Armed
    BY <1>1, <2>1, <2>2, OneIsHeard DEF Once
  <2>5. Phase = "backing_off" /\ Phase' = "joining"
    BY <2>1, <2>2, <2>4, PhaseIs, PhaseWillBe DEF Armed, Tok
  <2>6. UNCHANGED Answer
    BY <2>2, <2>3, AnswerIs, AnswerWillBe DEF Tok
  <2>7. UNCHANGED Licence
    BY <1>1, <2>1 DEF OnJoined, EnterListening
  <2>8. Life!Retry
    BY <1>2, <2>1, <2>4, <2>5, <2>6, <2>7 DEF Life!Retry, Armed
  <2>9. QED
    BY <2>8 DEF Life!Next
<1>6. CASE OnServicesFailed \/ OnHardError
  <2>1. PICK e \in {"SERVICES_FAILED", "HARD_ERROR"} : AppTakes(e)
    BY <1>6 DEF OnServicesFailed, OnHardError
  <2>2. /\ state \in {"STARTUP", "LISTENING", "DISPATCHING", "SOFT_ERROR"}
        /\ state' = "HARD_ERROR" /\ UNCHANGED retry_delay
        /\ LeaveState
    BY <1>6 DEF OnServicesFailed, OnHardError, EnterHardError
  <2>3. retry_timer' = 0
    BY <2>2 DEF LeaveState, Implementing, OneJoin, Where, Armed
  <2>4. Phase # "halted" /\ Phase' = "halted"
    BY <2>2, PhaseIs, PhaseWillBe
  <2>5. UNCHANGED Answer
    BY <1>3, <2>1 DEF Tok
  <2>6. UNCHANGED Licence
    BY <1>1, <2>2 DEF OnJoined, EnterListening
  <2>7. Life!Halt
    BY <1>2, <2>2, <2>3, <2>4, <2>5, <2>6 DEF Life!Halt
  <2>8. QED
    BY <2>7 DEF Life!Next
<1>7. CASE OnSoftError
  <2>1. /\ state \in {"LISTENING", "DISPATCHING"} /\ AppTakes("SOFT_ERROR")
        /\ state' = "SOFT_ERROR" /\ ScheduleRetry
    BY <1>7 DEF OnSoftError
  <2>2. Phase = "operating" /\ BacksOff
    BY <2>1, PhaseIs, Scheduling DEF Implementing
  <2>3. UNCHANGED Answer
    BY <1>3, <2>1 DEF Tok
  <2>4. UNCHANGED Licence
    BY <1>1, <2>1 DEF OnJoined, EnterListening
  <2>5. Life!Relapse
    BY <1>2, <2>2, <2>3, <2>4 DEF BacksOff, Life!Relapse, Life!BackOff
  <2>6. QED
    BY <2>5 DEF Life!Next
<1>8. CASE OnDispatchStarted \/ OnDispatchFinished
  <2>1. PICK e \in {"DISPATCH_STARTED", "DISPATCH_FINISHED"} : AppTakes(e)
    BY <1>8 DEF OnDispatchStarted, OnDispatchFinished
  <2>2. /\ state \in {"LISTENING", "DISPATCHING"}
        /\ state' \in {"LISTENING", "DISPATCHING"}
        /\ UNCHANGED <<retry_timer, retry_delay>>
    BY <1>8 DEF OnDispatchStarted, OnDispatchFinished, retry
  <2>3. UNCHANGED Phase
    BY <2>2, PhaseIs, PhaseWillBe
  <2>4. UNCHANGED Answer
    BY <1>3, <2>1 DEF Tok
  <2>5. UNCHANGED Licence
    BY <1>1, <2>2 DEF OnJoined, EnterListening
  <2>6. QED
    BY <1>2, <2>2, <2>3, <2>4, <2>5, Stutters DEF Still
<1>9. CASE OnOther
  BY <1>1, <1>9, LifeOther
<1>10. QED
  BY <1>4, <1>5, <1>6, <1>7, <1>8, <1>9 DEF App

LEMMA LifeComms ==
  ASSUME Implementing, Comms
  PROVE  Life!Next \/ UNCHANGED Life!vars
<1>1. /\ AppTyped /\ CommsTyped /\ AlarmsTyped /\ Once
      /\ IF StopDispatch THEN Licence' = "withdrawn" ELSE UNCHANGED Licence
  BY Typed, LicensedComms DEF Implementing, OneJoin
<1>2. UNCHANGED <<state, retry_timer, retry_delay>>
  BY DEF Comms, BeginJoin, EndJoin, StartDispatch, StopDispatch, BeginDispatch,
         SkipDispatch, EndDispatch, retry
<1>3. CASE EndJoin
  <2>1. comms = "joining" /\ comms' = "waiting" /\ ~StopDispatch
    BY <1>1, <1>3, CommsTook DEF EndJoin, StopDispatch
  <2>2. PICK e \in Outcome : SendToApp(e)
    BY <1>3 DEF EndJoin, ReportOutcome, Outcome
  <2>3. e \in AppEvent /\ e \in {"NETWORK_JOINED", "NETWORK_JOIN_FAILED"}
    BY <2>2 DEF AppEvent, Outcome
  <2>4. \A d : Heard(d)' <=> Heard(d) \/ d = e
    BY <1>1, <2>2, <2>3, Informed, HeardGrows DEF Implementing
  <2>5. UNCHANGED Phase
    <3>1. state \in {"STARTUP", "SOFT_ERROR", "LISTENING", "DISPATCHING", "HARD_ERROR"}
      BY DEF Implementing, TypeOK
    <3>2. Heard("RETRY_TIMEOUT")' <=> Heard("RETRY_TIMEOUT")
      BY <2>3, <2>4
    <3>3. QED
      BY <1>2, <3>1, <3>2, PhaseIs, PhaseWillBe DEF Armed
  <2>6. Answer' \in {"joined", "failed"}
    BY <2>3, <2>4, AnswerWillBe
  <2>7. Life!Conclude
    BY <1>1, <1>2, <2>1, <2>5, <2>6 DEF Life!Conclude
  <2>8. QED
    BY <2>7 DEF Life!Next
<1>4. CASE Comms /\ ~EndJoin
  <2>1. UNCHANGED app_queue
    BY <1>4 DEF Comms, BeginJoin, StartDispatch, StopDispatch, BeginDispatch,
                SkipDispatch, EndDispatch
  <2>2. Still
    BY <1>2, <2>1 DEF Still, Phase, Answer, InApp
  <2>3. CASE BeginJoin
    <3>1. /\ CommsTakes("JOIN_NETWORK") /\ comms = "waiting" /\ comms' = "joining"
          /\ ~StopDispatch
      BY <1>1, <2>3, CommsTook DEF BeginJoin, StopDispatch, CommsTakes
    <3>2. Asked
      BY <1>1, <3>1, CommsConsumes DEF Asked, Join
    <3>3. ~Armed /\ ~Told
      BY <1>1, <3>2 DEF Once
    <3>4. \A d \in Tok : ~Heard(d)
      BY <1>1, <3>3, OneIsHeard
    <3>5. Answer = "none" /\ Phase \in {"joining", "halted"}
      BY <3>2, <3>3, <3>4, AnswerIs, PhaseIs
         DEF Tok, Implementing, OneJoin, Where, TypeOK
    <3>6. Life!Connect
      BY <1>1, <2>2, <3>1, <3>5 DEF Still, Life!Connect
    <3>7. QED
      BY <3>6 DEF Life!Next
  <2>4. CASE StopDispatch
    <3>1. /\ CommsTakes("STOP_DISPATCH") /\ comms = "waiting" /\ UNCHANGED comms
      BY <1>1, <2>4, CommsTook DEF StopDispatch, link
    <3>2. state = "HARD_ERROR"
      BY <1>1, <3>1, CommsConsumes DEF Stop, Implementing, LastWord
    <3>3. Life!Withdraw
      BY <1>1, <2>2, <2>4, <3>1, <3>2, PhaseIs DEF Still, Life!Withdraw
    <3>4. QED
      BY <3>3 DEF Life!Next
  <2>5. CASE BeginDispatch
    <3>1. /\ CommsTakes("DISPATCH_DUE") /\ comms = "waiting" /\ comms' = "dispatching"
          /\ dispatch_enabled /\ ~StopDispatch
      BY <1>1, <2>5, CommsTook DEF BeginDispatch, WhenAllowed, StopDispatch, CommsTakes
    <3>2. Licence = "granted"
      BY <3>1, LicenceIs DEF Granted, Withdrawn, Implementing, LastWord, Silent
    <3>3. Life!BeginSending
      BY <1>1, <2>2, <3>1, <3>2 DEF Still, Life!BeginSending
    <3>4. QED
      BY <3>3 DEF Life!Next
  <2>6. CASE EndDispatch
    <3>1. comms = "dispatching" /\ comms' = "waiting" /\ ~StopDispatch
      BY <1>1, <2>6, CommsTook DEF EndDispatch, StopDispatch
    <3>2. Life!EndSending
      BY <1>1, <2>2, <3>1 DEF Still, Life!EndSending
    <3>3. QED
      BY <3>2 DEF Life!Next
  <2>7. CASE StartDispatch \/ SkipDispatch
    <3>1. UNCHANGED comms /\ ~StopDispatch
      BY <2>7 DEF StartDispatch, SkipDispatch, StopDispatch, CommsTakes, link
    <3>2. QED
      BY <1>1, <2>2, <3>1, Stutters
  <2>8. QED
    BY <1>4, <2>3, <2>4, <2>5, <2>6, <2>7 DEF Comms
<1>5. QED
  BY <1>3, <1>4

LEMMA LifeTimers ==
  ASSUME Implementing, RetryTimerExpires \/ DispatchTimerExpires \/ PostOpenEvent
  PROVE  Life!Next \/ UNCHANGED Life!vars
<1>1. AppTyped /\ Once /\ UNCHANGED <<state, retry_delay, comms, Licence>>
  BY Typed, LicensedTimers
     DEF Implementing, OneJoin, RetryTimerExpires, DispatchTimerExpires, PostOpenEvent,
         link, retry
<1>2. CASE RetryTimerExpires
  <2>1. /\ Armed /\ retry_timer > 0 /\ retry_timer' = 0
        /\ app_queue' = Append(app_queue, "RETRY_TIMEOUT")
    BY <1>1, <1>2, AppHasRoom DEF RetryTimerExpires, OneShot, FromIsr, Armed
  <2>2. state = "SOFT_ERROR"
    BY <2>1 DEF Implementing, OneJoin, Where
  <2>3. \A d : Heard(d)' <=> Heard(d) \/ d = "RETRY_TIMEOUT"
    BY <1>1, <2>1, HeardGrows DEF AppEvent
  <2>4. Phase = "backing_off" /\ Phase' = "backing_off"
    BY <1>1, <2>1, <2>2, <2>3, PhaseIs, PhaseWillBe
  <2>5. UNCHANGED Answer
    BY <2>3, AnswerIs, AnswerWillBe
  <2>6. Life!Elapse
    BY <1>1, <2>1, <2>4, <2>5 DEF Life!Elapse
  <2>7. QED
    BY <2>6 DEF Life!Next
<1>3. CASE DispatchTimerExpires
  BY <1>1, <1>3, Stutters DEF DispatchTimerExpires, Still, Phase, Answer, InApp, retry
<1>4. CASE PostOpenEvent
  <2>1. UNCHANGED retry_timer
    BY <1>4 DEF PostOpenEvent, retry
  <2>2. \A d \in Tok : Heard(d)' <=> Heard(d)
    <3>1. PICK e \in AppEvent : e \notin Tok /\ app_queue' = FromIsr(app_queue, e)
      BY <1>4, ControlConstants DEF PostOpenEvent, Implementing, TypeOK, AppEvent, Tok
    <3>2. CASE app_queue' = Append(app_queue, e)
      BY <1>1, <3>1, <3>2, HeardGrows
    <3>3. CASE UNCHANGED app_queue
      BY <3>3 DEF Heard
    <3>4. QED
      BY <3>1, <3>2, <3>3 DEF FromIsr
  <2>3. UNCHANGED Answer
    BY <2>2, AnswerIs, AnswerWillBe DEF Tok
  <2>4. UNCHANGED Phase
    BY <1>1, <2>1, <2>2, PhaseIs, PhaseWillBe DEF Tok, Armed, Implementing, TypeOK
  <2>5. QED
    BY <1>1, <2>1, <2>3, <2>4, Stutters DEF Still
<1>5. QED
  BY <1>2, <1>3, <1>4

LEMMA LifeStep == Implementing /\ [Next]_vars => [Life!Next]_(Life!vars)
<1> SUFFICES ASSUME Implementing, [Next]_vars
             PROVE  Life!Next \/ UNCHANGED Life!vars
  OBVIOUS
<1>1. CASE UNCHANGED vars
  BY <1>1 DEF vars, Life!vars, Phase, Answer, Licence, InApp, InComms
<1>2. QED
  BY <1>1, LifeMain, LifeApp, LifeComms, LifeTimers DEF Next

(* The control plane implements the lifecycle, for every queue of three or   *)
(* more, every base and cap of the wait, either transport and every event    *)
(* posted from outside, also when commands are lost.                        *)
THEOREM ControlIsLifecycle == Spec => ImplementsLifecycle
<1>1. Spec => []Implementing
  BY TypeInit, OneJoinInit, LastWordInit, BackoffInit, LicensedInit, TypeStep,
     OneJoinStep, LastWordStep, BackoffStep, LicensedStep, PTL DEF Spec, Implementing
<1>2. QED
  BY <1>1, LifeInit, LifeStep, PTL DEF Spec, ImplementsLifecycle, Life!Spec
=============================================================================
