--------------------------- MODULE SocketLinkProofs --------------------------
(***************************************************************************)
(* Proofs about SocketLink, for every fragment size and any number of       *)
(* events a driver cares to raise.                                          *)
(***************************************************************************)
EXTENDS Link, TLAPS

-----------------------------------------------------------------------------
(* TypeOK, by what belongs together. *)
BringUpTyped ==
  /\ bring_up \in {"associate", "request", "wait", "answered", "silence", "scan",
                   "address", "ready", "failed"}
  /\ associating \in BOOLEAN /\ associated \in BOOLEAN /\ done \in {0, 1}
EventsTyped ==
  /\ events \in Seq(Event)
  /\ handler \in Event \cup {NoEvent} /\ last \in Event \cup {NoEvent}
  /\ radio \in {"idle", "trying", "associated", "wired"}
LinkTyped ==
  /\ link \in {"idle", "connecting", "sending"}
  /\ is_connected \in BOOLEAN /\ socket \in BOOLEAN /\ torn \in BOOLEAN
  /\ remaining \in 0..MaxFragment

LEMMA Typed == TypeOK <=> BringUpTyped /\ EventsTyped /\ LinkTyped
BY DEF TypeOK, BringUpTyped, EventsTyped, LinkTyped

LEMMA TypedNext == TypeOK' <=> BringUpTyped' /\ EventsTyped' /\ LinkTyped'
BY Typed, PTL

(* What bring_up_network() and the transport leave alone. *)
LEMMA BringUpFrame ==
  ASSUME BringUp
  PROVE  UNCHANGED <<events, handler, last, connection>>
BY DEF BringUp, Misconfigured, Arm, Request, RequestRefused, TakeAnswer,
       TakeTimesOut, GiveUp, Conclude, ReportNetworks, GetAddress, driver

LEMMA TransportFrame ==
  ASSUME Transport
  PROVE  UNCHANGED <<bring_up, attempt, driver, handler, last>>
BY DEF Transport, BeginConnect, NoSocket, Connected, ConnectFails, BeginSend,
       SendSome, EndSend, SendFails

LEMMA TypeInit == Init => TypeOK
<1> SUFFICES ASSUME Init
             PROVE  TypeOK
  OBVIOUS
<1>1. BringUpTyped
  <2>1. done \in {0, 1}
    BY DEF Init
  <2>2. QED
    BY <2>1 DEF Init, WifiLink, TcpLink, BringUpTyped
<1>2. EventsTyped /\ LinkTyped
  <2>1. remaining \in 0..MaxFragment
    BY MaxFragmentConstant DEF Init
  <2>2. events \in Seq(Event)
    BY DEF Init
  <2>3. QED
    BY <2>1, <2>2 DEF Init, WifiLink, TcpLink, EventsTyped, LinkTyped
<1>3. QED
  BY <1>1, <1>2, Typed

LEMMA TypeStep == TypeOK /\ [Next]_vars => TypeOK'
<1> SUFFICES ASSUME TypeOK, [Next]_vars
             PROVE  TypeOK'
  OBVIOUS
<1>1. BringUpTyped /\ EventsTyped /\ LinkTyped
  BY Typed
<1>2. CASE Driver
  <2>1. /\ \E e \in Event : events' = Append(events, e)
        /\ radio' \in {"idle", "associated"}
        /\ UNCHANGED <<bring_up, attempt, handler, last, connection>>
    BY <1>2 DEF Driver, DriverAssociates, DriverRefuses, AccessPointLost, Raise,
                Event, Refusal
  <2>2. events' \in Seq(Event)
    BY <1>1, <2>1 DEF EventsTyped
  <2>3. QED
    BY <1>1, <2>1, <2>2, TypedNext
       DEF BringUpTyped, EventsTyped, LinkTyped, attempt, connection
<1>3. CASE HandleEvent
  <2>1. Head(events) \in Event /\ Tail(events) \in Seq(Event)
    BY <1>1, <1>3 DEF HandleEvent, EventsTyped
  <2>2. QED
    BY <1>1, <1>3, <2>1, TypedNext
       DEF HandleEvent, Noted, BringUpTyped, EventsTyped, LinkTyped, connection
<1>4. CASE TellAttempt
  BY <1>1, <1>4, TypedNext
     DEF TellAttempt, Given, BringUpTyped, EventsTyped, LinkTyped, driver, connection
<1>5. CASE BringUp
  <2>1. BringUpTyped' /\ radio' \in {"idle", "trying", "associated", "wired"}
    BY <1>1, <1>5
       DEF BringUp, Misconfigured, Arm, Request, RequestRefused, TakeAnswer,
           TakeTimesOut, GiveUp, Conclude, ReportNetworks, GetAddress, Step, Waiting,
           attempt, driver, BringUpTyped, EventsTyped
  <2>2. QED
    BY <1>1, <1>5, <2>1, BringUpFrame, TypedNext DEF EventsTyped, LinkTyped, connection
<1>6. CASE Transport
  <2>1. remaining' \in 0..MaxFragment
    BY <1>1, <1>6, MaxFragmentConstant
       DEF LinkTyped, Transport, BeginConnect, NoSocket, Connected, ConnectFails,
           BeginSend, SendSome, EndSend, SendFails
  <2>2. /\ link' \in {"idle", "connecting", "sending"}
        /\ is_connected' \in BOOLEAN /\ socket' \in BOOLEAN /\ torn' \in BOOLEAN
    <3>1. CASE SendSome
      <4>1. torn' = (remaining' > 0)
        BY <3>1 DEF SendSome
      <4>2. torn' \in BOOLEAN
        BY <4>1
      <4>3. QED
        BY <1>1, <3>1, <4>2 DEF LinkTyped, SendSome
    <3>2. CASE ~SendSome
      BY <1>1, <1>6, <3>2
         DEF LinkTyped, Transport, BeginConnect, NoSocket, Connected, ConnectFails,
             BeginSend, EndSend, SendFails, AbandonConnect, CloseSocket, DropConnection
    <3>3. QED
      BY <3>1, <3>2
  <2>3. QED
    BY <1>1, <1>6, <2>1, <2>2, TransportFrame, TypedNext
       DEF BringUpTyped, EventsTyped, LinkTyped, attempt, driver
<1>7. CASE UNCHANGED vars
  BY <1>7 DEF vars, TypeOK
<1>8. QED
  BY <1>2, <1>3, <1>4, <1>5, <1>6, <1>7 DEF Next

(* The link keeps its types. *)
THEOREM SocketTypes == Spec => []TypeOK
BY TypeInit, TypeStep, PTL DEF Spec

-----------------------------------------------------------------------------
(* The attempt: nothing is heard before the request is out, because nothing  *)
(* was asked; the flag is up until the attempt has concluded; and what was   *)
(* noted is what the last event said.                                       *)
Unasked == radio = "idle" /\ events = <<>> /\ handler = NoEvent /\ last = NoEvent

Attempt ==
  /\ bring_up \in {"associate", "request"} => Unasked
  /\ bring_up \in {"request", "wait", "answered", "silence"} => associating
  /\ bring_up = "wait" /\ last # NoEvent /\ handler = NoEvent => done = 1
  /\ associated <=> last = Success

LEMMA AttemptInit == Init => Attempt
BY DEF Init, WifiLink, TcpLink, Attempt, Unasked, NoEvent, Success

LEMMA AttemptStep == TypeOK /\ Attempt /\ [Next]_vars => Attempt'
<1> SUFFICES ASSUME TypeOK, Attempt, [Next]_vars
             PROVE  Attempt'
  OBVIOUS
<1>1. CASE Driver
  BY <1>1 DEF Driver, DriverAssociates, DriverRefuses, AccessPointLost, Raise,
              Attempt, Unasked, attempt
<1>2. CASE HandleEvent
  <2>1. Head(events) \in Event
    BY <1>2 DEF HandleEvent, TypeOK
  <2>2. Head(events) # NoEvent
    BY <2>1 DEF Event, Success, Refusal, NoEvent
  <2>3. QED
    BY <1>2, <2>2 DEF HandleEvent, Noted, Attempt, Unasked
<1>3. CASE TellAttempt
  BY <1>3 DEF TellAttempt, Given, Attempt, Unasked, driver
<1>4. CASE BringUp
  BY <1>4, BringUpFrame
     DEF BringUp, Misconfigured, Arm, Request, RequestRefused, TakeAnswer,
         TakeTimesOut, GiveUp, Conclude, ReportNetworks, GetAddress, Step, Waiting,
         attempt, driver, Attempt, Unasked, NoEvent, Success
<1>5. CASE Transport
  BY <1>5, TransportFrame DEF Attempt, Unasked, attempt, driver
<1>6. CASE UNCHANGED vars
  BY <1>6 DEF vars, Attempt, Unasked
<1>7. QED
  BY <1>1, <1>2, <1>3, <1>4, <1>5, <1>6 DEF Next

(* An event the handler is through with ends the wait, however early it     *)
(* came: a refused association does not sit out the thirty seconds.         *)
THEOREM AnswersAreHeard == Spec => []AnswerEndsTheWait
<1>1. Attempt => AnswerEndsTheWait
  BY DEF Attempt, AnswerEndsTheWait
<1>2. QED
  BY <1>1, TypeInit, TypeStep, AttemptInit, AttemptStep, PTL DEF Spec

(* The attempt concludes what the last event said, although the flag and    *)
(* the semaphore are set one after the other.                               *)
THEOREM LastEventDecides == Spec => ConcludesTheLastEvent
<1> DEFINE A == bring_up = "answered" /\ bring_up' # bring_up
                  => (bring_up' = "address" <=> last = Success)
<1>1. Attempt /\ [Next]_vars => [A]_vars
  <2> SUFFICES ASSUME Attempt, Next, bring_up = "answered", bring_up' # bring_up
               PROVE  bring_up' = "address" <=> last = Success
    OBVIOUS
  <2>1. BringUp
    BY TransportFrame
       DEF Next, Driver, DriverAssociates, DriverRefuses, AccessPointLost, Raise,
           HandleEvent, TellAttempt
  <2>2. bring_up' = IF associated THEN "address" ELSE "scan"
    BY <2>1
       DEF BringUp, Misconfigured, Arm, Request, RequestRefused, TakeAnswer,
           TakeTimesOut, GiveUp, Conclude, ReportNetworks, GetAddress, Step
  <2>3. QED
    BY <2>2 DEF Attempt
<1>2. QED
  BY <1>1, TypeInit, TypeStep, AttemptInit, AttemptStep, PTL
     DEF Spec, ConcludesTheLastEvent

-----------------------------------------------------------------------------
(* The connection, with what is true in the middle of a call: while it is    *)
(* sending, a torn frame is one of which something is left.                 *)
Connection ==
  /\ link = "idle" => (socket <=> is_connected) /\ ~torn
  /\ link = "connecting" => socket /\ ~is_connected /\ ~torn
  /\ link = "sending" => socket /\ is_connected /\ (torn => remaining # 0)

LEMMA ConnectionInit == Init => Connection
BY DEF Init, Connection

LEMMA ConnectionStep == TypeOK /\ Connection /\ [Next]_vars => Connection'
<1> SUFFICES ASSUME TypeOK, Connection, [Next]_vars
             PROVE  Connection'
  OBVIOUS
<1>1. CASE Driver \/ HandleEvent \/ TellAttempt \/ BringUp
  <2>1. UNCHANGED connection
    BY <1>1, BringUpFrame
       DEF Driver, DriverAssociates, DriverRefuses, AccessPointLost, Raise,
           HandleEvent, TellAttempt
  <2>2. QED
    BY <2>1 DEF connection, Connection
<1>2. CASE BeginConnect \/ NoSocket \/ Connected \/ ConnectFails \/ EndSend \/ SendFails
  BY <1>2 DEF BeginConnect, NoSocket, Connected, ConnectFails, EndSend, SendFails,
              AbandonConnect, CloseSocket, DropConnection, Connection
<1>3. CASE BeginSend
  BY <1>3 DEF BeginSend, Connection
<1>4. CASE SendSome
  <2>1. /\ link = "sending" /\ torn' = (remaining' > 0)
        /\ UNCHANGED <<link, is_connected, socket>>
        /\ remaining' \in 0..(remaining - 1)
    BY <1>4 DEF SendSome
  <2>2. torn' => remaining' > 0
    BY <2>1, Zenon
  <2>3. remaining' > 0 => remaining' # 0
    OBVIOUS
  <2>4. QED
    BY <2>1, <2>2, <2>3 DEF Connection
<1>5. CASE UNCHANGED vars
  BY <1>5 DEF vars, Connection
<1>6. QED
  BY <1>1, <1>2, <1>3, <1>4, <1>5 DEF Next, Transport

(* A frame that was cut off ends its connection, so the far end's stream of  *)
(* frames stays aligned, whatever a send hands over before it fails.        *)
THEOREM StreamsStayAligned == Spec => []StreamStaysAligned
<1>1. Connection => StreamStaysAligned
  BY DEF Connection, StreamStaysAligned
<1>2. QED
  BY <1>1, TypeInit, TypeStep, ConnectionInit, ConnectionStep, PTL DEF Spec

(* Between two calls a socket is open exactly when the link says so: no      *)
(* attempt and no failure leaks one.                                        *)
THEOREM NoSocketLeaks == Spec => []SocketMatchesFlag
<1>1. Connection => SocketMatchesFlag
  BY DEF Connection, SocketMatchesFlag
<1>2. QED
  BY <1>1, TypeInit, TypeStep, ConnectionInit, ConnectionStep, PTL DEF Spec

-----------------------------------------------------------------------------
(* Whichever transport is built, what a build does is what its transport     *)
(* does and what the other one allows: what is proved of each of them holds  *)
(* in every build.                                                          *)
THEOREM TransportsApart == LinkSpec => LoraSpec /\ Spec
<1>1. LinkInit => LoraInit /\ Init
  BY DEF LinkInit
<1>2. [LinkNext]_linkVars => [LoraNext]_loraVars /\ [Next]_vars
  BY DEF LinkNext, OnLora, OnSocket, linkVars
<1>3. QED
  BY <1>1, <1>2, PTL DEF LinkSpec, LoraSpec, Spec
=============================================================================
