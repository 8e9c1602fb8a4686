------------------------------ MODULE SocketLink -----------------------------
(***************************************************************************)
(* hal::link::SocketLink with the Wi-Fi backend under it: one association  *)
(* attempt, while the firmware comes up, whose answer arrives as events in  *)
(* the network management thread; then a TCP connection that connect()      *)
(* opens and a failed send() closes.                                        *)
(*                                                                         *)
(* The caller is one thread at a time: main inside initialize(), then comms *)
(* inside connect() and send().  The wired backend is the same with the     *)
(* association left out: it begins at its address.  Frames are counted in   *)
(* bytes the peer receives; what they say is module Uplink's.               *)
(***************************************************************************)
EXTENDS Naturals, Sequences

CONSTANT
  MaxFragment   (* the configured fragment size, in bytes                   *)

ASSUME MaxFragmentConstant == MaxFragment \in Nat \ {0}

VARIABLES
  bring_up,     (* where bring_up_network() is                              *)
  associating,  (* s_associating                                            *)
  associated,   (* s_associated                                             *)
  done,         (* s_associate_done: a semaphore that saturates at one      *)
  events,       (* events the driver raised, not yet handled                *)
  handler,      (* the event on_wifi_event() is handling                    *)
  radio,        (* what the driver is doing                                 *)
  last,         (* history: the event the handler noted last                *)
  link,         (* what the comms thread is inside                          *)
  is_connected, (* m_is_connected                                           *)
  socket,       (* m_socket is open                                         *)
  remaining,    (* bytes of the frame that send() still has to hand over    *)
  torn          (* history: the open connection carries part of a frame     *)

attempt == <<associating, associated, done>>
driver == <<events, radio>>
connection == <<link, is_connected, socket, remaining, torn>>
vars == <<bring_up, associating, associated, done, events, handler, radio,
          last, link, is_connected, socket, remaining, torn>>

Success == "CONNECT_OK"
Refusal == {"CONNECT_FAILED", "DISCONNECT"}
Event == {Success} \cup Refusal
NoEvent == "none"

(* Where bring_up_network() begins, and over what. *)
WifiLink == bring_up = "associate" /\ radio = "idle"
TcpLink == bring_up = "address" /\ radio = "wired"

Init ==
  /\ WifiLink \/ TcpLink
  /\ associating = FALSE /\ associated = FALSE /\ done = 0
  /\ events = <<>> /\ handler = NoEvent
  /\ last = NoEvent
  /\ link = "idle" /\ is_connected = FALSE /\ socket = FALSE
  /\ remaining = 0 /\ torn = FALSE

-----------------------------------------------------------------------------
(* The driver: answers a request once, with a result or, if it refuses, with *)
(* a disconnection; answers late or never; loses the access point later.    *)
Raise(e, next) ==
  /\ events' = Append(events, e)
  /\ radio' = next
  /\ UNCHANGED <<bring_up, attempt, handler, last, connection>>

DriverAssociates == radio = "trying" /\ Raise(Success, "associated")
DriverRefuses == radio = "trying" /\ \E e \in Refusal : Raise(e, "idle")
AccessPointLost == radio = "associated" /\ Raise("DISCONNECT", "idle")

Driver == DriverAssociates \/ DriverRefuses \/ AccessPointLost

-----------------------------------------------------------------------------
(* on_wifi_event(), first half: the outcome is noted. *)
NotedIfSuccess(e) == associated' = (associated \/ e = Success)
Noted(e) == associated' = (e = Success)

HandleEvent ==
  /\ handler = NoEvent
  /\ events # <<>>
  /\ handler' = Head(events)
  /\ events' = Tail(events)
  /\ last' = Head(events)
  /\ Noted(Head(events))
  /\ UNCHANGED <<bring_up, associating, done, radio, connection>>

(* Second half: an attempt that is waiting is told, once. *)
Given == 1

TellAttempt ==
  /\ handler # NoEvent
  /\ handler' = NoEvent
  /\ done' = IF associating THEN Given ELSE done
  /\ UNCHANGED <<bring_up, associating, associated, driver, last, connection>>

-----------------------------------------------------------------------------
(* bring_up_network() and associate(). *)

Step(from, to) == bring_up = from /\ bring_up' = to

(* No interface, or an SSID that cannot be one. *)
Misconfigured ==
  /\ Step("associate", "failed")
  /\ UNCHANGED <<attempt, driver, handler, last, connection>>

(* The flag goes up before the request goes out. *)
FlagForgotten == UNCHANGED associating
Waiting == associating' = TRUE

Arm ==
  /\ Step("associate", "request")
  /\ associated' = FALSE
  /\ done' = 0
  /\ Waiting
  /\ UNCHANGED <<driver, handler, last, connection>>

Request ==
  /\ Step("request", "wait")
  /\ radio' = "trying"
  /\ UNCHANGED <<attempt, events, handler, last, connection>>

(* The early return leaves the flag up. *)
RequestRefused ==
  /\ Step("request", "failed")
  /\ UNCHANGED <<attempt, driver, handler, last, connection>>

(* s_associate_done.take(ASSOCIATE_WAIT_MS). *)
TakeAnswer ==
  /\ Step("wait", "answered")
  /\ done = 1 /\ done' = 0
  /\ UNCHANGED <<associating, associated, driver, handler, last, connection>>

NeverTimesOut == FALSE
TimesOut == done = 0

TakeTimesOut ==
  /\ Step("wait", "silence")
  /\ TimesOut
  /\ UNCHANGED <<attempt, driver, handler, last, connection>>

GiveUp ==
  /\ Step("silence", "failed")
  /\ associating' = FALSE
  /\ UNCHANGED <<associated, done, driver, handler, last, connection>>

Conclude ==
  /\ Step("answered", IF associated THEN "address" ELSE "scan")
  /\ associating' = FALSE
  /\ UNCHANGED <<associated, done, driver, handler, last, connection>>

(* report_visible_networks() only writes the log: it fails to start, times   *)
(* out or finishes, and the attempt has failed either way.                  *)
ReportNetworks ==
  /\ Step("scan", "failed")
  /\ UNCHANGED <<attempt, driver, handler, last, connection>>

(* DHCP within its wait, or the static address. *)
GetAddress ==
  /\ bring_up = "address"
  /\ bring_up' \in {"ready", "failed"}
  /\ UNCHANGED <<attempt, driver, handler, last, connection>>

BringUp ==
  \/ Misconfigured \/ Arm \/ Request \/ RequestRefused \/ TakeAnswer
  \/ TakeTimesOut \/ GiveUp \/ Conclude \/ ReportNetworks \/ GetAddress

-----------------------------------------------------------------------------
(* connect() and send().  The application asks for a join whether bring-up   *)
(* failed or not; only a device that came up is told to dispatch.           *)

Returned == bring_up \in {"ready", "failed"}

CloseSocket ==
  /\ socket' = FALSE
  /\ torn' = FALSE
LeaveOpen == UNCHANGED <<socket, torn>>

(* Already connected: connect() returns at once. *)
BeginConnect ==
  /\ Returned /\ link = "idle" /\ ~is_connected
  /\ link' = "connecting"
  /\ socket' = TRUE /\ torn' = FALSE
  /\ UNCHANGED <<bring_up, attempt, driver, handler, last, is_connected, remaining>>

(* zsock_socket() fails: no socket, and the old one is closed. *)
NoSocket ==
  /\ Returned /\ link = "idle" /\ ~is_connected
  /\ CloseSocket
  /\ UNCHANGED <<bring_up, attempt, driver, handler, last, link, is_connected,
                 remaining>>

(* A connection needs the access point, or the cable, and an address. *)
Connected ==
  /\ link = "connecting"
  /\ radio \in {"associated", "wired"} /\ bring_up = "ready"
  /\ link' = "idle"
  /\ is_connected' = TRUE
  /\ UNCHANGED <<bring_up, attempt, driver, handler, last, socket, remaining, torn>>

AbandonConnect == CloseSocket

ConnectFails ==
  /\ link = "connecting"
  /\ link' = "idle"
  /\ AbandonConnect
  /\ UNCHANGED <<bring_up, attempt, driver, handler, last, is_connected, remaining>>

(* send() of a frame within the fragment limit; longer ones are refused, as  *)
(* are all when not connected.                                              *)
BeginSend ==
  /\ bring_up = "ready" /\ link = "idle" /\ is_connected
  /\ link' = "sending"
  /\ remaining' \in 1..MaxFragment
  /\ UNCHANGED <<bring_up, attempt, driver, handler, last, is_connected, socket, torn>>

(* zsock_send() takes some of what is left. *)
SendSome ==
  /\ link = "sending" /\ remaining > 0
  /\ remaining' \in 0..(remaining - 1)
  /\ torn' = (remaining' > 0)
  /\ UNCHANGED <<bring_up, attempt, driver, handler, last, link, is_connected, socket>>

EndSend ==
  /\ link = "sending" /\ remaining = 0
  /\ link' = "idle"
  /\ UNCHANGED <<bring_up, attempt, driver, handler, last, is_connected, socket,
                 remaining, torn>>

KeepConnection == UNCHANGED <<socket, torn, is_connected>>
DropConnection == CloseSocket /\ is_connected' = FALSE

SendFails ==
  /\ link = "sending" /\ remaining > 0
  /\ DropConnection
  /\ link' = "idle"
  /\ remaining' = 0
  /\ UNCHANGED <<bring_up, attempt, driver, handler, last>>

Transport ==
  \/ BeginConnect \/ NoSocket \/ Connected \/ ConnectFails
  \/ BeginSend \/ SendSome \/ EndSend \/ SendFails

Next == Driver \/ HandleEvent \/ TellAttempt \/ BringUp \/ Transport

Spec == Init /\ [][Next]_vars

-----------------------------------------------------------------------------
(* Every variable holds a value of its type. *)
TypeOK ==
  /\ bring_up \in {"associate", "request", "wait", "answered", "silence", "scan",
                   "address", "ready", "failed"}
  /\ associating \in BOOLEAN /\ associated \in BOOLEAN /\ done \in {0, 1}
  /\ events \in Seq(Event)
  /\ handler \in Event \cup {NoEvent} /\ last \in Event \cup {NoEvent}
  /\ radio \in {"idle", "trying", "associated", "wired"}
  /\ link \in {"idle", "connecting", "sending"}
  /\ is_connected \in BOOLEAN /\ socket \in BOOLEAN /\ torn \in BOOLEAN
  /\ remaining \in 0..MaxFragment

(* An event the handler is through with ends the wait, however early it came: *)
(* a refused association does not sit out the thirty seconds                *)
(* (link_wifi.cpp:206-210).                                                 *)
AnswerEndsTheWait ==
  bring_up = "wait" /\ last # NoEvent /\ handler = NoEvent => done = 1

(* The attempt concludes what the last event said, although the flag and the *)
(* semaphore are set one after the other and more events may follow.        *)
ConcludesTheLastEvent ==
  [][bring_up = "answered" /\ bring_up' # bring_up =>
       (bring_up' = "address" <=> last = Success)]_vars

(* A frame that was cut off ends its connection: nothing is written behind   *)
(* half a frame, so the far end stays aligned (src/tests/README.md:63-64).   *)
StreamStaysAligned == link = "idle" /\ socket => ~torn

(* Between two calls a socket is open exactly when the link says it is       *)
(* connected: no attempt and no failure leaks one.                          *)
SocketMatchesFlag == link = "idle" => (socket <=> is_connected)

-----------------------------------------------------------------------------
(* link_wifi.cpp:111-116: "the link dropping during normal operation" is     *)
(* something "which connect() handles on its next call".                    *)
LostLinkIsRebuilt == bring_up = "ready" /\ radio = "idle" ~> radio # "idle"
=============================================================================
