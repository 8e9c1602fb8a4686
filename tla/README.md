# Verification of the BLE concentrator firmware

TLA+ models of the firmware under `src/`, the TLC configurations that check them,
and TLAPS proofs of what holds for every value of the constants. Every definition
is translated from the C++ sources; `PROJECT.json` maps each one to its lines.
Paths below are relative to `src/src/`.

## 1. The system

The device listens to BLE advertisements of endpoints, keeps the last reading of
each in a table, and once per dispatch period sends what is new over one of three
transports: LoRaWAN, TCP over a wire, TCP over Wi-Fi.

| Component | State | Operations | Talks to |
| --- | --- | --- | --- |
| `svc/device_table` | `s_entries`, `s_evicted_count`, a mutex | `upsert`, `snapshot`, `mark_reported` | called by acquisition (writer) and comms (reader) |
| `svc/acquisition` | report pool, event queue, `s_dropped_report_count` | the advertising callback, `START_SCAN`, `STOP_SCAN`, the drain loop | Bluetooth receive thread → acquisition thread → table |
| `svc/comms` | `s_sequence`, `s_boot_uplink_sent`, `s_last_uplink_uptime_s`, `s_dispatch_enabled`, the dispatch timer | `JOIN_NETWORK`, `START_DISPATCH`, `STOP_DISPATCH`, `DISPATCH_DUE` | table, link, application (events) |
| `app` | the current state, `s_retry_delay_ms`, the retry timer | bring-up; STARTUP, LISTENING, DISPATCHING, SOFT_ERROR, HARD_ERROR | every service, by events |
| `eda` | one bounded queue and thread per active object, the port registry | `send_event`, `send_event_from_isr`, `process_events`, timers, state machine | all of the above |
| `hal/link/socket`, `wifi`, `tcp` | `m_socket`, `m_is_connected`; `s_associating`, `s_associated`, a semaphore | `initialize`, `connect`, `send`; `on_wifi_event` | comms thread, network management thread |
| `hal/link/lora` | `m_is_joined`, the stack's data rate and MAC traffic | `connect`, `send`, payload sizes | comms thread, LoRaWAN network |
| `hal/ble` | `s_is_scanning` | `start_scan`, `stop_scan` | acquisition |
| `utils/fault`, `svc/system_diagnostics` | the latched reason; the blink phase | `report`; `HEARTBEAT_DUE` | every sender of events; LEDs |
| `hal/watchdog`, `eda/idle_hook` | the watchdog channel | `refresh` from the idle thread | hardware |
| `utils/queue` | a ring buffer | `push`, `pop` | nothing instantiates it |

What is hard about it:

* **Threads that share the table.** The snapshot of a dispatch is sent and
  acknowledged while the acquisition thread keeps writing, evicting and
  re-inserting (`NoFalseAcknowledgement`, `ImplementsMailbox`, `OneEntryPerDevice`,
  `EvictionIsLastResort`).
* **Queues on which nobody blocks.** A full pool drops the report, a full event
  queue drops the wake-up or the command; what is dropped must be counted or must
  not matter (`NoLostWakeup`, `DropsAccountedFor`, `NoCommandLost`).
* **One join attempt handed around** by a timer, two queues and two threads
  (`OneJoinOutstanding`, `BackoffMatchesSetbacks`, `ImplementsLifecycle`,
  `KeepsTrying`).
* **Events already queued when a state is left** (`MutedInHardError`,
  `StopIsFinal`, `FailedServicesHalt`).
* **A fault that must become visible** through a thread below all others, which
  the application preempts between two LED writes (`BlinkStaysInStep`,
  `FaultIsShown`, `HardErrorBlinks`).
* **Lengths that a stranger sent**: every advertisement in range is walked by the
  length bytes it brings along (`ReadsWhatWasReceived`, `VerdictIsRight`).
* **Bring-up under a watchdog**, with threads that start before it is over and
  statics that no lock protects (`NoRacingConstruction`, `FedUnlessSpinning`,
  `SpinIsReset`).
* **A link that changes under a cycle**: rates, MAC traffic, refused fragments,
  partial writes (`PendingUntilThrough`, `FragmentsFit`, `StreamStaysAligned`).
* **A network that only reacts to being talked to** (`RateRecovers`,
  `NeverSilentForGood`), and a radio stack that keeps state a retry does not
  expect (`OnlyTheStackRefusesTheRate`, `RefusedOnlyAfterLoss`).
* **An answer that arrives in another thread**, early, late or twice
  (`AnswerEndsTheWait`, `ConcludesTheLastEvent`).

`PROJECT.json` lists each hazard at its line, with the properties aimed at it.

## 2. The modules

| Module | Models | Proofs |
| --- | --- | --- |
| `Mailbox` | what the table promises, without slots, sequences, clocks or locks | |
| `DeviceTable` | the table and the two threads around it; implements `Mailbox` | `DeviceTableProofs` |
| `Acquisition` | callback, pool, event queue, drain loop, scan control | `AcquisitionProofs` |
| `AdvParser` | `parse_custom_frame()`, the walk over one advertisement | `AcquisitionProofs` |
| `Lifecycle` | what the control plane promises, without queues, threads or a state machine | |
| `Control` | bring-up outcome, application state machine, comms event handler, timers; implements `Lifecycle` | `ControlProofs` |
| `Health` | `Control` composed with the diagnostics service and the LEDs | `HealthProofs` |
| `Boot` | bring-up step by step, singletons, idle thread, watchdog, reset | `BootProofs` |
| `Uplink` | `dispatch()` against the link and the network | `UplinkProofs` |
| `LoraLink` | LoRaWAN `initialize()`, `connect()`, resets, the join server | `LoraLinkProofs` |
| `SocketLink` | wired and Wi-Fi bring-up, `connect()`, `send()` | `SocketLinkProofs` |
| `Link` | `LinkFactory`: the one of these two transports that a build has | `SocketLinkProofs` |

`MC<Module>` extends a module for TLC. `Health` extends `Control`,
`Link` extends both transports, `Control` instantiates `Lifecycle` and `DeviceTable`
instantiates `Mailbox`; the others are separate views of one
firmware. Each replaces its neighbours by what it sees of them, which is always
*more* behaviour than the neighbour has:

* `DeviceTable` lets a dispatch send any subset of the snapshot in any grouping
  and stop at any fragment; `Uplink` has the exact order and sizes.
* `Uplink` lets devices be heard and go stale at any time, in fixed slots, and is
  always allowed to dispatch; slots are `DeviceTable`'s and permission is
  `Control`'s.
* `Control` has dispatches that take any time and may break the link; what they
  send is `Uplink`'s. What a connect does inside is `LoraLink`'s or
  `SocketLink`'s: here it takes any time and succeeds or fails.
* `Acquisition` has an application that sends `START_SCAN` once and `STOP_SCAN` at
  most once, which is what STARTUP's and HARD_ERROR's entry actions do.
* `SocketLink` has a caller that connects and sends at will once bring-up is over.
* `Boot` reduces what a handler does to the singletons it reaches.

### Mailbox and DeviceTable

`entries` is `s_entries`; each function holds the mutex from its first access to
its last, so `Upsert`, `SnapshotCopy` and `MarkReported` are one action each.
`snapshot()` reads the clock *before* the lock, so `SnapshotClock` is an action of
its own. A record of a fragment is acknowledged one call at a time
(`send_fragment()`, comms/subsystem.cpp:221-224), and advertisements happen
between the calls. A reading is the number of the advertisement that brought it:
`heard`, `delivered`, `recycled` and the field `lag` are history.
`update_seq` and `reported_seq` wrap at `SeqMod`; ages are `uint32_t` differences.

`Mailbox` knows one box per device. Its `newest[a]` is the reading in the slot
that holds `a`; `settled` are the devices whose slot is marked reported, those
excepted that an eviction put in `recycled`; `sent` is `delivered`. `Upsert` maps
to `Hear` or, when it evicts, to `Replace`; a fragment that the link accepts to
`Send`, which demands that nothing leaves twice; an acknowledgement that changes
something to `Settle`, which demands that the reading has left; everything else
to a stutter.

### Acquisition

The callback's put and post are two steps, so are `try_get()` and `upsert()` of
the drain loop. `parse_custom_frame()` is reduced to its verdict, `ours`, which is
`AdvParser`'s. A report is its number, so that losing one can be told from losing
another.

### AdvParser

`data` and `data_length` are the report that `scan_callback()` filled: what
exceeds `MAX_ADV_DATA_SIZE` is cut off there, so a length byte can claim more than
there is. `offset` is the variable of the same name; one round of the loop is one
action, and there is one action per way a round can go (`Exhausted`, `Discard`,
`Skip`, `Mismatch`, `Copy`). `CompanyId` reads the low byte first, as the copy into
a packed struct does. `reach` is history: the end of the farthest byte that was
read. `Ours`, what the verdict is compared with, mentions no walk: elements can be
laid out from the first byte on, up to one with manufacturer data, and that one
holds a frame of ours.

### Lifecycle

The device joins, backs off, operates or halts (`phase`). An attempt needs the
radio (`Connect`, `Conclude`), and its `answer` is acted upon once (`Succeed`,
`Fail`); a failure costs one `pause` and doubles `delay` up to a cap; sending needs
a `licence`, which the first success grants and which is withdrawn after halting.

`Control` maps to it by its own variables where there are any (`retry_timer`,
`retry_delay`, `comms`) and by three derived ones. `Phase` is the state, and in
STARTUP and SOFT_ERROR whether the retry timer runs or its event waits; `Answer` is
the outcome in the application's queue; `Licence` is granted from the
START_DISPATCH that is sent (or lost) until the STOP_DISPATCH is taken. Everything
else - ticks, dropped events, latched faults, the steps of bring-up - is a stutter.

### Control

One action per state and event (`OnJoined`, `OnJoinFailed`, ...), entry and exit
actions included; every event a state does not handle is taken and dropped
(`OnOther`). The comms thread's `connect()` and `dispatch()` begin and end, and
timers, other threads and events interleave. `SendToComms` and `SendToApp` are
`send_event()`: they latch a fault when they cannot deliver; `FromIsr` is
`send_event_from_isr()`, which drops silently. If acquisition fails to
initialize, comms never registers its port. Threads interleave freely instead of
by priority, with one exception that the outcome of bring-up needs: main has
Zephyr's priority 0, does not block once the services are up, and so finishes
before any service thread runs (`MainIsDone`). The release build is modelled: on a
debug build `ASSERT_CRITICAL` spins in the thread that failed to send, which is
`Boot`'s. `posted` is the set of events that somebody outside the firmware
posts: none, or those of `OpenEvents` that the state machine handles and nobody
in `src/` sends. `Uncapped` is the reference for the backoff: RETRY_MS doubled once
per setback. The history counter of setbacks stops at `MaxSetbacks`, and
`SetbacksReachTheCap` asks that the cap is reached by then.

### Health

`Controlled` is a step of `Control` together with the write to the ERROR LED that
belongs to entering or leaving SOFT_ERROR. The service's thread looks at the latch
on each beat (`BeginBeat`) and then writes one LED at a time; the application may
run between any two of those writes. That it would also have to finish before the
service goes on is not used: the interleavings are a superset.

### Boot

`step` is where `App::initialize()` is. The processor is one, and a thread runs
only when all above it wait (`Runs`); time passes while every thread waits or
while one spins, and the idle thread feeds the watchdog in between. A
function-local static has no lock (the toolchain's default for Zephyr), so a
second thread that comes by before the constructor has returned constructs it
again (`Reach`, `Leave`). `Bite` is the reset. Both builds and every failure are
initial or nondeterministic choices.

### Uplink

`phase` is where `dispatch()` is; every branch is an action: not connected or
squeezed (`SkipCycle`), ADR probe (`SendProbe`), header alone or table
(`ReadLink`), fragments (`TakeSnapshot`, `FragmentAccepted`, `FragmentRefused`,
`EndCycle`), heartbeat (`HeartbeatIfDue`). The network is class A
(link_lora.cpp:258): it changes the rate or squeezes a packet only in answer to a
frame it heard (`measured`).

### LoraLink

`connect()` up to `lorawan_join()` is one action, because only the comms thread
calls it and the stack is idle meanwhile: mask, ADR off, rate, ADR on, in the
code's order (`Prepared`). The rate may be refused although ADR is off (`willing`
is what the stack would say); the code then logs a warning and joins at the rate
the stack has. `ServerHears` and `ServerRejects` decide what the join server makes
of the request and whether its answer arrives; `EndJoin` is the return. `Reset` may
come at any moment and keeps only the stored DevNonce. The stack and the server
are external: modelled as the comments of `link_lora.cpp` rely on them. When the
stack saves its DevNonce is its own affair (`SaveNonce`): any time, or not before
the next reset. `lost_nonce` remembers what such a reset lost.

### SocketLink

`bring_up` walks through `bring_up_network()` and `associate()`: the flag goes up
(`Arm`), the request goes out (`Request`), the wait ends with an answer or with
the timeout. `HandleEvent` and `TellAttempt` are the two halves of
`on_wifi_event()`. The wired backend begins at its address. `connect()` and
`send()` follow, with partial writes in bytes.

### Link

`built` is the transport whose source was compiled. Only it takes steps (`OnLora`,
`OnSocket`); the state of the other one is that of code that is not there.

## 3. What TLC checks

| Run | Question | Result |
| --- | --- | --- |
| `table` | Does the table's bookkeeping survive every interleaving, and implement `Mailbox`? | holds |
| `table_aba` | Is "delivered" race-free without exception? | **violated** |
| `wakeup` | Can a report be stranded, miscounted, or the scan come back? | holds |
| `parser` | Is every advertisement walked inside its bytes, to the right verdict? | holds |
| `control` | Commands, backoff, halting, retrying, with and without open events; does it implement `Lifecycle`? | holds |
| `control_rejoin` | Is a connection that broke rebuilt? | **violated** |
| `health` | One join attempt, silence in HARD_ERROR, LEDs that are true, in step, and show every fault | holds |
| `health_silent` | Does HARD_ERROR show, as the firmware reaches it? | **violated** |
| `boot` | Who constructs what, and whom does the watchdog reset? | holds |
| `link` | Each transport: rate, channels and nonce of a join; association hand-shake, socket and stream | holds |
| `uplink` | Dispatch cycles under rate changes, squeezes and refusals | holds |
| `uplink_live` | Recovery of the rate, silence, fairness with room for all | holds |

Bounds, and why they are enough:

* `table`: three devices for two slots, so a device can be evicted, come back and
  evict another; five advertisements, enough for a device to be sent, overtaken
  while in flight, evicted and re-inserted; clock 0..2 with `StaleAfter` 1, so
  that ages are fresh, at the limit and stale; `SeqMod` 4 wraps within the bound.
  `MaxLag` = `SeqMod` - 1: a device that advertises a full round of the sequence
  between two reports looks reported although it is pending. With 16 bits that
  takes 65536 advertisements; device_table.md:54-55 calls wrapping harmless
  without that bound. Addresses are a symmetry set: the code only compares them.
* `wakeup`: pool of 2, event queue of 3 (the shortest that `START_SCAN`,
  `STOP_SCAN` and one wake-up fit into), 6 reports, counter saturating at 2.
  `CHECK_DEADLOCK` is off because the radio may fall silent.
* `parser`: every payload of up to seven bytes out of a zero, the lengths and
  company bytes 1 to 4, and 255, which is the manufacturer type and a
  length beyond any payload. A frame of two bytes, which is the company alone,
  behind elements of up to three: first, second, cut off, too short, too long,
  behind a terminator. `CHECK_DEADLOCK` is off because the call returns.
* `control`: queues of 20 as in the code. The delays 1..30 keep the ratio of 30 s
  to 900 s, whose cap is no power of two; the history counter stops at 6 setbacks,
  where the delay has reached the cap. An open event is posted when the last one
  has been dealt with. `CHECK_DEADLOCK` is off because the device stops for good
  in HARD_ERROR.
* `health`: queues of three, so that they overflow, and all open events; one beat
  waiting at a time. The backoff is `control`'s question, so the delays are 1.
  `CHECK_DEADLOCK` is off because a device whose services failed has no heartbeat.
* `boot`: three ticks of watchdog (two at least, `BootConstants`: with one, a tick
  resets whoever waits for it), eight stacks as configured, both builds. An event
  arrives when the last one of that thread has been handled. `CHECK_DEADLOCK` is
  off because without a watchdog a device that spins stays where it is.
* `link`: over LoRaWAN all eight sub-bands, three rates, four join requests with
  resets, lost answers and the stack's saves anywhere: two consecutive losses and a
  recovery fit. Over a socket frames of up to four bytes, cut anywhere; the driver
  raises at most two events for the one attempt a boot makes, which is no bound of the model.
* `uplink`: three devices, a link that carries none, one or two records, two
  fragments per cycle: cycles with one and with two fragments, with a partly
  filled last one, and with records left over. `MaxSilence` 1: due or not due.
* `uplink_live`: two devices, a link that carries nothing or two records, so that
  one cycle has room for all.

Fairness, and what justifies it: the threads run when they can (every service
thread blocks only on its queue, a bounded wait or the transport's timeout), an
armed timer expires, the heartbeat is periodic, the clock ticks, and bring-up calls
return. `uplink_live` assumes of the network that what is sent again and
again is heard sometimes, that a squeeze passes, that a network that keeps hearing
the device raises its rate some time, and that some cycle meets the link at its
best if that keeps being possible. Nothing is assumed of the radio, of the
endpoints, of the Wi-Fi driver, of an access point or of the join server.

`KeepsTrying` names its one exception: a SOFT_ERROR posted from outside while the
device dispatches can meet a comms queue full of ticks, and then the JOIN_NETWORK
of its first retry is lost. In the firmware nobody posts it, and `NoCommandLost`
(proved) says that then nothing is lost.

### What the violations show

* `table_aba`: `mark_reported()` compares the address and `update_seq`, and
  eviction restarts `update_seq`. A device evicted and heard again while its
  uplink is in flight can reach the old value, and the late acknowledgement marks
  a reading that was never sent. `NoFalseAcknowledgement` exempts exactly these.
* `control_rejoin`: a failed send closes the socket; LISTENING has no event that
  leads to a new `JOIN_NETWORK`, and `dispatch()` returns at its first test from
  then on.
* `health_silent`: the firmware reaches HARD_ERROR only when acquisition or comms
  did not come up, and `App::initialize()` then skips the diagnostics service,
  which alone blinks the LEDs.

Stated in the modules but not given a run; naming the property in a copy of the
configuration shows the violation:

* `EveryFreshEntryCopied` (`DeviceTable`, table.cfg): a device heard between
  `snapshot()`'s clock read and its lock, in a later second, has a negative age,
  which is stale in `uint32_t`. It waits for the next cycle.
* `LostLinkIsRebuilt` (`SocketLink`, link.cfg): only `initialize()` associates.
  `connect()`, which comments and `link.md` name as the place where the link is
  rebuilt, does not.
* `EveryDeviceReported` (`Uplink`, uplink_live.cfg with `Payloads = {11, 38}`, room
  for one of two devices): a snapshot is in slot order and only its head is sent.
  If the early slots advertise at least once per period, the later ones never go
  out.

Seen while modelling: nobody posts `DISPATCH_STARTED` or `DISPATCH_FINISHED`, so
DISPATCHING is never entered although app.md:21 describes it; app.md:22,
README.md:33 and COMMANDS.md:201-204 say SOFT_ERROR retries up to a limit, and it
retries for ever; two comments (active_object.cpp:61-62, port.cpp:114-115) say that
dropped events are counted in the uplink header, and nothing reads that counter;
comms.md:98 says a LoRa cycle sends one fragment where the configuration says
three; an access point that is down during boot leads to HARD_ERROR for good,
although link_wifi.cpp:354-356 leaves retrying to SOFT_ERROR; a debug build whose
acquisition fails never reaches HARD_ERROR but spins in STARTUP's entry action and
is reset, again and again.

## 4. What is proved

All theorems hold for every value of the constants that the named assumptions
allow; TLC evaluates those assumptions in the runs. Every safety invariant, every
action property and both refinements that a passing run checks are proved. The type
invariant of each module is proved for every value of the constants, so no run
repeats it (`TypeOK`, `ParserTypeOK`, `HealthTypeOK`, `LoraTypeOK`).

`DeviceTableProofs` (any number of addresses and slots):

* `TypeCorrect` — `TypeOK`.
* `UniqueEntries` — `OneEntryPerDevice`. `upsert()` claims a slot only when no slot
  in use holds the address; eviction and reuse are one step.
* `SentAtMostOnce` — `NoReadingSentTwice`. The strengthening: readings are numbered,
  a reading in the table is at most `heard`, belongs to one slot, and one that was
  delivered and is still in the table is either marked or among the records being
  marked; so a snapshot cannot pick it up again.
* `AcknowledgedWasSent` — `NoFalseAcknowledgement`, assuming `MaxLag < SeqMod`. The
  strengthening relates the sequence difference of an entry to its `lag`: modulo
  `SeqMod` they agree, so equality means that nothing was heard since the report,
  unless the device is in `recycled`.
* `TableIsMailbox` — `ImplementsMailbox`, under the same assumption, which is about
  all advertisements of a device between two of its reports, failed cycles and idle
  time included: initial states map to initial states and every step to a step of
  `Mailbox` or a stutter, action by action, from the invariants above.
* `EvictsOnlyAsLastResort` — `EvictionIsLastResort`.

`AcquisitionProofs` (any pool, queue length at least three, any counter width):

* `TypeCorrect` — `TypeOK`.
* `WakeupNeverLost` — `NoLostWakeup`. A post fails only when the queue is full; it
  holds `START_SCAN` and `STOP_SCAN` at most once each (`CommandsOnce`), so a queue
  of three or more that is full holds a wake-up already.
* `ScanStaysStopped` — `StopIsFinal`, from the order in which the two commands
  enter the queue (`CommandsInOrder`).
* `DropsCounted` — `DropsAccountedFor`.

and for the parser (any payload, any frame size from two bytes, any company):

* `ParserTypes`, `ReadsStayInside`, `AcceptsOurs` — `ParserTypeOK`,
  `ReadsWhatWasReceived`, `VerdictIsRight`. The strengthening `WalkInv`: what the
  walk has passed is a layout of elements that are not ours (so an accepted frame is
  on one), and the walk stands on every layout that ends in a frame of ours (so it
  misses none). No induction over the payload is needed: each step extends the one
  layout and follows all the others.
* `EveryRoundAdvances` — a round that does not return goes on behind where it began,
  and since the walk stays in the data it ends.

`ControlProofs` (queues of any length from three, any delays, any open events):

* `ControlTypes` — `TypeOK`.
* `OneJoinAtATime` — `OneJoinOutstanding`. The strengthening `OneJoin` sees the
  attempt as a token that the retry timer, the application's queue, comms' queue
  and `connect()` hand on: each holds it at most once, no two hold it together, and
  only the states that are joining have it. It also holds every other event at
  most once, so the application's queue always has room, and neither an outcome
  nor a RETRY_TIMEOUT, which an interrupt would drop silently, can be lost.
* `HardErrorMutes` — `MutedInHardError`. HARD_ERROR is terminal, so every
  START_DISPATCH in comms' queue stands before the STOP_DISPATCH (`LastWord`).
* `CommandsArrive` — `NoCommandLost`. Until a device has joined its comms queue
  holds at most one JOIN_NETWORK, and after that only ticks are sent (`Quiet`).
* `BackoffDoubles` — `BackoffMatchesSetbacks`, for every base, cap and counter. The
  code compares the wait with half of the cap, rounded down (`DoublingIsCapped`: that
  is the same as doubling and capping). That a recursive
  function meets its own equation is proved from its finite tables and a least
  counterexample, in place of an induction the provers cannot instantiate.
* `ControlIsLifecycle` — `ImplementsLifecycle`: initial states map to initial
  states, and each action of each thread, timer and bring-up step to a step of
  `Lifecycle` or a stutter. It rests on `OneJoin` (an outcome meets the state it was
  meant for, and no timer runs beside an attempt), on `LastWord` and on `Licensed`:
  a device that operates has been sent its START_DISPATCH, and the one STOP_DISPATCH
  that HARD_ERROR sends is the one that comms takes. It holds for short queues and
  open events too, where commands are lost.

`HealthProofs` (any queue from three, any number of waiting beats, any open events):

* `HealthIsControl` — the composition takes only `Control`'s steps and its own, so
  everything above holds beside the diagnostics service; `HealthKeepsOneJoin` and
  `HealthMutes` restate the two the run checks.
* `HealthTypes` — `HealthTypeOK`.
* `HealthyLedsAreTrue` — `LedsTellTheTruth`, from `Reason`: a beat that shows a fault
  has one to show, and HARD_ERROR has one from the step that enters it.
* `StepIsKept` — `BlinkStaysInStep`, from `Blinking`, which says what is true in the
  middle of a blink: what has been written agrees with what the beat will write.

`BootProofs` (any timeout from two ticks, any pool of four stacks or more):

* `BootTypes` — `TypeOK`.
* `NoConstructorRaces` — `NoRacingConstruction`. Before the first thread exists all
  listed singletons are constructed, so no thread finds one missing.
* `OnlySpinnersAreReset` — `FedUnlessSpinning`. While nobody spins, `left` is at
  least one after every feeding and a tick needs one in between; the idle thread
  exists before the watchdog is armed.

`LoraLinkProofs` (any set of rates, any configured rate, any number of requests):

* `LoraTypes` — `LoraTypeOK`.
* `RateIsNotLostToAdr` — `OnlyTheStackRefusesTheRate`. A stack that refuses the rate
  with ADR off makes the device join at another one; ADR alone never does.
* `JoinsStayOnTheirSubband` — `JoinsOnItsSubband`, for each of the eight sub-bands.
* `ReplaysNeedALoss` — `RefusedOnlyAfterLoss`. The strengthening: whatever the
  server has seen is a DevNonce the device has used in this life, the request on
  the air apart, or at most `lost_nonce`. Nothing is assumed about when the stack
  saves. How many requests are refused in a row is not bounded: a stack that is
  reset before each save presents the same DevNonce every time.

`SocketLinkProofs` (frames of any length, any number of driver events):

* `SocketTypes` — `TypeOK`.
* `AnswersAreHeard`, `LastEventDecides` — `AnswerEndsTheWait`,
  `ConcludesTheLastEvent`, from `Attempt`: nothing is heard before the request, the
  flag is up until the attempt concludes, and `associated` is what the last event
  said.
* `StreamsStayAligned`, `NoSocketLeaks` — `StreamStaysAligned`,
  `SocketMatchesFlag`, from `Connection`, which adds what is true inside a call.
* `TransportsApart` — every behaviour of `Link` is one of `LoraLink` and one of
  `SocketLink`, so what is proved of each of them holds in every build.

`UplinkProofs` (any number of devices, any sizes, allowance and modulus):

* `UplinkTypes` — `TypeOK`.
* `NothingIsForgotten` — `PendingUntilThrough`.
* `FragmentsAlwaysFit` — `FragmentsFit`. A fragment carries at most `room` devices
  (`LeadingFits`: numbering the devices before one another is an injection), and
  `room` is a floor.
* `FramesNeverCollide` — `FramesAreNumbered`, from `Numbered`: the number is `gap`
  cycles ahead of the last frame's, modulo `SeqMod`.
* `BootOnFirstCycleOnly` — `BootIsFirstUplink`, from `Booted`.

Only model-checked: the liveness properties (`EveryReportLeavesThePool`,
`FailedServicesHalt`, `KeepsTrying`, `JoinedStartsDispatching`, `FaultIsShown`,
`HardErrorBlinks`, `BringUpReturns`, `RateRecovers`, `NeverSilentForGood`,
`EveryDeviceReported` with room for all, `SpinIsReset`). They rest on fairness, whose
`ENABLED` is out of the prover's reach. So is induction over data; no theorem above
needs it, and no module declares a recursive operator.

## 5. What is not modelled

* `to_record()` and the health summary: byte layouts and text, reduced to the fact
  that a record carries the entry's address and sequence.
* `utils/queue`: a ring buffer that nothing instantiates.
* `hal/gpio`, `hal/system` apart from its clock, `utils/log`: pure I/O.
* `eda::StateMachine::return_to_last_state()`, `change_to_next_state()`, the port,
  idle-hook and downlink callbacks: no caller.
* `fault::report()` from two threads at once. It takes two lost events, or one
  beside HARD_ERROR; `NoCommandLost` leaves the application thread as the only
  reporter once the services are up.
* `s_dropped_event_count`, incremented without a lock: nothing reads it.
* The result of `stop_scan()` and of a failed `start_scan()`: the code has no
  recovery that could be checked.
* Weak memory: flags shared between threads are read and written in the order of
  the source.

## 6. Plan

Done: the table and its abstract promise, the hand-over and the parser, the control
plane and its abstract promise, diagnostics and LEDs, bring-up and the watchdog, the
dispatch, all three transports, and the proofs above. What would add most, in this
order:

1. **Concentrator**: `Control` and `SocketLink` composed, with the transport's real
   outcomes in place of `Control`'s free ones.
2. One abstract contract of the transports (what `connect()` and `send()` promise
   their caller), implemented by `Link` for either of them.

## 7. Running the checks

    tlc -workers 2 -config table.cfg MCDeviceTable.tla
    tlapm DeviceTableProofs.tla

Each run of the table in section 3 is the configuration of the same name with the
`MC` module of its component.
