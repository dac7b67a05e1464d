# squaregolf-connector: TLA+ models

squaregolf-connector joins a SquareGolf launch monitor (Bluetooth LE) to golf
simulators (TCP) and cameras (HTTP), on desktops and, through a Go library inside
a Kotlin app, on Android. This directory models its concurrent core in TLA+,
checks the models with TLC on small instances, and proves the main safety results
with TLAPS for every value of the constants. `PROJECT.json` holds the same
information in a form for tools: for every definition the source lines it models,
for every property a mutation of the code that breaks it, and the hazards that the
properties are for.

Paths below are relative to the repository (`internal/...`, `app/...`).

    tlc -config simbase_link.cfg MCSimBase      # model-check a run
    tlapm SimBaseProofs.tla                     # check the proofs of a module

## 1. Inventory

How the parts meet: an entry point (`main.go`, the Android `engine.go` behind
`mobile/`, `cmd/browser-harness`) builds a `StateManager`, a `BluetoothManager`, a
`LaunchMonitor` and the plugins.

    engine/main --> BluetoothManager --> notifyOwner --> android.Client --> BleBridge.kt --> radio
                         |                    ^                ^               |  binder thread
                    StateManager <---- LaunchMonitor <-- lanes (lifecycle, notifications)
                         | callbacks         | SendCommand --> queue --> WriteCharacteristic
                         v
      connectapi.Integration --> simulator.Base --> TCP        camera plugin --> HTTP
      web hub --> WebSockets                                   engine dispatch --> app UI

| Component | State | Operations | What makes it correct |
|---|---|---|---|
| `simulator.Base` (`core/simulator/connection.go`) | `Socket`, `Connected`, `Running`, `AutoReconnect`, attempts, two mutexes, one reconnect goroutine, one reader per connection | Connect, Disconnect, Start, Stop, the auto-reconnect switches, SendMessage | one socket at most and none leaked; a live connection has a reader; writes are paced; Stop parks the leg; lost links come back or are given up |
| connectapi (`plugins/connectapi`) | shot number and last shot number | BeginConnect, EndConnect, Stop, the ball and club listeners, OnConnected | each shot is forwarded once, under a number of its own, before its club data |
| Bluetooth manager (`core/bluetooth_manager.go`) | client, cancel function of the current attempt, `ConnectionStatus` | start, cancel, disconnect, the phase and loss callbacks | the status follows the link; a cancelled attempt does not come back |
| notification owner (`transport/android/notifyowner.go`) | permanent handler table, `seeded`, `armed` | StartNotifications, dispatch, Disconnect | every notification reaches the handlers installed now, on every connection |
| Android client (`transport/android/client.go`) | cached link state, generation, handlers, `gattMu`, lifecycle and notification lanes | Connect, Disconnect, StartNotifications, Read/Write, bridge callbacks | one GATT operation at a time; events in order; Disconnect never waits |
| Kotlin bridge (`BleBridge.kt`) | the `BluetoothGatt` handle, pending futures | connect, disconnect, GATT callbacks | each handle is closed; each wait ends |
| command queue (`core/launch_monitor.go` 591-670) | the current channel, its drain goroutine | SendCommand, drain, stop | at most one write per command; no success without one; no lost queue |
| club-metrics retry (`core/launch_monitor.go` 191-260, 386-436) | generation, `omniClubRetried`, timers | shot, club metrics, timeout, disconnect | one retry per shot; no request is pending for ever |
| detection and alignment modes (`core/launch_monitor.go`) | `detectModeActive`, `omniIdleCount`, IsAligning | Activate/DeactivateBallDetection, Start/Stop/CancelAlignment, status recovery | the flag agrees with what the device was told |
| session tasks (`core/launch_monitor.go`) | heartbeat and charge-polling stop channels, capacitor flag | start, stop, tick | at most one task of a kind; none outlives its session |
| state store (`core/state_manager.go`) | one value per field, callbacks | Set, Get, Register | a change is seen by every callback; the last one seen is the last one made |
| parsers and encoders (`core/protocol`) | none | ParseX, XCommand | field layout, sign and validity |
| Android engine (`transport/android/engine.go`) | the engine, its listener, dispatch queue | Start, Stop, Arm, Disarm, dispatch | one engine; the listener installed now comes to the newest status; Stop leaves no disconnect under way |
| desktop client (`core/tinygo_bluetooth_client.go`) | adapter, device, handlers | Connect, Disconnect, notifications | teardown ends |
| simulated launch monitor (`core/simulator_mock.go`) | handler table, goroutines | as a client | no call into a torn-down handler |
| camera (`plugins/camera`) | enabled flag, the pending clip, buffered club metrics, a goroutine per request | Arm, ShotDetected, UpdateMetadata, Cancel, SetEnabled | club metrics are attached once, and to the clip of their shot |
| web server and hub (`web/server.go`) | client set, broadcast channel, a buffer and two goroutines per client | register, broadcast, close | a slow client stalls nobody, and each comes to the newest values |
| registry, configuration, logging, entry points, user interfaces | | | sequential or wiring |

The behaviours that are hard here: almost every field is read outside the lock that
protects its writes; locks are held across network calls, and dropped between a test
and the act it allows; Bluetooth callbacks arrive on threads of the operating system;
events pass through bounded lanes that drop when they are full; every wait has a
timeout that may fire just as the answer arrives; and nothing but a cancel flag keeps
two attempts apart. `PROJECT.json` lists each hazard at its line, with the property
that covers it or the reason that none does.

## 2. The modules

| Module | Models | Extends |
|---|---|---|
| `SimLink` | what simulator.Base promises those who send over it (abstract) | |
| `SimBase` | simulator.Base and the calls connectapi makes on it; implements SimLink | |
| `AndroidClient` | android.Client, with BleBridge.kt and the GATT callbacks behind it | |
| `BluetoothLink` | BluetoothManager and notifyOwner driving the client: the whole Bluetooth leg | AndroidClient |
| `BluetoothLinkClaims` | a statement of a comment that the code does not keep | BluetoothLink |
| `SendContract` | what SendCommand promises (abstract) | |
| `CommandQueue` | the command queue; implements SendContract | |
| `ClubRetry` | the Omni's retry of club metrics | |
| `SimulatorDevice` | the simulated launch monitor behind notifyOwner's table and write gate | |
| `LaunchModes` | detection, the Omni's status recovery and the charge poll, across sessions | |
| `Notifications` | what is read out of a shot notification, and what the plugins pass on | |
| `ShotForwarding` | a shot's way through connectapi and the camera plugin | Notifications |
| `StateStore` | StateManager: setters, getters, callbacks | |
| `WebHub` | the web server's hub and WebSocket clients, as observers of the store | StateStore |
| `EngineDispatch` | the Android engine's Start and event queue, as an observer of the store | StateStore |
| `Observers` | the store with either observer | WebHub, EngineDispatch |
| `MC*` | symmetry sets and inputs for the runs | |
| `*Proofs` | the theorems | |

Every mutated definition (`Mutant:` or `As if` in its comment) stands before the one it mutates.
It is in no next-state relation: it documents, and lets a tool confirm, that the
property named for it notices the bug.

### SimBase

A process is a goroutine: `Callers` run BeginConnect, EndConnect and Stop; `Loops` are
the slots for `connectionThread` goroutines; each member of `Conns` is a TCP connection
together with its `receiveMessages` goroutine; `Senders` are inside `SendMessage`. `pc`
says where each one is. A step is what a goroutine does between two points where
another can be observed: a lock operation, an unlocked read of a shared field, a
blocking call. So `connectionThread` is LoopTop (Running), LoopSnapshot (the copies
under the lock), LoopDecide (what it does with the copies), LoopRefresh, LoopGivesUp and
LoopReports; Connect is ConnectEnter, DialSucceeds or DialFails, ConnectSettles; and
Disconnect, which stores Connected, closes the socket, sleeps, and clears Socket, is
DisconnectEnter, DisconnectClear, DisconnectFinish.

`tcp` is what the kernel knows (`reset`: the peer has closed). Time is three
facts: `due`, `gap` and `expired`, set false by the code and true by the clock
(BackoffElapses, GapElapses, LongWait). A nil dereference of a stale `Socket` in a reader is
`panicked`; it ends the program (`Alive`), because nothing recovers it. In a sender it
loses the message.

`SimLink` is the connection as a sender sees it, and as `ShotForwarding` has it: `line` is Socket, `opening`
says that OnConnected has still to be called, and `call` and `on` say how far a SendMessage is and on which
connection it writes. A SendMessage whose write fails goes through Disconnect; its outcome is settled when
that clears Socket (or finds it cleared), which is FailureEnds. ShotForwarding's Connected is Connect there,
its OnConnectedResetsLast is Opens, Disconnected is Drops, and its Write, one step of the goroutine that sends, is
Delivers, or else FailureEnds or Refuses. Each of them is allowed in ShotForwarding whenever SimLink allows it (but for the
bound `Both`), so what holds there holds over the connection that SimBase gives. That reading is by comparison of
the guards; that SimBase implements SimLink is checked and proved.

### AndroidClient and BluetoothLink

`Attempts` are goroutines of `StartBluetoothConnection`, inside
connectDevice / Client.Connect / EnableNotifications; `Closers` are those of
`DisconnectBluetooth`; `Binder` is the thread of the GATT callbacks. `link` is each GATT
handle's state, from opening to closed; `future` is the pendingMtu future that Kotlin's
`connect()` awaits. `lane` is lifecycleCh, with phase changes, losses and the flush markers
of Connect; `LaneDelivers` is the lane's goroutine together with the callback it runs in
the manager. `moved` is the generation counter reduced to its use: the attempts for
which it differs from their snapshot.

A slot in `Gatts` is used again after its handle is closed, so one slot stands for any
number of successive handles, and an attempt's slot is free again when its goroutine has
returned and its flush marker has left the lane. `LaneMayStall` opens the branches that
only a lane slower than its grace period takes.

### CommandQueue and SendContract

Each member of `Commands` is one call of SendCommand, `Queues` are the successive
channels of getCommandQueue, each with its drain goroutine. The goroutine may choose
either branch of its select when both are ready. `SendContract` is the promise to the
caller: at most one write, never before the call, and `nil` only after the write. The
refinement mapping shows the phase of a call as open, ok or error; a write after the caller
gave up is allowed.

### ClubRetry

One action per step of HandleShotBallMetrics, HandleShotClubMetrics (both on the
notification goroutine) and handleOmniClubMetricsTimeout (a goroutine per timer),
divided at omniClubRetryMu and at the unlocked reads. `pending` is the shot whose
generation is current. `retries` and `skipped` are history: how often a shot's metrics were asked for
again, and the shots whose timeout handler found no link when it was to ask (416). The device answers
a request with its latest shot; requests and answers can be lost.

### SimulatorDevice

`Managers` are goroutines that connect and register their two handlers with
notifyOwner, `Writers` are inside WriteCharacteristic, `ppc` is the processCommands
goroutine, and each member of `Cycles` is a slot for a simulateBallDetection goroutine.
`table` is the simulator's handler map, where only the owner's fan-out is ever
put; `seeded` and `armed` are the owner's. A cycle reads deviceState, ballState and
the table without the lock, so each of its tests is a step apart from the act it
allows. `cancel` is the one cancel function that is kept, `done` the contexts that have
been cancelled; an exit of a select on ctx.Done and a timer is free when both are ready.
Left out: payloads, the battery level, the error rate (0 in the engine), requests for
club metrics, and what the owner's own handlers decide.

### LaunchModes

One variable for each goroutine says where it is: the caller (`user`), the notification
handler (`handler`), the callbacks of a connection (`opener`) and of a disconnect
(`closer`), and a name in `Pollers` for each charge-poll goroutine. A step is one section of
`detectStateMu` or `chargeCancelMu`, or one store. `handler = "rearm"` is the recovery between its decision
and the return of SendCommand, during which it keeps detectStateMu (338-375); so the
disconnect handler can wait for it. `cancelled` are the contexts that are done;
a poller that hangs in SendCommand sees its own only afterwards. `idles`, `charged`, `old` and `stopped`
are history: idle reports since the detection was last armed; that a ready answer came in this session; that
the answer being handled came before Connected's reset; and that a closer or such an answer, left over
from the last session, has stopped this session's poll. SendCommand is a step that succeeds, or fails at any time (CommandQueue says when).

### Notifications and ShotForwarding

`Notifications` has functions only: the bytes of a notification to metrics with validity
flags, through the Omni's validity masks and the putter filters, to the numbers that
GSPro and the camera are given. The frames are 17 bytes with the spins absent, negative and positive.

In `ShotForwarding` a callback runs on the goroutine that stores: the notification goroutine
or the timer of the Omni's fallback (`Storers`). `pc` is where it is inside
SetLastBallMetrics or SetLastClubMetrics: connectapi's listener first, then the camera's, the order in which
pluginHost registers them. convertToShotFormat is divided at each access to shotNumber and
lastShotNumber, because OnConnected, on another goroutine, resets both without a lock:
`link` is "fresh" after Connect, "half" after the first reset, "open" after the second.
The camera's requests are detached goroutines: `arms`, `snap` (one ShotDetected a shot) and `updates`.
The device repeats frames: HandleShotBallMetrics compares a frame with the last one (217-222), so BallArrives
takes the latest shot again and drops it. `last` in a message (the latest shot when it was sent), `early`, `cycle`
and `apart` are history, by which two properties name what they do not claim. NumbersNameShots excepts club
metrics sent when a newer shot had come (`last`) and the messages of shots under way before OnConnected was over
(`early`); RightClip speaks of the club metrics that went to a clip while their shot was kept apart from the
others (`apart`, decided by `cycle`: no answer about a clip, Arm or fallback was outstanding from the last one).

### StateStore, WebHub, EngineDispatch, Observers

The setters of StateManager differ in the field alone, so one `Set(s, f)` stands for all: it stores a
new value and puts the setter in its callbacks, outside the lock. A value is the number of its store,
so "newer" has a meaning. The observer's callback ends the setter. In `WebHub` the callback reads every
field, getter by getter (getDeviceStatus), and offers the snapshot to the queue; the hub lists the clients
and offers to each; each client has its handler goroutine (initial status, then reading) and
its writer. In `EngineDispatch` the callback offers the value it was given. `told` and `heard` are
the newest value of each field that a client's buffer, or the installed listener, was given;
`missed` and `lost` say that a full queue dropped something. No program has both observers: `platform`
is chosen at the start.

## 3. What the runs show

Passing runs (type correctness is a theorem of every module, so most runs leave it out):

| Run | Instance | Shows |
|---|---|---|
| `simbase_link` | 1 caller, 1 loop, 2 connections, 2 senders, give-up after 1 failure | `NoSocketLeak`: with no Connect or Disconnect under way, Connected, Socket and the kernel agree; `LinkIsWatched`: a standing connection has its reader; `NoFalseConnected`; `StopParks`: after Stop nothing is open and no loop runs; `PacedWrites`: writes of any senders are serialised and minSendGap apart; `LinkSpec` (refinement): the client keeps SimLink |
| `simbase_live` | 1 caller, 1 loop, 1 connection, give-up after 2; fairness | `DeadLinkNoticed`, `StopTerminates`, `ReconnectsOrGivesUp` |
| `bluetooth_overlap` | 2 attempts, 2 handles, lane of 2 | `OneGattOperation`: the bridge never has two operations at a time; `ConnectedNotUndone`: a delayed phase event of an attempt never undoes its connected, unless attempts overlap, a handle has leaked or the lane stalls |
| `bluetooth_live` | 1 attempt slot, 1 closer, lane of 2; fairness | `DisconnectNeverWaits`, with Kotlin's await allowed to hang; `DropIsShown` |
| `bluetooth_stall` | the same, lane of 1 that may be stuck for good | `AttemptEnds` |
| `commands` | 3 calls, 2 channels of capacity 2; fairness | `QueueIsServed`: the channel that getCommandQueue would give now has a drain goroutine that runs; `ContractSpec` (refinement); `EntryIsAnswered` |
| `club_retry` | 2 shots; fairness | `TypeOK` (with the bound on retries), `PendingIsTimed`; `FallbackAfterRetry`: metrics are written off after they were asked for again, or the link was down when that was due; `PendingIsSettled` |
| `simulator_device` | 1 connecting goroutine, 1 writer, 2 cycles, channel of 1; fairness | `HandlerIsThere`: a cycle that calls a handler without testing it finds one, whatever sessions come and go under it; `DetectionStops`: once detection is off every cycle ends, also one whose cancel function is lost |
| `modes` | 2 pollers, 1 caller; fairness | `OnePoller`: the poller that is not cancelled is the one stopChargePolling reaches; `PolledUntilCharged`: a session is polled until its ready answer, unless a closer or a ready answer of the last session stops the poll; `RearmsActiveOnly` and `RearmIsDue`: the recovery re-arms only a detection that is active, after two idle reports of it; `DisconnectCompletes`, past the lock that the recovery keeps |
| `shots` | 2 shots, 2 club metrics, 1 Arm under way, simulator or camera | `ShotOnce`: once, although the device repeats the frame of its latest shot; `ClubAfterBall`; `NumbersNameShots`: one number for the ball and club messages of a shot, and for no other, but for the late and early messages named above; `AttachedOnce`: club metrics go to one clip at most; `RightClip`: to that of their shot, if it was kept apart; `LegsTellOneShot`: GSPro and the clip are told the same numbers, but for the two signs GSPro has the other way round |
| `observers` | 2 setters, 2 fields, 2 stores, queues of 2, and 1 client with a buffer of 1 or 2 Starts; fairness | `FinalValueReachesClients`, `FinalValueReachesListener`: whatever order callbacks run in, the newest value gets there unless a full queue dropped a message; `BuiltOnce`; `BroadcastDrains`, `DeadClientsLeave` |

A run that is expected to be violated:

| Run | The comment | What the code does |
|---|---|---|
| `bluetooth_ListensAfterReconnect` | notifyowner.go:15, "correct in front of any BluetoothClient" | `seeded` stays true across a disconnect, so the second connection writes no CCCD and the client's own handler table stays empty: shown as connected, and silent |

### Bounds, and why they are enough

- SimBase: two connection slots are the fewest that let a stale reader outlive its
  connection; slots are reused, so the number of successive connections is not bounded. A caller and the
  reconnect goroutine already overlap in Connect and Disconnect; for more callers and loops, with Starts that fall
  into another caller's Stop, the invariants are proved (section 4).
- MaxFailedAttempts is 20 in the code; 1 and 2 reach the give-up branch and, with 2,
  the branch that tries again. The counter needs no bound of its own: every BeginConnect
  resets it, and the loop stops dialling at the limit.
- One endpoint: none of the properties checked tells endpoints apart.
- Lane depth 32 becomes 1 and 2: full, and not empty with room left.
- Commands: capacity 32 becomes 2; three calls over two channels give a full channel, a
  caller that gave up, and a teardown between them.
- ClubRetry: two shots are one generation overtaking another, with the timers of both.
- SimulatorDevice: two cycles are the fewest that overlap, which they do when a detection
  is commanded while a cycle still runs. The channel's capacity of 10 becomes 1: full,
  and dropping the next command.
- LaunchModes: two pollers are an old one that hangs and its successor; a third start while both run
  waits. One call at a time and one closer are bounds of the model: a second caller of
  ActivateBallDetection is not looked at, nor a second loss handled before the first is.
- ShotForwarding: two shots and two club metrics let the metrics of one come late into the other, or
  twice. The simulator and the camera together have more states than a run can visit and share no
  variable but the storing goroutine; `Both` lets them be combined.
- Observers: two stores are two callbacks in either order; the queue of two is not full by them, the client's
  buffer of one is, and the listener's queue is filled by the Starts' own events.
- Symmetry is used only where a run has no temporal property but action properties.

### Fairness

- SimBase: a goroutine that can run does (weak). Steps that wait for ConnectMutex are
  strongly fair: Go's sync.Mutex hands over to a waiter after 1 ms. The clocks advance. Nothing is
  assumed of callers, of the peer, or of the result of a dial; so ReconnectsOrGivesUp rests
  on the give-up rule and not on a dial that succeeds.
- BluetoothLink: `FairSpec` has the goroutines, the callbacks and the lane run, and lets
  Kotlin's await hang. `StalledSpec` lets the lane hang instead and relies on the timeouts of
  the awaits (`AwaitsEnd`), which BleBridge.kt has on every wait.
- CommandQueue: callers and drain goroutines run and a characteristic write ends, with or
  without success. Whether a caller's timer fires is left open.
- ClubRetry: the handler and the timers run, SendCommand returns (after five seconds at
  the latest).
- SimulatorDevice: the cycles run and the handlers they call return. Nothing is assumed of
  the goroutines that connect, write or disconnect, nor of processCommands.

- LaunchModes: the recovery's SendCommand returns and the disconnect callback runs; its step that waits for
  detectStateMu is strongly fair, as the recovery may take the lock again and again.
- Observers: the hub's loop and a client's reading goroutine run. Nothing is assumed of the setters, the
  browser, the writers or the listener.

The runs check for deadlock: nowhere does everything stop, as a link can always change.
Observers is the exception: its stores are bounded, and when they are used up and the
client has gone nothing remains to be done.

## 4. What is proved

All theorems are about the specifications above, for every value of the constants that
the named assumption of the module allows (the sets of goroutines are disjoint, the
bounds are natural numbers, the null values are not members).

| Theorem | Statement | Inductive invariant |
|---|---|---|
| SimBaseProofs!TypeCorrect, NoLeak, Watched, StatusIsHonest | `Spec => []TypeOK`, `[]NoSocketLeak`, `[]LinkIsWatched`, `[]NoFalseConnected` | IInv = TypeOK, MutexInv, KindInv, LinkInv, WatchInv, StatusInv |
| SimBaseProofs!Paced, StopIsFinal | `PacedWrites`, `StopParks` | IInv with DutyInv = SendersHold, LoopsReturn, LoopRuns |
| SimBaseProofs!KeepsLink | `Spec => LinkSpec` | IInv with WritesSomewhere |
| CommandQueueProofs!TypeCorrect, AlwaysServed, KeepsContract | `[]TypeOK`, `[]QueueIsServed`, and `Spec => ContractSpec` | TypeOK with Placed, Distinct, Held, Answers, Served |
| BluetoothLinkProofs!TypeCorrect, OneOperation | `[]TypeOK`, `[]OneGattOperation` | TypeOK with GattOwner |
| BluetoothLinkProofs!ConnectedStays | `ConnectedNotUndone` | the same with Alone, Markers, Barrier |
| ClubRetryProofs!TypeCorrect, AlwaysTimed, RetriedFirst | `[]TypeOK`, `[]PendingIsTimed`, `FallbackAfterRetry` | TypeOK with Unstarted, Known, PendingIsTimed, Counted |
| SimulatorDeviceProofs!TypeCorrect, NoNilHandler | `[]TypeOK`, `[]HandlerIsThere` | TypeOK with Installed |
| LaunchModesProofs!TypeCorrect, OneLivePoller, ActiveOnly, DueOnly | `[]TypeOK`, `[]OnePoller`, `[]RearmsActiveOnly`, `RearmIsDue` | TypeOK with OnePoller, RearmsActiveOnly, Counted |
| LaunchModesProofs!PolledAlways | `[]PolledUntilCharged` | TypeOK with Stoppers |
| ShotForwardingProofs!TypeCorrect, SentOnce, BallFirst, OneClip | `[]TypeOK`, `[]ShotOnce`, `[]ClubAfterBall`, `[]AttachedOnce` | TypeOK with Passing, Unsent, Asked, Counting, Placed |
| ShotForwardingProofs!ClipOfItsShot, NumberedOnce | `[]RightClip`, `[]NumbersNameShots` | the same with Kept, LatestOnly, Chosen; with Opening, Past, Numbered, Copied |
| ShotForwardingProofs!LegsTellTheSame | `[]LegsTellOneShot` | none: a fact about Notifications, for any frames of bytes |
| ObserversProofs!OneEngine, ListenerInformed, ClientsInformed | `[]BuiltOnce`, `[]FinalValueReachesListener`, `[]FinalValueReachesClients` | types with Bounded and Informed; with HubBounded and Served |
| ObserversProofs!TypesKept | `[]TypeOK`, with the capacities of the queues | TypeOK with Counted |

Why a strengthening is needed in each:

- SimBase. NoSocketLeak speaks only of moments when ConnectMutex is free, and is
  false in the middle of Connect. MutexInv says who holds the mutex at each point (the
  goroutine that is in dial, settle, clear or finish, and no other), KindInv keeps each
  kind of goroutine to its own points, LinkInv says for each point of the holder
  what Connected, Socket and the kernel may be, WatchInv ties the reader of a connection to
  the holder's point, and StatusInv says which status goes with which point. The reader
  is the delicate one: it ends when Socket is nil, when the connection has
  been closed under it or when it has disconnected, and the proof shows that in
  each of these cases Socket is no longer that connection or Connected is false. Of the action
  properties, PacedWrites needs SendersHold (a sender at work has sendMutex, and is about to
  write only when the gap has passed), and StopParks needs LoopRuns (Running is set only
  while some goroutine of the loop has not ended, for all of which Stop waits) and LoopsReturn (a loop comes back
  from Connect to its own refresh); that no socket is left then follows from WatchInv and LinkInv.
  That SimLink is kept rests on LinkInv in moments when the mutex is held by another goroutine: SendMessage tests
  Connected and Socket without it, and SocketIsConnected says that one implies the other at every such moment,
  that nobody is in Disconnect while OnConnected is due, and that a connection which is not closed is the one in
  Socket; so a write that succeeds was started on the present connection (WritesSomewhere: on some connection).
- CommandQueue. At-most-once needs to know where a command is: in at most one channel,
  once (Distinct, Placed), or in the hands of one goroutine (Held), or answered (Answers).
  Refinement is then a step-by-step mapping: DrainWrites is Write, Answered is Succeed or
  Fail, TimesOut and QueueFull are Fail, and the rest stutters. A success is
  read from errCh, where it is put only together with a write.
- BluetoothLink. OneGattOperation counts goroutines inside the bridge; GattOwner says
  that an attempt is at such a point exactly when it holds gattMu. ConnectedNotUndone compares a step with
  a barrier that was passed long before it. Barrier says, for each point of the attempt, where its phase
  events can still be: none is owed by the handle once the attempt has been answered, those in the lane are
  before its flush marker, and none is left when Flush returns. Markers is what makes the last inference: the
  marker is in the lane once, and only while its attempt waits for it, so that the marker's delivery means
  that all before it has been delivered. Alone and the absence of a leaked handle say that no other attempt
  and no other handle adds events behind the marker. Both conditions are needed: without either of them TLC
  finds a step that undoes a connected (section 5).
- ClubRetry. FallbackAfterRetry needs that `retried`, one flag for every generation,
  means the retry of the shot that is pending. Counted says so (the handler that set it is still to ask, has
  asked, or found no link; and nothing was asked again while it is clear); Unstarted says
  that a shot not yet reported has neither timer nor retry; Known that pending is a
  shot already reported.
- SimulatorDevice. A cycle is far from the registration that makes its call safe: Installed
  follows the way between them. Whatever is past the registration of the main handler (a
  goroutine about to seed, the seeded mark, the open gate, a command on its way, in the
  channel or in the hands of processCommands, a cycle) implies that the fan-out is in
  the table, and no step takes it out, because the owner keeps StopNotifications to itself.

- LaunchModes. RearmIsDue needs that the field omniIdleCount is the number of idle reports whenever
  the recovery is not out with its command, and that nobody changes it while it is: Counted, which holds because
  the recovery keeps detectStateMu. PolledUntilCharged needs Stoppers: once Connected's reset
  is over, a connected device whose capacitorReady is set has given its ready answer in this session, and a handler
  that is about to stop the poll has such an answer or one older than the reset.
- ShotForwarding. ShotOnce speaks of messages that may be sent much later: Passing says that only the latest
  shot is being passed on, by the notification goroutine alone, and Unsent that no later one
  has been sent. Club metrics are only requested after that (Asked), so they cannot come
  before the ball's. Placed says that club metrics are in one place only: with a storer, in the
  buffer, on their way to a clip, or attached; an answer of the camera moves them, and no two
  goroutines find the same. Counting bounds the two shot numbers for TypeOK. RightClip needs to know whose
  the pending clip is: while a shot is kept apart, no goroutine stores anything when its ball is
  ready and what one stores later is of this shot (Kept), and the camera plugin remembers and is asked about
  it only (LatestOnly); so club metrics go to the right clip at that moment, and nothing that happens
  before UpdateMetadata runs sends them to another (Chosen).
  NumbersNameShots compares any two messages of a connection, of those that are neither late nor early: there is
  none before OnConnected is over nor of a shot that was under way until then (Opening), they are of shots that
  have come, and of earlier ones while a shot is passed on (Past). Numbered says that those of earlier shots bear
  smaller numbers than lastShotNumber, which is the latest shot's; Copied, that what a storer is about to send of
  the latest shot bears lastShotNumber.
  LegsTellOneShot is arithmetic: a 16-bit metric of the notification is divided, masked or replaced, but
  never leaves the range in which the negation that GSPro is given wraps around.
- Observers. Both theorems follow the newest value of a field. Either it has been
  heard, or it is with a setter, in the queue or in the message in hand, or a snapshot, an initial status or a
  Start has still to read that field (Informed for the listener, Served for the clients). A
  reader that has passed the field holds an older value, and the setter that overtook it has its own
  callback to come. Bounded says no value anywhere is ahead of the store, so the newest cannot be
  hidden. Neither argument needs the bound on the stores. TypeOK does: Counted says that no field
  has a greater value than there were stores, which `stores` counts.

Only model-checked: the liveness properties (DeadLinkNoticed, StopTerminates,
ReconnectsOrGivesUp, DisconnectNeverWaits, DropIsShown, AttemptEnds, EntryIsAnswered,
PendingIsSettled, DetectionStops, DisconnectCompletes, BroadcastDrains, DeadClientsLeave),
since the prover handles neither liveness under fairness nor ENABLED; and the
violation of the run that expects one. Every invariant and every action property of a
passing run is a theorem. Induction over data is out of the prover's reach; nothing here needs it.

## 5. Further disagreements seen while modelling

Seen in a model of this development or while reading for it, and not kept as a run. The first three are
traces of SimBase and BluetoothLink.

- engine.go:507 says that DisconnectGSPro "disables auto-reconnect". connectionThread copies Connected
  and AutoReconnect at 375-381 and dials at 407; an EndConnect that runs in between is overridden, and the
  leg is connected after it has returned.
- client.go:41-46 says that the generation prevents a permanent true on a dead link. The loss can be
  handled after the bridge's await has returned and before it announces Connected; the announcement
  stores true over it, and Connect's second test passes.
- connection.go:407: the loop dials the endpoint it knows while BeginConnect for another is
  on its way; BeginConnect's Connect then finds Connected and returns (engine.go:494).
- connection.go:384: firstAttemptTime survives an EndConnect, so a later request may find
  its retry window used up. connection.go:402: the backoff is tested on a copy and
  another Connect may have failed in between (backoff.go:23).
- connection.go:258 says what was tested still holds; 265 uses Socket after the
  lock was released. In the receive goroutine (335-338) the same race is a nil dereference
  that nothing recovers.
- bluetooth_manager.go:411 stores connected after the lane may have stored the loss;
  361 never looks at the context that 171 cancels; 215 reports a second Disconnected, which
  may fall in the next session.
- notifyowner.go:126-145 tests and sets `seeded` in two critical sections; 53 says once.
- client.go:346 says that Disconnect keeps a Connect from promoting; the test at 300 passes in
  one interleaving. BleBridge.kt:287 and 282 write the handle from two threads, and one can be
  left unclosed; what that handle reports later comes behind the flush marker of the next attempt, and shows
  "connecting" over its connected (318 says that the barrier keeps the order). So may a second attempt that
  overlaps the first.
- connection.go:346: a reader whose Read has failed stores its Error without the lock. If its connection was
  replaced meanwhile, the Error lands over the Connected of the new one, which the reader's own Disconnect (368)
  then takes down as well. The give-up at 389 and 398 may store its Disconnected over a new Connected likewise.
- launch_monitor.go:609 and 637: the drain goroutine of a stopped queue may take one more
  command, and write it next to the goroutine of the new queue.
- launch_monitor.go:430-435: the fallback is decided under the lock and stored
  outside it, so it may replace metrics that came in between, or fall in the next
  session, although 1104-1105 says that no timer fires against it; the ball handler
  may also start a request after the disconnect was handled; and a late answer for
  one shot completes the pending request of the next.
- launch_monitor.go:1114 stops the heartbeat and only SetupNotifications (951) starts it.
- simulator_mock.go:512: the deferred function of a cycle clears whatever cancel function
  is kept, also its successor's; the activation after that cancels nothing and two cycles
  run, although 483 says that any existing one is cancelled and engine.go:536 that one Arm
  is one shot cycle. A cancelled cycle that sets ballState after the new activation has
  reset it leaves the new cycle in its half-second wait for as long as detection is on.
- notifyowner.go:49-58 excludes both a nil call and a concurrent map access. The
  first is proved; the second is not excluded: the first registration of the battery may
  write the map (the gate is open once main is registered) while a cycle reads it unlocked.

Detection, charge and alignment (LaunchModes):

- launch_monitor.go:733: an ActivateBallDetection that overlaps the disconnect sets detectModeActive after
  the handler has reset it, so the next session begins with it TRUE and the recovery may arm a device
  nobody armed. A DeactivateBallDetection has sent its command before it clears the field, so a recovery in between arms
  the device again.
- launch_monitor.go:1086-1118: the disconnect handler may wait ten seconds for detectStateMu, and then
  clears the device type and stops the poller and the command queue of the next session. A
  charge-ready notification that overlaps Connected's reset (887-893) stops the new poller.
- StartAlignment tests IsAligning and sets it 1.1 s later: a cancel in that time is undone, and two
  calls both pass. IsAligning survives a disconnect. A handedness in a status notification goes through
  SetHandedness to the callback that sends the same handedness back to the device.

Shots (ShotForwarding):

- connection.go:116-131: Connected is TRUE half a second before OnConnected resets the shot numbers
  (integration.go:179-181): a ball in between keeps the old count, and its club data get number 0. A message built
  in one session may be sent in the next. Club metrics that come after
  the next ball bear its number (connectapi/listeners.go:88).
- camera/listeners.go:92-109: when the camera answers between the two critical sections, the buffered club
  metrics stay where the next Arm clears them, and no clip gets them. A late answer becomes the
  pending clip of the next shot; a late Arm clears what the next shot has stored. Cancel and
  ShotDetected are posted by goroutines in either order.
- launch_monitor.go:217-222: only the last frame is compared. A shot whose frame is identical to it is taken for a
  repeat, and a repeat of an earlier frame (A, B, A) for a new shot.

Observers:

- server.go:282-327: a snapshot is taken and queued in two steps, so an older one may be queued last, and
  the client shows it until the next change; when the queue is full it is the newest that is dropped.
- server.go:463: sendInitialStatus waits for room in the client's buffer. If the writer has died and the
  buffer is full it waits for ever: only this goroutine closes done.
- bluetooth_manager.go:215: engine.Stop may return at the first of two Disconnected signals. A failed Arm clears `armed` while
  another has succeeded. A settings POST applies its first fields before it rejects a later one.

The desktop client, read only:

- tinygo_bluetooth_client.go:382-393: Disconnect holds the lock and calls StopNotifications (513),
  which takes it, whenever a handler is registered. disconnectDevice stops both first, so it takes an
  EnableNotifications that lands between; every later call then hangs.
- tinygo_bluetooth_client.go:196-214: a StartScan after a StopScan replaces scanDone while the old scan's
  goroutine still runs; that goroutine closes the new channel, and the second close panics. releaseAdapter
  one second after Disconnect (415-420) may release the adapter of the next connection.
- main.go:178-183: the command line closes connectionEstablished at each Connected; the second
  close panics.

## 6. What is not modelled, and the plan

Not modelled because there is nothing to check: configuration and logging (file and
console I/O), user interfaces, entry points, mobile binding (forwarding), the plugin
registry (a sequential loop), the text of commands. Message contents are abstracted
everywhere but in Notifications.

Not modelled, though there would be something to check:

- the desktop client (`tinygo_bluetooth_client.go`): scanning, the adapter's reservation and its teardown. What
  its lock does wrong is in section 5;
- alignment, the init sequence and the heartbeat of LaunchMonitor; sensor, battery and version notifications;
- Arm, Disarm and Stop of the Android engine (stopBallDetection sends commands, registry.StopAll waits for the
  simulator's goroutines, and the wait for the disconnect's signal is bounded by a timer, engine.go:370-394), and
  the shots and log lines that share its queue;
- the HTTP handlers of the web server, which call setters and the operations above;
- the JSON framing of the simulator's answers, readiness messages to it, and the camera's Cancel.

In this order next: `DesktopClient`, against what BluetoothManager requires of a client; alignment in
LaunchModes, with a second caller; readiness messages and Arm, which join LaunchModes, ShotForwarding and
SimBase. Theorems next: what BluetoothManager may rely on of a client, as an
abstract specification that AndroidClient, and later DesktopClient, implements.
