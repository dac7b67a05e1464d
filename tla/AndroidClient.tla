---------------------------- MODULE AndroidClient ----------------------------
(***************************************************************************)
(* The Android launch-monitor transport: android.Client                    *)
(* (internal/transport/android/client.go) and, behind its Bridge           *)
(* interface, BleBridge.kt with its GATT callbacks.                        *)
(*                                                                         *)
(* Goroutines inside Client.Connect and StartNotifications (Attempts) and  *)
(* inside Client.Disconnect (Closers) run Kotlin code synchronously; the   *)
(* stack calls back on one binder thread (Binder).  A BluetoothGatt handle *)
(* is a member of Gatts.  opLock is not a variable of its own: every       *)
(* caller of an opLock method here already holds gattMu.                   *)
(*                                                                         *)
(* Abstracted: scanning and the device table, characteristic values, the   *)
(* individual notification UUIDs (one stands for the set), and time: a     *)
(* timeout may fire whenever its wait is in progress (so the cancelling    *)
(* flag, which only shortens a wait, is left out).  The generation counter *)
(* shows only in whether it moved since an attempt's snapshot.             *)
(***************************************************************************)
EXTENDS Naturals, Sequences

CONSTANTS
  Attempts,      \* goroutines that connect
  Closers,       \* goroutines that disconnect
  Gatts,         \* the handles Android's pool can have allocated at a time
  LaneDepth,     \* 32 in the code
  LaneMayStall,  \* whether the lifecycle lane may be slow enough for its timeouts
  NoGatt, NoProc, Binder

Threads == Attempts \cup Closers \cup {Binder}

ASSUME AndroidClientAssumption ==
  /\ Attempts \cap Closers = {}
  /\ Binder \notin Attempts \cup Closers
  /\ NoProc \notin Threads
  /\ NoGatt \notin Gatts
  /\ {"phase", "lost"} \cap Attempts = {}
  /\ LaneDepth \in Nat \ {0}
  /\ LaneMayStall \in BOOLEAN

VARIABLES
  connected,   \* Client.connected, the cached link state
  moved,       \* the attempts inside Connect for which gen has moved since startGen
  installed,   \* Client.handlers has a handler
  gattMu,      \* the holder of gattMu, or NoProc
  lane,        \* lifecycleCh: phase changes, losses, and flush markers (the attempt)
  gatt,        \* BleBridge.gatt
  link,        \* each handle: what the radio and the stack know of it
  subscribed,  \* the handle whose notifications the peripheral sends
  future,      \* pendingMtu, the future that connect() awaits
  pc

clientVars == <<connected, moved, installed, gattMu, lane>>
bridgeVars == <<gatt, link, subscribed, future>>
cvars == <<clientVars, bridgeVars, pc>>

ClientPoints == {"idle", "enter", "lock", "open", "gatt", "await", "announce", "promote", "cas",
                 "recheck", "flush", "flushing", "ok", "failed",
                 "sub", "sublock", "subop", "subok", "subfailed",
                 "disc", "bump", "bridge", "close", "null", "uncancel", "closed",
                 "fail", "report", "drop"}

ClientTypeOK ==
  /\ connected \in BOOLEAN /\ installed \in BOOLEAN
  /\ moved \in SUBSET Attempts
  /\ gattMu \in Attempts \cup {NoProc}
  /\ lane \in Seq({"phase", "lost"} \cup Attempts) /\ Len(lane) <= LaneDepth
  /\ gatt \in Gatts \cup {NoGatt} /\ subscribed \in Gatts \cup {NoGatt}
  /\ link \in [Gatts -> {"free", "opening", "linked", "up", "dropped", "down"}]
  /\ future \in {"none", "waiting", "done", "failed"}

ClientInit ==
  /\ connected = FALSE /\ installed = FALSE
  /\ moved = {}
  /\ gattMu = NoProc
  /\ lane = <<>>
  /\ gatt = NoGatt /\ subscribed = NoGatt
  /\ link = [g \in Gatts |-> "free"]
  /\ future = "none"
  /\ pc = [t \in Threads |-> "idle"]

Goto(t, l) == pc' = [pc EXCEPT ![t] = l]
InConnect(a) == pc[a] \in {"lock", "open", "gatt", "await", "announce", "promote"}
GenMoves == moved' = {a \in Attempts : InConnect(a)}
Queued(a) == \E i \in DOMAIN lane : lane[i] = a
\* Connect returns an error from inside the bridge.
GivesUp(a) ==
  /\ gattMu' = NoProc
  /\ moved' = moved \ {a}
  /\ Goto(a, "failed")

FailPending == future' = IF future = "waiting" THEN "failed" ELSE future

\* offer waits for room up to enqueueGrace and then gives up.
Offer(e) ==
  \/ Len(lane) < LaneDepth /\ lane' = Append(lane, e)
  \/ Len(lane) = LaneDepth /\ LaneMayStall /\ lane' = lane

-----------------------------------------------------------------------------
(* Client.Connect, with BleBridge.connect inside it.                       *)

ConnectEnter(a) ==
  /\ pc[a] = "enter"
  /\ Goto(a, "lock")
  /\ UNCHANGED <<clientVars, bridgeVars>>

\* acquireGATT: it gives up while a Disconnect runs or after gattWait.
AcquireGATT(a) ==
  /\ pc[a] = "lock"
  /\ \/ /\ gattMu = NoProc
        /\ gattMu' = a
        /\ Goto(a, "open")
        /\ UNCHANGED moved
     \/ /\ gattMu # NoProc
        /\ moved' = moved \ {a}
        /\ Goto(a, "failed")
        /\ UNCHANGED gattMu
  /\ UNCHANGED <<connected, installed, lane, bridgeVars>>

OpenFails(a) ==
  /\ pc[a] = "open"
  /\ GivesUp(a)
  /\ UNCHANGED <<connected, installed, lane, bridgeVars>>

\* closeGatt, the new futures and the "opening GATT" phase.
Open(a) ==
  /\ pc[a] = "open"
  /\ link' = [g \in Gatts |-> IF g = gatt THEN "free" ELSE link[g]]
  /\ gatt' = NoGatt
  /\ future' = "waiting"
  /\ Offer("phase")
  /\ Goto(a, "gatt")
  /\ UNCHANGED <<connected, moved, installed, gattMu, subscribed>>

ConnectGatt(a) ==
  /\ pc[a] = "gatt"
  /\ \/ \E g \in Gatts :
          /\ link[g] = "free"
          /\ gatt' = g
          /\ link' = [link EXCEPT ![g] = "opening"]
          /\ subscribed' = IF subscribed = g THEN NoGatt ELSE subscribed
          /\ Goto(a, "await")
          /\ UNCHANGED <<gattMu, moved, future>>
     \/ /\ \A g \in Gatts : link[g] # "free"
        /\ future' = "none"
        /\ GivesUp(a)
        /\ UNCHANGED <<gatt, link, subscribed>>
  /\ UNCHANGED <<connected, installed, lane>>

AwaitReady(a) ==
  /\ pc[a] = "await"
  /\ future = "done"
  /\ future' = "none"
  /\ Goto(a, "announce")
  /\ UNCHANGED <<clientVars, gatt, link, subscribed>>

\* The future failed, or CONNECT_TIMEOUT_MS passed.
AwaitFails(a) ==
  /\ pc[a] = "await"
  /\ future \in {"waiting", "failed"}
  /\ future' = "none"
  /\ GivesUp(a)
  /\ UNCHANGED <<connected, installed, lane, gatt, link, subscribed>>

\* OnConnectionStateChanged(ConnStateConnected), whatever became of the link.
Announce(a) ==
  /\ pc[a] = "announce"
  /\ connected' = TRUE
  /\ gattMu' = NoProc
  /\ Goto(a, "promote")
  /\ UNCHANGED <<moved, installed, lane, bridgeVars>>

Promote(a) ==
  /\ pc[a] = "promote"
  /\ Goto(a, IF a \in moved THEN "recheck" ELSE "cas")
  /\ moved' = moved \ {a}
  /\ UNCHANGED <<connected, installed, gattMu, lane, bridgeVars>>

Cas(a) ==
  /\ pc[a] = "cas"
  /\ connected' = TRUE
  /\ Goto(a, "flush")
  /\ UNCHANGED <<moved, installed, gattMu, lane, bridgeVars>>

Recheck(a) ==
  /\ pc[a] = "recheck"
  /\ Goto(a, IF connected THEN "flush" ELSE "failed")
  /\ UNCHANGED <<clientVars, bridgeVars>>

\* Mutant: flushLifecycle waits for room in the lane for as long as it takes.
FlushBlocks(a) ==
  /\ pc[a] = "flush"
  /\ Len(lane) < LaneDepth
  /\ lane' = Append(lane, a)
  /\ Goto(a, "flushing")
  /\ UNCHANGED <<connected, moved, installed, gattMu, bridgeVars>>

\* Mutant: Connect returns without the ordering barrier.
FlushSkipped(a) ==
  /\ pc[a] = "flush"
  /\ lane' = lane
  /\ Goto(a, "ok")
  /\ UNCHANGED <<connected, moved, installed, gattMu, bridgeVars>>

Flush(a) ==
  /\ pc[a] = "flush"
  /\ \/ /\ Len(lane) < LaneDepth
        /\ lane' = Append(lane, a)
        /\ Goto(a, "flushing")
     \/ /\ Len(lane) = LaneDepth /\ LaneMayStall
        /\ lane' = lane
        /\ Goto(a, "ok")
  /\ UNCHANGED <<connected, moved, installed, gattMu, bridgeVars>>

FlushTimesOut(a) ==
  /\ pc[a] = "flushing"
  /\ LaneMayStall
  /\ Goto(a, "ok")
  /\ UNCHANGED <<clientVars, bridgeVars>>

-----------------------------------------------------------------------------
(* Client.StartNotifications.                                              *)

Subscribe(a) ==
  /\ pc[a] = "sub"
  /\ \/ connected /\ installed' = TRUE /\ Goto(a, "sublock")
     \/ ~connected /\ Goto(a, "subfailed") /\ UNCHANGED installed
  /\ UNCHANGED <<connected, moved, gattMu, lane, bridgeVars>>

\* Mutant: StartNotifications enters the bridge whoever is in it.
SubscribeEntersBusy(a) ==
  /\ pc[a] = "sublock"
  /\ gattMu' = a
  /\ Goto(a, "subop")
  /\ UNCHANGED <<connected, moved, installed, lane, bridgeVars>>

SubscribeAcquires(a) ==
  /\ pc[a] = "sublock"
  /\ \/ /\ gattMu = NoProc
        /\ gattMu' = a
        /\ Goto(a, "subop")
        /\ UNCHANGED installed
     \/ /\ gattMu # NoProc
        /\ installed' = FALSE
        /\ Goto(a, "subfailed")
        /\ UNCHANGED gattMu
  /\ UNCHANGED <<connected, moved, lane, bridgeVars>>

\* The CCCD write of the current handle; it may fail at any time.
SubscribeWrites(a) ==
  /\ pc[a] = "subop"
  /\ gattMu' = NoProc
  /\ \/ /\ gatt # NoGatt /\ link[gatt] = "up"
        /\ subscribed' = gatt
        /\ Goto(a, "subok")
        /\ UNCHANGED installed
     \/ /\ installed' = FALSE
        /\ Goto(a, "subfailed")
        /\ UNCHANGED subscribed
  /\ UNCHANGED <<connected, moved, lane, gatt, link, future>>

-----------------------------------------------------------------------------
(* Client.Disconnect, with BleBridge.disconnect inside it: the cancel path *)
(* takes neither gattMu nor opLock.                                        *)

\* Mutant: Disconnect queues on gattMu.
DisconnectBeginsLocked(c) ==
  /\ pc[c] = "disc"
  /\ gattMu = NoProc
  /\ connected' = FALSE
  /\ Goto(c, "bump")
  /\ UNCHANGED <<moved, installed, gattMu, lane, bridgeVars>>

DisconnectBegins(c) ==
  /\ pc[c] = "disc"
  /\ connected' = FALSE
  /\ Goto(c, "bump")
  /\ UNCHANGED <<moved, installed, gattMu, lane, bridgeVars>>

\* The generation moves and the handler table is cleared.
DisconnectBumps(c) ==
  /\ pc[c] = "bump"
  /\ GenMoves
  /\ installed' = FALSE
  /\ Goto(c, "bridge")
  /\ UNCHANGED <<connected, gattMu, lane, bridgeVars>>

BridgeDisconnects(c) ==
  /\ pc[c] = "bridge"
  /\ FailPending
  /\ Goto(c, IF gatt = NoGatt THEN "uncancel" ELSE "close")
  /\ UNCHANGED <<clientVars, gatt, link, subscribed>>

\* closeGatt, run by a closer and by the binder thread: the handle that the
\* field names is closed, and then the field is cleared.
CloseGatt(t) ==
  /\ pc[t] = "close"
  /\ link' = [g \in Gatts |-> IF g = gatt THEN "free" ELSE link[g]]
  /\ Goto(t, "null")
  /\ UNCHANGED <<clientVars, gatt, subscribed, future>>

ClearGatt(t) ==
  /\ pc[t] = "null"
  /\ gatt' = NoGatt
  /\ Goto(t, IF t = Binder THEN "fail" ELSE "uncancel")
  /\ UNCHANGED <<clientVars, link, subscribed, future>>

DisconnectEnds(c) ==
  /\ pc[c] = "uncancel"
  /\ Goto(c, "closed")
  /\ UNCHANGED <<clientVars, bridgeVars>>

-----------------------------------------------------------------------------
(* The binder thread: gattCallback, and OnConnectionStateChanged in Go.    *)

StackConnects(g) ==
  /\ pc[Binder] = "idle"
  /\ link[g] = "opening"
  /\ link' = [link EXCEPT ![g] = "linked"]
  /\ Offer("phase")
  /\ UNCHANGED <<connected, moved, installed, gattMu, gatt, subscribed,
                 future, pc>>

\* onMtuChanged completes whatever future is pending; failConnect fails it.
StackReady(g) ==
  /\ pc[Binder] = "idle"
  /\ link[g] = "linked"
  /\ \/ /\ link' = [link EXCEPT ![g] = "up"]
        /\ future' = IF future = "waiting" THEN "done" ELSE future
     \/ FailPending /\ UNCHANGED link
  /\ UNCHANGED <<clientVars, gatt, subscribed, pc>>

LinkDrops(g) ==
  /\ link[g] \in {"opening", "linked", "up"}
  /\ link' = [link EXCEPT ![g] = "dropped"]
  /\ UNCHANGED <<clientVars, gatt, subscribed, future, pc>>

\* Called once per loss, and never for a handle that has been closed.
StackDisconnects(g) ==
  /\ pc[Binder] = "idle"
  /\ link[g] = "dropped"
  /\ link' = [link EXCEPT ![g] = "down"]
  /\ Goto(Binder, "close")
  /\ UNCHANGED <<clientVars, gatt, subscribed, future>>

BinderFails ==
  /\ pc[Binder] = "fail"
  /\ FailPending
  /\ Goto(Binder, "report")
  /\ UNCHANGED <<clientVars, gatt, link, subscribed>>

BinderReports ==
  /\ pc[Binder] = "report"
  /\ GenMoves
  /\ Goto(Binder, "drop")
  /\ UNCHANGED <<connected, installed, gattMu, lane, bridgeVars>>

\* Mutant: the cached state is cleared but the loss is not passed on.
BinderDropsSilent ==
  /\ pc[Binder] = "drop"
  /\ connected' = FALSE
  /\ lane' = lane
  /\ Goto(Binder, "idle")
  /\ UNCHANGED <<moved, installed, gattMu, bridgeVars>>

\* The CompareAndSwap: only a link that was believed up is reported as lost.
BinderDrops ==
  /\ pc[Binder] = "drop"
  /\ connected' = FALSE
  /\ IF connected THEN Offer("lost") ELSE lane' = lane
  /\ Goto(Binder, "idle")
  /\ UNCHANGED <<moved, installed, gattMu, bridgeVars>>

-----------------------------------------------------------------------------
\* The lifecycle goroutine takes the next event; a marker releases its Connect.
LaneTakes ==
  /\ lane # <<>>
  /\ lane' = Tail(lane)
  /\ pc' = IF Head(lane) \in Attempts /\ pc[Head(lane)] = "flushing"
             THEN [pc EXCEPT ![Head(lane)] = "ok"]
             ELSE pc
  /\ UNCHANGED <<connected, moved, installed, gattMu, bridgeVars>>

AwaitStep(a) == AwaitReady(a) \/ AwaitFails(a)
ConnectStep(a) ==
  ConnectEnter(a) \/ AcquireGATT(a) \/ OpenFails(a) \/ Open(a) \/ ConnectGatt(a)
  \/ Announce(a) \/ Promote(a) \/ Cas(a) \/ Recheck(a) \/ Flush(a) \/ FlushTimesOut(a)
SubscribeStep(a) == Subscribe(a) \/ SubscribeAcquires(a) \/ SubscribeWrites(a)
DisconnectStep(c) ==
  DisconnectBegins(c) \/ DisconnectBumps(c) \/ BridgeDisconnects(c)
  \/ CloseGatt(c) \/ ClearGatt(c) \/ DisconnectEnds(c)
StackStep == \E g \in Gatts : StackConnects(g) \/ StackReady(g)
BinderStep ==
  CloseGatt(Binder) \/ ClearGatt(Binder) \/ BinderFails \/ BinderReports \/ BinderDrops
  \/ \E g \in Gatts : StackDisconnects(g)

\* Everything but the lane, whose events the BluetoothManager applies.
ClientStep ==
  \/ \E a \in Attempts : ConnectStep(a) \/ AwaitStep(a) \/ SubscribeStep(a)
  \/ \E c \in Closers : DisconnectStep(c)
  \/ StackStep \/ BinderStep
  \/ \E g \in Gatts : LinkDrops(g)

-----------------------------------------------------------------------------
InBridge(a) == pc[a] \in {"open", "gatt", "await", "announce", "subop"}

\* Android's one-outstanding-operation rule, over Connect and StartNotifications of
\* overlapping attempts: two of them are never inside the bridge together.
OneGattOperation == \A a, b \in Attempts : InBridge(a) /\ InBridge(b) => a = b
=============================================================================
