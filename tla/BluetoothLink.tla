---------------------------- MODULE BluetoothLink ----------------------------
(***************************************************************************)
(* The launch-monitor leg on Android: BluetoothManager                     *)
(* (internal/core/bluetooth_manager.go) driving a notifyOwner              *)
(* (internal/transport/android/notifyowner.go) around the AndroidClient.   *)
(*                                                                         *)
(* StartBluetoothConnection and DisconnectBluetooth each start a           *)
(* goroutine; nothing keeps two of them apart.  ConnectionStatus is what   *)
(* the rest of the program is told.                                        *)
(*                                                                         *)
(* Abstracted: the characteristic reads between Connect and                *)
(* EnableNotifications, the device name and type, the pre-disconnect hook. *)
(***************************************************************************)
EXTENDS AndroidClient

VARIABLES
  status,     \* StateManager's ConnectionStatus
  current,    \* the attempt whose cancel function is current, or NoProc
  cancelled,  \* the attempts whose context is cancelled
  seeded,     \* notifyOwner.seeded: it has forwarded StartNotifications once
  overlap     \* history: the latest attempt began while another was running

managerVars == <<status, current, cancelled, seeded, overlap>>
vars == <<cvars, managerVars>>

TypeOK ==
  /\ ClientTypeOK
  /\ pc \in [Threads -> ClientPoints \cup {"begin", "commit", "again"}]
  /\ status \in {"disconnected", "scanning", "connecting", "connected", "error"}
  /\ current \in Attempts \cup {NoProc}
  /\ cancelled \in SUBSET Attempts
  /\ seeded \in BOOLEAN /\ overlap \in BOOLEAN

Init ==
  /\ ClientInit
  /\ status = "disconnected"
  /\ current = NoProc
  /\ cancelled = {}
  /\ seeded = FALSE /\ overlap = FALSE

\* The cancel function of an attempt that has returned does nothing.
Cancels == {a \in Attempts : a = current /\ pc[a] # "idle"}
Cancel == cancelled' = cancelled \cup Cancels

-----------------------------------------------------------------------------
(* BluetoothManager: connecting.                                           *)

\* An attempt's slot is free again once its flush marker has left the lane.
StartBluetoothConnection(a) ==
  /\ pc[a] = "idle" /\ ~Queued(a)
  /\ Cancel
  /\ current' = a
  /\ status' = "scanning"
  /\ overlap' = \E b \in Attempts \ {a} : pc[b] # "idle"
  /\ Goto(a, "begin")
  /\ UNCHANGED <<clientVars, bridgeVars, seeded>>

\* connectDevice; it never looks at its context.
ConnectDeviceBegins(a) ==
  /\ pc[a] = "begin"
  /\ status' = "connecting"
  /\ Goto(a, "enter")
  /\ UNCHANGED <<clientVars, bridgeVars, current, cancelled, seeded, overlap>>

\* EnableNotifications, and notifyOwner.StartNotifications: forwarded only the
\* first time.
EnableNotifications(a) ==
  /\ pc[a] = "ok"
  /\ Goto(a, IF seeded THEN "commit" ELSE "sub")
  /\ UNCHANGED <<clientVars, bridgeVars, status, current, cancelled, seeded, overlap>>

NotificationsEnabled(a) ==
  /\ pc[a] = "subok"
  /\ seeded' = TRUE
  /\ Goto(a, "commit")
  /\ UNCHANGED <<clientVars, bridgeVars, status, current, cancelled, overlap>>

ReportsConnected(a) ==
  /\ pc[a] = "commit"
  /\ status' = "connected"
  /\ cancelled' = cancelled \ {a}
  /\ Goto(a, "idle")
  /\ UNCHANGED <<clientVars, bridgeVars, current, seeded, overlap>>

\* A cancelled attempt that fails says nothing.
ReportsFailure(a) ==
  /\ pc[a] \in {"failed", "subfailed"}
  /\ status' = IF a \in cancelled THEN status ELSE "error"
  /\ cancelled' = cancelled \ {a}
  /\ Goto(a, "idle")
  /\ UNCHANGED <<clientVars, bridgeVars, current, seeded, overlap>>

-----------------------------------------------------------------------------
(* BluetoothManager: cancelling and disconnecting.                         *)

CancelBluetoothConnection ==
  /\ Cancel
  /\ current' = NoProc
  /\ status' = "disconnected"
  /\ UNCHANGED <<cvars, seeded, overlap>>

DisconnectBluetooth(c) ==
  /\ pc[c] = "idle"
  /\ Cancel
  /\ current' = NoProc
  /\ Goto(c, "disc")
  /\ UNCHANGED <<clientVars, bridgeVars, status, seeded, overlap>>

\* disconnectDevice reports, and DisconnectBluetooth's goroutine reports again.
ReportsDisconnected(c) ==
  /\ pc[c] \in {"closed", "again"}
  /\ status' = "disconnected"
  /\ Goto(c, IF pc[c] = "closed" THEN "again" ELSE "idle")
  /\ UNCHANGED <<clientVars, bridgeVars, current, cancelled, seeded, overlap>>

-----------------------------------------------------------------------------
\* The phase and connection-lost callbacks, on the lifecycle goroutine.
LaneDelivers ==
  /\ LaneTakes
  /\ status' = CASE Head(lane) = "phase" -> "connecting"
                 [] Head(lane) = "lost"  -> "disconnected"
                 [] OTHER                -> status
  /\ UNCHANGED <<current, cancelled, seeded, overlap>>

ManagerStep(t) ==
  \/ t \in Attempts /\ (ConnectDeviceBegins(t) \/ EnableNotifications(t)
                        \/ NotificationsEnabled(t) \/ ReportsConnected(t) \/ ReportsFailure(t))
  \/ t \in Closers /\ ReportsDisconnected(t)

Next ==
  \/ ClientStep /\ UNCHANGED managerVars
  \/ \E t \in Attempts \cup Closers : ManagerStep(t)
  \/ \E a \in Attempts : StartBluetoothConnection(a)
  \/ \E c \in Closers : DisconnectBluetooth(c)
  \/ CancelBluetoothConnection
  \/ LaneDelivers

Spec == Init /\ [][Next]_vars

\* The goroutines and the stack's callbacks run; nothing is assumed of the radio
\* or the user.
GoroutinesRun ==
  /\ \A a \in Attempts :
       /\ WF_vars((ConnectStep(a) \/ SubscribeStep(a)) /\ UNCHANGED managerVars)
       /\ WF_vars(ManagerStep(a))
  /\ \A c \in Closers :
       /\ WF_vars(DisconnectStep(c) /\ UNCHANGED managerVars)
       /\ WF_vars(ManagerStep(c))
  /\ WF_vars(BinderStep /\ UNCHANGED managerVars)

LaneRuns == WF_vars(LaneDelivers)

\* Every wait inside the bridge has a timeout.
AwaitsEnd == \A a \in Attempts : WF_vars(AwaitStep(a) /\ UNCHANGED managerVars)

\* Kotlin's await may be stuck for good.
FairSpec == Spec /\ GoroutinesRun /\ LaneRuns
\* The lifecycle lane may be stuck for good.
StalledSpec == Spec /\ GoroutinesRun /\ AwaitsEnd

-----------------------------------------------------------------------------
\* Nothing is in flight: no goroutine, no callback, no queued event.
Quiet ==
  /\ \A t \in Threads : pc[t] = "idle"
  /\ lane = <<>>
  /\ \A g \in Gatts : link[g] # "dropped"

\* A handle that BleBridge.gatt no longer names was never closed: Disconnect or a loss
\* of the link fell into the middle of an attempt, and the callbacks of the handle go on.
Leaked == \E g \in Gatts : g # gatt /\ link[g] # "free"

\* The ordering barrier of Connect: however late the lane delivers the phase events of
\* an attempt, none of them undoes what is shown once it has succeeded.  That holds as
\* long as the lane moves, an attempt begins when no other is running, and no handle has
\* leaked: the barrier is behind the phases of its own handle only.
ConnectedNotUndone ==
  [][~LaneMayStall /\ ~overlap /\ ~Leaked /\ status = "connected" => status' # "connecting"]_vars

\* The cancel path never waits for the GATT slot: Disconnect ends although a
\* Connect is stuck inside Kotlin for good.
DisconnectNeverWaits == \A c \in Closers : pc[c] # "idle" ~> pc[c] = "idle"

\* Every connection attempt ends: every wait inside Kotlin is bounded, and neither
\* a slot that is taken nor a lane that has stalled holds it up.
AttemptEnds == \A a \in Attempts : pc[a] # "idle" ~> pc[a] = "idle"

\* A link that drops while it is shown as connected is soon not shown so.
DropIsShown ==
  (status = "connected" /\ connected /\ gatt # NoGatt /\ link[gatt] = "dropped"
     /\ \A a \in Attempts : pc[a] = "idle")
  ~> status # "connected"
=============================================================================
