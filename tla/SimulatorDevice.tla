--------------------------- MODULE SimulatorDevice ---------------------------
(***************************************************************************)
(* The simulated launch monitor, SimulatorBluetoothClient                  *)
(* (internal/core/simulator_mock.go), behind the notifyOwner               *)
(* (internal/transport/android/notifyowner.go) that owns its handler       *)
(* table, as BluetoothManager and the engine use them.                     *)
(*                                                                         *)
(* The processes are the goroutines that connect (Managers) and that write *)
(* commands (Writers), the processCommands goroutine, and the goroutines   *)
(* of simulateBallDetection (Cycles).  A cycle reads deviceState,          *)
(* ballState and the handler table without the lock, so what it tests and  *)
(* what it does next are two steps, and a handler it calls may take long.  *)
(*                                                                         *)
(* Abstracted: payloads, the battery, the error rate (0 in the engine),    *)
(* requests for club metrics (which read the table and test what they      *)
(* find), and time: a wait ends at any moment, and so does the ten-second  *)
(* grace of the inactivity monitor.  The owner's own handlers decide only  *)
(* whether the fan-out passes a packet on, and are left out.               *)
(***************************************************************************)
EXTENDS Naturals

CONSTANTS
  Managers,   \* goroutines connecting
  Writers,    \* goroutines inside WriteCharacteristic
  Cycles,     \* slots for simulateBallDetection goroutines (bounds them)
  Depth,      \* capacity of commandChan, 10 in the code
  NoCycle

Uuids == {"main", "battery"}

ASSUME SimulatorDeviceAssumption ==
  /\ Depth \in Nat \ {0}
  /\ NoCycle \notin Cycles

VARIABLES
  connected,    \* SimulatorBluetoothClient.connected
  deviceState, ballState,
  table,        \* the UUIDs in notifyHandlers; the value is always the fan-out
  cancel,       \* the cycle whose cancel function is ballDetectionCancel
  queued,       \* how many commands 11 81 are in commandChan, whatever their mode
  seeded, armed,
  mpc, uuid,    \* each connecting goroutine, and the UUID it is about
  sending,      \* the writers on their way to commandChan
  ppc,          \* processCommands
  pc, done      \* each cycle, and the cycles whose context is cancelled

deviceVars == <<connected, deviceState, ballState, cancel>>
ownerVars == <<seeded, armed>>
managerVars == <<mpc, uuid>>
commandVars == <<queued, sending, ppc>>
cycleVars == <<pc, done>>
vars == <<deviceVars, table, ownerVars, managerVars, commandVars, cycleVars>>

\* Where a cycle reads the handler table and calls what it finds there.
Tells == {"tellBall", "tellReady", "shoot"}
CyclePoints == {"idle", "top", "hold", "place", "placed", "ball", "settle", "settled", "ready",
                "swing", "swung", "after", "finish", "rest", "exit", "panicked"} \cup Tells

TypeOK ==
  /\ connected \in BOOLEAN
  /\ deviceState \in {"idle", "detect"} /\ ballState \in {"none", "detected", "ready"}
  /\ table \in SUBSET Uuids /\ seeded \in SUBSET Uuids
  /\ armed \in BOOLEAN
  /\ cancel \in Cycles \cup {NoCycle}
  /\ queued \in 0 .. Depth
  /\ mpc \in [Managers -> {"idle", "register", "forward", "seed"}]
  /\ uuid \in [Managers -> Uuids]
  /\ sending \in SUBSET Writers
  /\ ppc \in {"take", "detect", "spawn"}
  /\ pc \in [Cycles -> CyclePoints]
  /\ done \in SUBSET Cycles

Init ==
  /\ connected = FALSE /\ deviceState = "idle" /\ ballState = "none"
  /\ table = {} /\ seeded = {} /\ armed = FALSE
  /\ cancel = NoCycle /\ queued = 0
  /\ mpc = [m \in Managers |-> "idle"] /\ uuid = [m \in Managers |-> "main"]
  /\ sending = {} /\ ppc = "take"
  /\ pc = [c \in Cycles |-> "idle"] /\ done = {}

\* The current cancel function is called.
CancelCycle ==
  /\ done' = done \cup ({cancel} \ {NoCycle})
  /\ cancel' = NoCycle

-----------------------------------------------------------------------------
(* BluetoothManager connecting, with notifyOwner.StartNotifications for    *)
(* the main characteristic and then for the battery.                       *)

ManagerAt(m, l) == mpc' = [mpc EXCEPT ![m] = l] /\ uuid' = uuid

Connect(m) ==
  /\ mpc[m] = "idle"
  /\ connected' = TRUE
  /\ deviceState' = "idle"
  /\ ManagerAt(m, "register")
  /\ UNCHANGED <<ballState, cancel, table, ownerVars, commandVars, cycleVars>>

\* The battery follows the main characteristic; after it the attempt is over.
NextUuid(m) ==
  LET isMain == uuid[m] = "main"
  IN  /\ uuid' = [uuid EXCEPT ![m] = IF isMain THEN "battery" ELSE "main"]
      /\ mpc' = [mpc EXCEPT ![m] = IF isMain THEN "register" ELSE "idle"]

RegisterHandler(m) ==
  /\ mpc[m] = "register"
  /\ IF uuid[m] \in seeded
     THEN armed' = TRUE /\ NextUuid(m)
     ELSE armed' = armed /\ ManagerAt(m, "forward")
  /\ UNCHANGED <<deviceVars, table, seeded, commandVars, cycleVars>>

\* The simulator's StartNotifications; if it refuses, the attempt is over.
Forward(m) ==
  /\ mpc[m] = "forward"
  /\ table' = IF connected THEN table \cup {uuid[m]} ELSE table
  /\ mpc' = [mpc EXCEPT ![m] = IF connected THEN "seed" ELSE "idle"]
  /\ uuid' = [uuid EXCEPT ![m] = IF connected THEN @ ELSE "main"]
  /\ UNCHANGED <<deviceVars, ownerVars, commandVars, cycleVars>>

Seed(m) ==
  /\ mpc[m] = "seed"
  /\ seeded' = seeded \cup {uuid[m]}
  /\ armed' = TRUE
  /\ NextUuid(m)
  /\ UNCHANGED <<deviceVars, table, commandVars, cycleVars>>

-----------------------------------------------------------------------------
(* Disconnecting, disarming and the inactivity monitor.                    *)

\* Mutant: StopNotifications is forwarded.
DisconnectUninstalls ==
  /\ connected
  /\ CancelCycle
  /\ connected' = FALSE /\ deviceState' = "idle" /\ ballState' = "none"
  /\ table' = {}
  /\ UNCHANGED <<ownerVars, managerVars, commandVars, pc>>

\* performDisconnection.  The owner keeps StopNotifications from the simulator.
Disconnect ==
  /\ connected
  /\ CancelCycle
  /\ connected' = FALSE /\ deviceState' = "idle" /\ ballState' = "none"
  /\ UNCHANGED <<table, ownerVars, managerVars, commandVars, pc>>

\* The engine's Disarm: SetDeviceState(Idle).
Disarm ==
  /\ deviceState' = "idle"
  /\ UNCHANGED <<connected, ballState, cancel, table, ownerVars, managerVars, commandVars,
                 cycleVars>>

-----------------------------------------------------------------------------
(* Commands: WriteCharacteristic and processCommands.                      *)

\* notifyOwner's gate, and the simulator's own test.
Write(w) ==
  /\ w \notin sending
  /\ armed
  /\ connected
  /\ sending' = sending \cup {w}
  /\ UNCHANGED <<deviceVars, table, ownerVars, managerVars, queued, ppc, cycleVars>>

\* Outside the lock; a full channel drops the command.
Send(w) ==
  /\ w \in sending
  /\ queued' = IF queued < Depth THEN queued + 1 ELSE queued
  /\ sending' = sending \ {w}
  /\ UNCHANGED <<deviceVars, table, ownerVars, managerVars, ppc, cycleVars>>

TakeCommand ==
  /\ ppc = "take"
  /\ queued > 0
  /\ queued' = queued - 1
  /\ ppc' = "detect"
  /\ UNCHANGED <<deviceVars, table, ownerVars, managerVars, sending, cycleVars>>

ResetDetection ==
  /\ ppc = "detect"
  /\ CancelCycle
  /\ deviceState' = "detect" /\ ballState' = "none"
  /\ ppc' = "spawn"
  /\ UNCHANGED <<connected, table, ownerVars, managerVars, queued, sending, pc>>

SpawnCycle(c) ==
  /\ ppc = "spawn"
  /\ pc[c] = "idle"
  /\ cancel' = c
  /\ pc' = [pc EXCEPT ![c] = "top"]
  /\ ppc' = "take"
  /\ UNCHANGED <<connected, deviceState, ballState, table, ownerVars, managerVars, queued,
                 sending, done>>

-----------------------------------------------------------------------------
(* simulateBallDetection.                                                  *)

others == <<connected, cancel, table, ownerVars, managerVars, commandVars, done>>
CycleAt(c, l) == pc' = [pc EXCEPT ![c] = l]
Move(c, from, to) ==
  /\ pc[c] = from
  /\ CycleAt(c, to)
  /\ UNCHANGED <<deviceState, ballState, others>>

\* A select of ctx.Done and a timer: either branch, when both are ready.
Wait(c, from, to) == Move(c, from, to) \/ (c \in done /\ Move(c, from, "exit"))
\* A test of deviceState without the lock.
Checks(c, from, to) == Move(c, from, IF deviceState = "detect" THEN to ELSE "exit")

CycleTop(c) ==
  Move(c, "top", IF c \in done \/ deviceState # "detect" THEN "exit"
                 ELSE IF ballState # "none" THEN "hold" ELSE "place")

\* Mutant: a cycle that waits for the ball to be reset does not look at the device.
HoldForBall(c) == Wait(c, "hold", IF ballState # "none" THEN "hold" ELSE "top")

\* Another cycle has left a ball: look again after half a second.
Hold(c) == Wait(c, "hold", "top")

\* The stages: the ball is placed, it is ready, it is hit.
CycleWaits(c) ==
  \/ Wait(c, "place", "placed") \/ Wait(c, "settle", "settled") \/ Wait(c, "swing", "swung")
  \/ Wait(c, "after", "finish") \/ Wait(c, "rest", "top")

\* The checks before a stage, and the status notification that opens it.
CycleChecks(c) ==
  \/ Checks(c, "placed", "ball")
  \/ Checks(c, "settled", "ready")
  \/ IF ballState = "ready" THEN Checks(c, "swung", "shoot") ELSE Move(c, "swung", "exit")

SetsBall(c, from, b, to) ==
  /\ pc[c] = from
  /\ ballState' = b
  /\ CycleAt(c, to)
  /\ UNCHANGED <<deviceState, others>>

CycleSetsBall(c) ==
  SetsBall(c, "ball", "detected", "tellBall") \/ SetsBall(c, "ready", "ready", "tellReady")

\* The handler is called without a test for nil; the metrics need a link.
Tell(c, from, to) == Move(c, from, IF "main" \in table THEN to ELSE "panicked")
CycleTells(c) ==
  \/ Tell(c, "tellBall", "settle") \/ Tell(c, "tellReady", "swing")
  \/ IF connected THEN Tell(c, "shoot", "after") ELSE Move(c, "shoot", "after")

CycleFinishes(c) ==
  /\ pc[c] = "finish"
  /\ deviceState' = "idle" /\ ballState' = "none"
  /\ CycleAt(c, "rest")
  /\ UNCHANGED others

\* The deferred function takes away whatever cancel function there is.
CycleExits(c) ==
  /\ pc[c] = "exit"
  /\ cancel' = NoCycle
  /\ done' = done \ {c}
  /\ CycleAt(c, "idle")
  /\ UNCHANGED <<connected, deviceState, ballState, table, ownerVars, managerVars, commandVars>>

-----------------------------------------------------------------------------
ManagerStep(m) == Connect(m) \/ RegisterHandler(m) \/ Forward(m) \/ Seed(m)
ProcessorStep == TakeCommand \/ ResetDetection \/ \E c \in Cycles : SpawnCycle(c)
CycleStep(c) ==
  CycleTop(c) \/ Hold(c) \/ CycleWaits(c) \/ CycleChecks(c) \/ CycleSetsBall(c)
  \/ CycleTells(c) \/ CycleFinishes(c) \/ CycleExits(c)

Next ==
  \/ \E m \in Managers : ManagerStep(m)
  \/ \E w \in Writers : Write(w) \/ Send(w)
  \/ ProcessorStep
  \/ \E c \in Cycles : CycleStep(c)
  \/ Disconnect \/ Disarm

Spec == Init /\ [][Next]_vars

\* The cycles run and the handlers they call return; nothing is assumed of the others.
FairSpec == Spec /\ \A c \in Cycles : WF_vars(CycleStep(c))

-----------------------------------------------------------------------------
\* The two places that call a handler without testing it always find one: whatever
\* sessions come and go under a cycle, the fan-out is in the simulator's table.
HandlerIsThere == \A c \in Cycles : pc[c] \in Tells => "main" \in table

\* engine.go:596, a cycle "re-checks deviceState before every stage": once detection is
\* off, by Disarm, a shot or a disconnect, every cycle ends unless it is armed again.
DetectionStops ==
  deviceState = "idle" ~> deviceState = "detect" \/ \A c \in Cycles : pc[c] = "idle"
=============================================================================
