------------------------ MODULE SimulatorDeviceProofs ------------------------
(***************************************************************************)
(* For any goroutines and any capacity: SimulatorDevice is well typed, and *)
(* no cycle ever calls a handler that is not there.                        *)
(*                                                                         *)
(* The argument is notifyOwner's own: the fan-out for the main             *)
(* characteristic is in the simulator's table before anything that could   *)
(* lead to a cycle can happen (Live), and nothing ever takes it out.       *)
(***************************************************************************)
EXTENDS SimulatorDevice, TLAPS

\* Somebody has got past the write gate, or is about to.
Live ==
  \/ armed \/ seeded # {}
  \/ \E m \in Managers : uuid[m] = "battery" \/ mpc[m] = "seed"
  \/ sending # {} \/ queued > 0 \/ ppc # "take"
  \/ \E c \in Cycles : pc[c] # "idle"

Installed == Live => "main" \in table

Inv == TypeOK /\ Installed

-----------------------------------------------------------------------------
LEMMA InitHolds == Init => Inv
<1> SUFFICES ASSUME Init PROVE Inv
  OBVIOUS
<1> USE SimulatorDeviceAssumption DEF Init
<1>1. TypeOK
  <2>1. connected \in BOOLEAN /\ armed \in BOOLEAN
    OBVIOUS
  <2>2. mpc \in [Managers -> {"idle", "register", "forward", "seed"}] /\ uuid \in [Managers -> Uuids]
    BY DEF Uuids
  <2>3. pc \in [Cycles -> CyclePoints]
    BY DEF CyclePoints
  <2> QED BY <2>1, <2>2, <2>3 DEF TypeOK
<1>2. Installed
  BY DEF Installed, Live
<1> QED BY <1>1, <1>2 DEF Inv

\* Every step of a connecting goroutine.
LEMMA ManagerKeeps ==
  ASSUME Inv, NEW m \in Managers, ManagerStep(m)
  PROVE  Inv'
<1> USE DEF Inv, ownerVars, deviceVars, commandVars, cycleVars, ManagerAt
<1>1. CASE Connect(m)
  <2> USE <1>1 DEF Connect
  <2>1. TypeOK'
    BY DEF TypeOK
  <2>2. Installed'
    BY DEF TypeOK, Installed, Live
  <2> QED BY <2>1, <2>2
<1>2. CASE RegisterHandler(m)
  <2> USE <1>2 DEF RegisterHandler, NextUuid
  <2>1. TypeOK'
    BY DEF TypeOK, Uuids
  <2>2. Installed'
    BY DEF TypeOK, Installed, Live
  <2> QED BY <2>1, <2>2
<1>3. CASE Forward(m)
  <2> USE <1>3 DEF Forward
  <2>1. TypeOK'
    BY DEF TypeOK, Uuids
  <2>2. Installed'
    BY DEF TypeOK, Installed, Live, Uuids
  <2> QED BY <2>1, <2>2
<1>4. CASE Seed(m)
  <2> USE <1>4 DEF Seed, NextUuid
  <2>1. TypeOK'
    BY DEF TypeOK, Uuids
  <2>2. Installed'
    BY DEF TypeOK, Installed, Live
  <2> QED BY <2>1, <2>2
<1> QED BY <1>1, <1>2, <1>3, <1>4 DEF ManagerStep

\* Every step of a writer, of processCommands and of the user.
LEMMA CommandKeeps ==
  ASSUME Inv, ProcessorStep \/ Disconnect \/ Disarm \/ \E w \in Writers : Write(w) \/ Send(w)
  PROVE  Inv'
<1> USE SimulatorDeviceAssumption
    DEF Inv, ownerVars, deviceVars, managerVars, cycleVars, CancelCycle
<1>1. ASSUME NEW w \in Writers, Write(w) PROVE Inv'
  BY <1>1 DEF Write, TypeOK, Installed, Live
<1>2. ASSUME NEW w \in Writers, Send(w) PROVE Inv'
  BY <1>2 DEF Send, TypeOK, Installed, Live
<1>3. CASE TakeCommand
  BY <1>3 DEF TakeCommand, TypeOK, Installed, Live
<1>4. CASE ResetDetection
  BY <1>4 DEF ResetDetection, TypeOK, Installed, Live
<1>5. ASSUME NEW c \in Cycles, SpawnCycle(c) PROVE Inv'
  BY <1>5 DEF SpawnCycle, TypeOK, CyclePoints, Installed, Live
<1>6. CASE Disconnect
  BY <1>6 DEF Disconnect, commandVars, TypeOK, Installed, Live
<1>7. CASE Disarm
  BY <1>7 DEF Disarm, commandVars, TypeOK, Installed, Live
<1> QED BY <1>1, <1>2, <1>3, <1>4, <1>5, <1>6, <1>7 DEF ProcessorStep

\* What a step of a cycle leaves alone, and where it can go.
CycleFrame(c) ==
  /\ UNCHANGED <<connected, table, seeded, armed, mpc, uuid, queued, sending, ppc>>
  /\ cancel' \in {cancel, NoCycle}
  /\ done' \in SUBSET Cycles
  /\ deviceState' \in {"idle", "detect"} /\ ballState' \in {"none", "detected", "ready"}
  /\ pc[c] # "idle"
  /\ \E l \in CyclePoints : pc' = [pc EXCEPT ![c] = l]

LEMMA CycleStepShape ==
  ASSUME Inv, NEW c \in Cycles, CycleStep(c)
  PROVE  CycleFrame(c)
<1> USE DEF Inv, TypeOK, others, ownerVars, managerVars, commandVars, CycleAt
<1>1. ASSUME NEW from \in CyclePoints \ {"idle"}, NEW to \in CyclePoints, Move(c, from, to)
      PROVE  CycleFrame(c)
  BY <1>1 DEF Move, CycleFrame
<1>2. ASSUME NEW from \in CyclePoints \ {"idle"}, NEW to \in CyclePoints,
             NEW b \in {"none", "detected", "ready"}, SetsBall(c, from, b, to)
      PROVE  CycleFrame(c)
  BY <1>2 DEF SetsBall, CycleFrame
<1>3. CASE CycleTop(c) \/ Hold(c)
  BY <1>1, <1>3 DEF CycleTop, Hold, Wait, CyclePoints
<1>4. CASE CycleWaits(c)
  BY <1>1, <1>4 DEF CycleWaits, Wait, CyclePoints
<1>5. CASE CycleChecks(c)
  BY <1>1, <1>5 DEF CycleChecks, Checks, CyclePoints, Tells
<1>6. CASE CycleSetsBall(c)
  BY <1>2, <1>6 DEF CycleSetsBall, CyclePoints, Tells
<1>7. CASE CycleTells(c)
  BY <1>1, <1>7 DEF CycleTells, Tell, CyclePoints, Tells
<1>8. CASE CycleFinishes(c)
  BY <1>8 DEF CycleFinishes, CyclePoints, CycleFrame
<1>9. CASE CycleExits(c)
  BY <1>9 DEF CycleExits, CyclePoints, CycleFrame
<1> QED BY <1>3, <1>4, <1>5, <1>6, <1>7, <1>8, <1>9 DEF CycleStep

LEMMA CycleKeeps ==
  ASSUME Inv, NEW c \in Cycles, CycleStep(c)
  PROVE  Inv'
<1> USE CycleStepShape DEF Inv, CycleFrame
<1>1. TypeOK'
  BY DEF TypeOK
<1>2. Installed'
  BY DEF TypeOK, Installed, Live
<1> QED BY <1>1, <1>2

LEMMA Inductive == Inv /\ [Next]_vars => Inv'
<1> SUFFICES ASSUME Inv, [Next]_vars PROVE Inv'
  OBVIOUS
<1>1. CASE UNCHANGED vars
  BY <1>1 DEF vars, deviceVars, ownerVars, managerVars, commandVars, cycleVars,
              Inv, TypeOK, Installed, Live
<1>2. CASE Next
  BY <1>2, ManagerKeeps, CommandKeeps, CycleKeeps DEF Next
<1> QED BY <1>1, <1>2

-----------------------------------------------------------------------------
\* Every variable keeps its type, whatever connects, disconnects, commands and cycles
\* overlap; in particular commandChan never exceeds its capacity.
THEOREM TypeCorrect == Spec => []TypeOK
<1>1. Inv => TypeOK
  BY DEF Inv
<1> QED BY InitHolds, Inductive, <1>1, PTL DEF Spec

\* The handler that simulateBallDetection calls without a test for nil is always there:
\* notifyOwner's write gate and its permanent fan-out are enough.
THEOREM NoNilHandler == Spec => []HandlerIsThere
<1>1. Inv => HandlerIsThere
  BY DEF Inv, Installed, Live, HandlerIsThere, Tells
<1> QED BY InitHolds, Inductive, <1>1, PTL DEF Spec
=============================================================================
