-------------------------- MODULE BluetoothLinkProofs --------------------------
(***************************************************************************)
(* For any overlapping attempts and disconnects, any handles and any lane: *)
(* BluetoothLink is well typed, the bridge is asked for one GATT operation *)
(* at a time, and no lifecycle event undoes a connected that it precedes.  *)
(*                                                                         *)
(* The invariant of the second is that an attempt inside the bridge is the *)
(* one that gattMu names.  It rests on Disconnect and the binder thread    *)
(* leaving gattMu alone, although they work on the same handle.            *)
(*                                                                         *)
(* That of the third (Barrier) follows the phase events of the attempt     *)
(* under way: the bridge owes none once the attempt has been answered, the *)
(* ones in the lane come before its flush marker (PhasesBefore), and none  *)
(* is there when Flush returns (PhasesGone), because the marker is in the  *)
(* lane exactly while Flush waits for it (Markers).  An attempt that runs  *)
(* alone (Alone) and owns the only open handle (~Leaked) finds no events   *)
(* but its own.                                                            *)
(***************************************************************************)
EXTENDS BluetoothLink, TLAPS

Points == ClientPoints \cup {"begin", "commit", "again"}
Phases == {"free", "opening", "linked", "up", "dropped", "down"}
LaneOK == lane \in Seq({"phase", "lost"} \cup Attempts) /\ Len(lane) <= LaneDepth

GattOwner == \A a \in Attempts : InBridge(a) => gattMu = a

Inv == TypeOK /\ GattOwner

-----------------------------------------------------------------------------
(* What the helpers do.                                                    *)

\* Goto moves one program counter to a point that exists, and no other.
LEMMA GotoMoves ==
  ASSUME TypeOK, NEW t \in Threads, NEW l \in Points, Goto(t, l)
  PROVE  /\ pc' \in [Threads -> Points]
         /\ pc'[t] = l
         /\ \A u \in Threads : u # t => pc'[u] = pc[u]
  BY DEF TypeOK, Goto, Points

\* A thread that moves to a point outside the bridge leaves the owner in place, as
\* long as gattMu stays or the thread had it.
LEMMA OutsideKeepsOwner ==
  ASSUME Inv, NEW t \in Threads, NEW l \in Points, Goto(t, l),
         l \notin {"open", "gatt", "await", "announce", "subop"},
         \/ gattMu' = gattMu
         \/ gattMu = t
  PROVE  GattOwner'
<1>1. pc'[t] = l /\ \A u \in Threads : u # t => pc'[u] = pc[u]
  BY GotoMoves DEF Inv
<1>2. Attempts \subseteq Threads
  BY DEF Threads
<1> QED BY <1>1, <1>2 DEF Inv, GattOwner, InBridge

\* A thread that is in the bridge and stays there.
LEMMA InsideKeepsOwner ==
  ASSUME Inv, NEW t \in Attempts, NEW l \in Points, Goto(t, l), InBridge(t), gattMu' = gattMu
  PROVE  GattOwner'
<1>1. t \in Threads
  BY DEF Threads
<1>2. pc'[t] = l /\ \A u \in Threads : u # t => pc'[u] = pc[u]
  BY <1>1, GotoMoves DEF Inv
<1>3. Attempts \subseteq Threads
  BY DEF Threads
<1> QED BY <1>2, <1>3 DEF Inv, GattOwner, InBridge

\* The slot is taken only when it is free, and then nobody is in the bridge.
LEMMA AcquireKeepsOwner ==
  ASSUME Inv, NEW t \in Attempts, NEW l \in Points, Goto(t, l), gattMu = NoProc, gattMu' = t
  PROVE  GattOwner'
<1>1. t \in Threads /\ Attempts \subseteq Threads /\ NoProc \notin Threads
  BY AndroidClientAssumption DEF Threads
<1>2. \A u \in Threads : u # t => pc'[u] = pc[u]
  BY <1>1, GotoMoves DEF Inv
<1> QED BY <1>1, <1>2 DEF Inv, GattOwner, InBridge

\* Whatever is offered to the lane, it stays within its depth.
LEMMA OfferKeepsLane ==
  ASSUME LaneOK, NEW e \in {"phase", "lost"} \cup Attempts, Offer(e)
  PROVE  LaneOK'
<1>1. LaneDepth \in Nat
  BY AndroidClientAssumption
<1>2. CASE Len(lane) < LaneDepth /\ lane' = Append(lane, e)
  BY <1>1, <1>2 DEF LaneOK
<1>3. CASE lane' = lane
  BY <1>3 DEF LaneOK
<1> QED BY <1>2, <1>3 DEF Offer
-----------------------------------------------------------------------------
(* Every step keeps Inv.                                                   *)

\* An attempt inside Client.Connect.
LEMMA ConnectStable ==
  ASSUME Inv, NEW a \in Attempts, ConnectStep(a), UNCHANGED managerVars
  PROVE  Inv'
<1> USE AndroidClientAssumption
<1>t. a \in Threads
  BY DEF Threads
<1>1. CASE ConnectEnter(a)
  <2>1. TypeOK'
    BY <1>1, <1>t, GotoMoves
    DEF Inv, ConnectEnter, TypeOK, ClientTypeOK, ClientPoints, Points, managerVars,
           clientVars, bridgeVars
  <2>2. GattOwner'
    BY <1>1, <1>t, OutsideKeepsOwner
    DEF Inv, ConnectEnter, TypeOK, ClientTypeOK, ClientPoints, Points, managerVars,
           clientVars, bridgeVars
  <2> QED BY <2>1, <2>2 DEF Inv
<1>2. CASE AcquireGATT(a)
  <2>1. TypeOK'
    BY <1>2, <1>t, GotoMoves
    DEF Inv, AcquireGATT, TypeOK, ClientTypeOK, ClientPoints, Points, managerVars,
           clientVars, bridgeVars
  <2>2. GattOwner'
    BY <1>2, <1>t, OutsideKeepsOwner, AcquireKeepsOwner
    DEF Inv, AcquireGATT, TypeOK, ClientTypeOK, ClientPoints, Points, managerVars,
           clientVars, bridgeVars
  <2> QED BY <2>1, <2>2 DEF Inv
<1>3. CASE OpenFails(a)
  <2>1. TypeOK'
    BY <1>3, <1>t, GotoMoves
    DEF Inv, OpenFails, GivesUp, TypeOK, ClientTypeOK, ClientPoints, Points,
           managerVars, clientVars, bridgeVars
  <2>2. GattOwner'
    BY <1>3, <1>t, OutsideKeepsOwner
    DEF Inv, OpenFails, GivesUp, GattOwner, InBridge, TypeOK, ClientTypeOK,
           ClientPoints, Points, managerVars, clientVars, bridgeVars
  <2> QED BY <2>1, <2>2 DEF Inv
<1>4. CASE Open(a)
  <2>1. TypeOK'
    <3>1. pc' \in [Threads -> Points]
      BY <1>4, <1>t, GotoMoves
      DEF Inv, Open, Points, ClientPoints
    <3>2. Offer("phase")
      BY <1>4 DEF Open, Offer, Inv, TypeOK, ClientTypeOK
    <3>3. LaneOK'
      BY <1>t, <3>2, OfferKeepsLane DEF Inv, TypeOK, ClientTypeOK, LaneOK
    <3>4. ClientTypeOK'
      BY <1>4, <3>3 DEF Inv, Open, TypeOK, ClientTypeOK, LaneOK, bridgeVars
    <3> QED BY <3>1, <3>4 DEF Inv, TypeOK, Points, managerVars
  <2>2. GattOwner'
    BY <1>4, <1>t, InsideKeepsOwner
    DEF Inv, Open, InBridge, TypeOK, ClientTypeOK, ClientPoints, Points, managerVars,
           clientVars, bridgeVars
  <2> QED BY <2>1, <2>2 DEF Inv
<1>5. CASE ConnectGatt(a)
  <2>1. TypeOK'
    BY <1>5, <1>t, GotoMoves
    DEF Inv, ConnectGatt, GivesUp, TypeOK, ClientTypeOK, ClientPoints, Points,
           managerVars, clientVars, bridgeVars
  <2>2. GattOwner'
    BY <1>5, <1>t, InsideKeepsOwner, OutsideKeepsOwner
    DEF Inv, ConnectGatt, GivesUp, GattOwner, InBridge, TypeOK, ClientTypeOK,
           ClientPoints, Points, managerVars, clientVars, bridgeVars
  <2> QED BY <2>1, <2>2 DEF Inv
<1>6. CASE Announce(a)
  <2>1. TypeOK'
    BY <1>6, <1>t, GotoMoves
    DEF Inv, Announce, TypeOK, ClientTypeOK, ClientPoints, Points, managerVars,
           clientVars, bridgeVars
  <2>2. GattOwner'
    BY <1>6, <1>t, OutsideKeepsOwner
    DEF Inv, Announce, GattOwner, InBridge, TypeOK, ClientTypeOK, ClientPoints, Points,
           managerVars, clientVars, bridgeVars
  <2> QED BY <2>1, <2>2 DEF Inv
<1>7. CASE Promote(a)
  <2>1. TypeOK'
    BY <1>7, <1>t, GotoMoves
    DEF Inv, Promote, TypeOK, ClientTypeOK, ClientPoints, Points, managerVars,
           clientVars, bridgeVars
  <2>2. GattOwner'
    BY <1>7, <1>t, OutsideKeepsOwner
    DEF Inv, Promote, TypeOK, ClientTypeOK, ClientPoints, Points, managerVars,
           clientVars, bridgeVars
  <2> QED BY <2>1, <2>2 DEF Inv
<1>8. CASE Cas(a)
  <2>1. TypeOK'
    BY <1>8, <1>t, GotoMoves
    DEF Inv, Cas, TypeOK, ClientTypeOK, ClientPoints, Points, managerVars, clientVars,
           bridgeVars
  <2>2. GattOwner'
    BY <1>8, <1>t, OutsideKeepsOwner
    DEF Inv, Cas, TypeOK, ClientTypeOK, ClientPoints, Points, managerVars, clientVars,
           bridgeVars
  <2> QED BY <2>1, <2>2 DEF Inv
<1>9. CASE Recheck(a)
  <2>1. TypeOK'
    BY <1>9, <1>t, GotoMoves
    DEF Inv, Recheck, TypeOK, ClientTypeOK, ClientPoints, Points, managerVars,
           clientVars, bridgeVars
  <2>2. GattOwner'
    BY <1>9, <1>t, OutsideKeepsOwner
    DEF Inv, Recheck, TypeOK, ClientTypeOK, ClientPoints, Points, managerVars,
           clientVars, bridgeVars
  <2> QED BY <2>1, <2>2 DEF Inv
<1>10. CASE Flush(a)
  <2>1. TypeOK'
    <3>1. pc' \in [Threads -> Points]
      BY <1>10, <1>t, GotoMoves
      DEF Inv, Flush, Points, ClientPoints
    <3>2. Offer(a)
      BY <1>10 DEF Flush, Offer, Inv, TypeOK, ClientTypeOK
    <3>3. LaneOK'
      BY <1>t, <3>2, OfferKeepsLane DEF Inv, TypeOK, ClientTypeOK, LaneOK
    <3>4. ClientTypeOK'
      BY <1>10, <3>3 DEF Inv, Flush, TypeOK, ClientTypeOK, LaneOK, bridgeVars
    <3> QED BY <3>1, <3>4 DEF Inv, TypeOK, Points, managerVars
  <2>2. GattOwner'
    BY <1>10, <1>t, OutsideKeepsOwner
    DEF Inv, Flush, TypeOK, ClientTypeOK, ClientPoints, Points, managerVars, clientVars,
           bridgeVars
  <2> QED BY <2>1, <2>2 DEF Inv
<1>11. CASE FlushTimesOut(a)
  <2>1. TypeOK'
    BY <1>11, <1>t, GotoMoves
    DEF Inv, FlushTimesOut, TypeOK, ClientTypeOK, ClientPoints, Points, managerVars,
           clientVars, bridgeVars
  <2>2. GattOwner'
    BY <1>11, <1>t, OutsideKeepsOwner
    DEF Inv, FlushTimesOut, TypeOK, ClientTypeOK, ClientPoints, Points, managerVars,
           clientVars, bridgeVars
  <2> QED BY <2>1, <2>2 DEF Inv
<1> QED BY <1>1, <1>2, <1>3, <1>4, <1>5, <1>6, <1>7, <1>8, <1>9, <1>10, <1>11 DEF ConnectStep

\* An attempt whose wait in Kotlin ends.
LEMMA AwaitStable ==
  ASSUME Inv, NEW a \in Attempts, AwaitStep(a), UNCHANGED managerVars
  PROVE  Inv'
<1> USE AndroidClientAssumption
<1>t. a \in Threads
  BY DEF Threads
<1>1. CASE AwaitReady(a)
  <2>1. TypeOK'
    BY <1>1, <1>t, GotoMoves
    DEF Inv, AwaitReady, TypeOK, ClientTypeOK, ClientPoints, Points, managerVars,
           clientVars, bridgeVars
  <2>2. GattOwner'
    BY <1>1, <1>t, InsideKeepsOwner
    DEF Inv, AwaitReady, InBridge, TypeOK, ClientTypeOK, ClientPoints, Points,
           managerVars, clientVars, bridgeVars
  <2> QED BY <2>1, <2>2 DEF Inv
<1>2. CASE AwaitFails(a)
  <2>1. TypeOK'
    BY <1>2, <1>t, GotoMoves
    DEF Inv, AwaitFails, GivesUp, TypeOK, ClientTypeOK, ClientPoints, Points,
           managerVars, clientVars, bridgeVars
  <2>2. GattOwner'
    BY <1>2, <1>t, OutsideKeepsOwner
    DEF Inv, AwaitFails, GivesUp, GattOwner, InBridge, TypeOK, ClientTypeOK,
           ClientPoints, Points, managerVars, clientVars, bridgeVars
  <2> QED BY <2>1, <2>2 DEF Inv
<1> QED BY <1>1, <1>2 DEF AwaitStep

\* An attempt inside Client.StartNotifications.
LEMMA SubscribeStable ==
  ASSUME Inv, NEW a \in Attempts, SubscribeStep(a), UNCHANGED managerVars
  PROVE  Inv'
<1> USE AndroidClientAssumption
<1>t. a \in Threads
  BY DEF Threads
<1>1. CASE Subscribe(a)
  <2>1. TypeOK'
    <3>1. pc' \in [Threads -> Points]
      BY <1>1, <1>t, GotoMoves
      DEF Inv, Subscribe, Points, ClientPoints
    <3>2. connected' \in BOOLEAN /\ installed' \in BOOLEAN
      BY <1>1 DEF Inv, Subscribe, TypeOK, ClientTypeOK
    <3>3. ClientTypeOK'
      BY <1>1, <3>2
      DEF Inv, Subscribe, TypeOK, ClientTypeOK, bridgeVars
    <3> QED BY <3>1, <3>3 DEF Inv, TypeOK, Points, managerVars
  <2>2. GattOwner'
    BY <1>1, <1>t, OutsideKeepsOwner
    DEF Inv, Subscribe, TypeOK, ClientTypeOK, ClientPoints, Points, managerVars,
           clientVars, bridgeVars
  <2> QED BY <2>1, <2>2 DEF Inv
<1>2. CASE SubscribeAcquires(a)
  <2>1. TypeOK'
    <3>1. pc' \in [Threads -> Points]
      BY <1>2, <1>t, GotoMoves
      DEF Inv, SubscribeAcquires, Points, ClientPoints
    <3>2. connected' \in BOOLEAN /\ installed' \in BOOLEAN
      BY <1>2 DEF Inv, SubscribeAcquires, TypeOK, ClientTypeOK
    <3>3. ClientTypeOK'
      BY <1>2, <3>2
      DEF Inv, SubscribeAcquires, TypeOK, ClientTypeOK, bridgeVars
    <3> QED BY <3>1, <3>3 DEF Inv, TypeOK, Points, managerVars
  <2>2. GattOwner'
    BY <1>2, <1>t, OutsideKeepsOwner, AcquireKeepsOwner
    DEF Inv, SubscribeAcquires, TypeOK, ClientTypeOK, ClientPoints, Points, managerVars,
           clientVars, bridgeVars
  <2> QED BY <2>1, <2>2 DEF Inv
<1>3. CASE SubscribeWrites(a)
  <2>1. TypeOK'
    <3>1. pc' \in [Threads -> Points]
      BY <1>3, <1>t, GotoMoves
      DEF Inv, SubscribeWrites, Points, ClientPoints
    <3>2. connected' \in BOOLEAN /\ installed' \in BOOLEAN
      BY <1>3 DEF Inv, SubscribeWrites, TypeOK, ClientTypeOK
    <3>3. ClientTypeOK'
      BY <1>3, <3>2
      DEF Inv, SubscribeWrites, TypeOK, ClientTypeOK, bridgeVars
    <3> QED BY <3>1, <3>3 DEF Inv, TypeOK, Points, managerVars
  <2>2. GattOwner'
    BY <1>3, <1>t, OutsideKeepsOwner
    DEF Inv, SubscribeWrites, GattOwner, InBridge, TypeOK, ClientTypeOK, ClientPoints,
           Points, managerVars, clientVars, bridgeVars
  <2> QED BY <2>1, <2>2 DEF Inv
<1> QED BY <1>1, <1>2, <1>3 DEF SubscribeStep

\* A goroutine inside Client.Disconnect; it never touches gattMu.
LEMMA DisconnectStable ==
  ASSUME Inv, NEW c \in Closers, DisconnectStep(c), UNCHANGED managerVars
  PROVE  Inv'
<1> USE AndroidClientAssumption
<1>t. c \in Threads
  BY DEF Threads
<1>1. CASE DisconnectBegins(c)
  <2>1. TypeOK'
    <3>1. pc' \in [Threads -> Points]
      BY <1>1, <1>t, GotoMoves
      DEF Inv, DisconnectBegins, Points, ClientPoints
    <3>2. connected' \in BOOLEAN /\ installed' \in BOOLEAN
      BY <1>1 DEF Inv, DisconnectBegins, TypeOK, ClientTypeOK
    <3>3. ClientTypeOK'
      BY <1>1, <3>2
      DEF Inv, DisconnectBegins, TypeOK, ClientTypeOK, bridgeVars
    <3> QED BY <3>1, <3>3 DEF Inv, TypeOK, Points, managerVars
  <2>2. GattOwner'
    BY <1>1, <1>t, OutsideKeepsOwner
    DEF Inv, DisconnectBegins, TypeOK, ClientTypeOK, ClientPoints, Points, managerVars,
           clientVars, bridgeVars
  <2> QED BY <2>1, <2>2 DEF Inv
<1>2. CASE DisconnectBumps(c)
  <2>1. TypeOK'
    <3>1. pc' \in [Threads -> Points]
      BY <1>2, <1>t, GotoMoves
      DEF Inv, DisconnectBumps, Points, ClientPoints
    <3>2. connected' \in BOOLEAN /\ installed' \in BOOLEAN
      BY <1>2 DEF Inv, DisconnectBumps, TypeOK, ClientTypeOK
    <3>3. ClientTypeOK'
      BY <1>2, <3>2
      DEF Inv, DisconnectBumps, GenMoves, TypeOK, ClientTypeOK, bridgeVars
    <3> QED BY <3>1, <3>3 DEF Inv, TypeOK, Points, managerVars
  <2>2. GattOwner'
    BY <1>2, <1>t, OutsideKeepsOwner
    DEF Inv, DisconnectBumps, GenMoves, TypeOK, ClientTypeOK, ClientPoints, Points,
           managerVars, clientVars, bridgeVars
  <2> QED BY <2>1, <2>2 DEF Inv
<1>3. CASE BridgeDisconnects(c)
  <2>1. TypeOK'
    BY <1>3, <1>t, GotoMoves
    DEF Inv, BridgeDisconnects, FailPending, TypeOK, ClientTypeOK, ClientPoints, Points,
           managerVars, clientVars, bridgeVars
  <2>2. GattOwner'
    BY <1>3, <1>t, OutsideKeepsOwner
    DEF Inv, BridgeDisconnects, FailPending, TypeOK, ClientTypeOK, ClientPoints, Points,
           managerVars, clientVars, bridgeVars
  <2> QED BY <2>1, <2>2 DEF Inv
<1>4. CASE CloseGatt(c)
  <2>1. TypeOK'
    BY <1>4, <1>t, GotoMoves
    DEF Inv, CloseGatt, TypeOK, ClientTypeOK, ClientPoints, Points, managerVars,
           clientVars, bridgeVars
  <2>2. GattOwner'
    BY <1>4, <1>t, OutsideKeepsOwner
    DEF Inv, CloseGatt, TypeOK, ClientTypeOK, ClientPoints, Points, managerVars,
           clientVars, bridgeVars
  <2> QED BY <2>1, <2>2 DEF Inv
<1>5. CASE ClearGatt(c)
  <2>1. TypeOK'
    BY <1>5, <1>t, GotoMoves
    DEF Inv, ClearGatt, TypeOK, ClientTypeOK, ClientPoints, Points, managerVars,
           clientVars, bridgeVars
  <2>2. GattOwner'
    BY <1>5, <1>t, OutsideKeepsOwner
    DEF Inv, ClearGatt, TypeOK, ClientTypeOK, ClientPoints, Points, managerVars,
           clientVars, bridgeVars
  <2> QED BY <2>1, <2>2 DEF Inv
<1>6. CASE DisconnectEnds(c)
  <2>1. TypeOK'
    BY <1>6, <1>t, GotoMoves
    DEF Inv, DisconnectEnds, TypeOK, ClientTypeOK, ClientPoints, Points, managerVars,
           clientVars, bridgeVars
  <2>2. GattOwner'
    BY <1>6, <1>t, OutsideKeepsOwner
    DEF Inv, DisconnectEnds, TypeOK, ClientTypeOK, ClientPoints, Points, managerVars,
           clientVars, bridgeVars
  <2> QED BY <2>1, <2>2 DEF Inv
<1> QED BY <1>1, <1>2, <1>3, <1>4, <1>5, <1>6 DEF DisconnectStep

\* The binder thread, inside its disconnect callback.
LEMMA BinderStable ==
  ASSUME Inv, BinderStep, UNCHANGED managerVars
  PROVE  Inv'
<1> USE AndroidClientAssumption
<1>t. Binder \in Threads
  BY DEF Threads
<1>1. CASE CloseGatt(Binder)
  <2>1. TypeOK'
    BY <1>1, <1>t, GotoMoves
    DEF Inv, CloseGatt, TypeOK, ClientTypeOK, ClientPoints, Points, managerVars,
           clientVars, bridgeVars
  <2>2. GattOwner'
    BY <1>1, <1>t, OutsideKeepsOwner
    DEF Inv, CloseGatt, TypeOK, ClientTypeOK, ClientPoints, Points, managerVars,
           clientVars, bridgeVars
  <2> QED BY <2>1, <2>2 DEF Inv
<1>2. CASE ClearGatt(Binder)
  <2>1. TypeOK'
    BY <1>2, <1>t, GotoMoves
    DEF Inv, ClearGatt, TypeOK, ClientTypeOK, ClientPoints, Points, managerVars,
           clientVars, bridgeVars
  <2>2. GattOwner'
    BY <1>2, <1>t, OutsideKeepsOwner
    DEF Inv, ClearGatt, TypeOK, ClientTypeOK, ClientPoints, Points, managerVars,
           clientVars, bridgeVars
  <2> QED BY <2>1, <2>2 DEF Inv
<1>3. CASE BinderFails
  <2>1. TypeOK'
    BY <1>3, <1>t, GotoMoves
    DEF Inv, BinderFails, FailPending, TypeOK, ClientTypeOK, ClientPoints, Points,
           managerVars, clientVars, bridgeVars
  <2>2. GattOwner'
    BY <1>3, <1>t, OutsideKeepsOwner
    DEF Inv, BinderFails, FailPending, TypeOK, ClientTypeOK, ClientPoints, Points,
           managerVars, clientVars, bridgeVars
  <2> QED BY <2>1, <2>2 DEF Inv
<1>4. CASE BinderReports
  <2>1. TypeOK'
    BY <1>4, <1>t, GotoMoves
    DEF Inv, BinderReports, GenMoves, TypeOK, ClientTypeOK, ClientPoints, Points,
           managerVars, clientVars, bridgeVars
  <2>2. GattOwner'
    BY <1>4, <1>t, OutsideKeepsOwner
    DEF Inv, BinderReports, GenMoves, TypeOK, ClientTypeOK, ClientPoints, Points,
           managerVars, clientVars, bridgeVars
  <2> QED BY <2>1, <2>2 DEF Inv
<1>5. CASE BinderDrops
  <2>1. TypeOK'
    <3>1. pc' \in [Threads -> Points]
      BY <1>5, <1>t, GotoMoves
      DEF Inv, BinderDrops, Points, ClientPoints
    <3>2. LaneOK'
      BY <1>5, OfferKeepsLane DEF Inv, BinderDrops, TypeOK, ClientTypeOK, LaneOK
    <3>3. ClientTypeOK'
      BY <1>5, <3>2 DEF Inv, BinderDrops, TypeOK, ClientTypeOK, LaneOK, bridgeVars
    <3> QED BY <3>1, <3>3 DEF Inv, TypeOK, Points, managerVars
  <2>2. GattOwner'
    BY <1>5, <1>t, OutsideKeepsOwner
    DEF Inv, BinderDrops, TypeOK, ClientTypeOK, ClientPoints, Points, managerVars,
           clientVars, bridgeVars
  <2> QED BY <2>1, <2>2 DEF Inv
<1>6. CASE \E g \in Gatts : StackDisconnects(g)
  <2>1. TypeOK'
    BY <1>6, <1>t, GotoMoves
    DEF Inv, StackDisconnects, TypeOK, ClientTypeOK, ClientPoints, Points, managerVars,
           clientVars, bridgeVars
  <2>2. GattOwner'
    BY <1>6, <1>t, OutsideKeepsOwner
    DEF Inv, StackDisconnects, TypeOK, ClientTypeOK, ClientPoints, Points, managerVars,
           clientVars, bridgeVars
  <2> QED BY <2>1, <2>2 DEF Inv
<1> QED BY <1>1, <1>2, <1>3, <1>4, <1>5, <1>6 DEF BinderStep

\* The stack and the radio move no goroutine.
LEMMA StackStable ==
  ASSUME Inv, StackStep \/ \E g \in Gatts : LinkDrops(g), UNCHANGED managerVars
  PROVE  Inv'
<1> USE AndroidClientAssumption
<1>1. CASE \E g \in Gatts : StackConnects(g)
  <2>1. TypeOK'
    BY <1>1, OfferKeepsLane
    DEF Inv, StackConnects, LaneOK, TypeOK, ClientTypeOK, ClientPoints, Points,
           managerVars, clientVars, bridgeVars
  <2>2. GattOwner'
    BY <1>1
    DEF Inv, StackConnects, GattOwner, InBridge, TypeOK, ClientTypeOK, ClientPoints,
           Points, managerVars, clientVars, bridgeVars
  <2> QED BY <2>1, <2>2 DEF Inv
<1>2. CASE \E g \in Gatts : StackReady(g)
  <2>1. TypeOK'
    BY <1>2
    DEF Inv, StackReady, FailPending, TypeOK, ClientTypeOK, ClientPoints, Points,
           managerVars, clientVars, bridgeVars
  <2>2. GattOwner'
    BY <1>2
    DEF Inv, StackReady, GattOwner, InBridge, TypeOK, ClientTypeOK, ClientPoints,
           Points, managerVars, clientVars, bridgeVars
  <2> QED BY <2>1, <2>2 DEF Inv
<1>3. CASE \E g \in Gatts : LinkDrops(g)
  <2>1. TypeOK'
    BY <1>3
    DEF Inv, LinkDrops, TypeOK, ClientTypeOK, ClientPoints, Points, managerVars,
           clientVars, bridgeVars
  <2>2. GattOwner'
    BY <1>3
    DEF Inv, LinkDrops, GattOwner, InBridge, TypeOK, ClientTypeOK, ClientPoints, Points,
           managerVars, clientVars, bridgeVars
  <2> QED BY <2>1, <2>2 DEF Inv
<1> QED BY <1>1, <1>2, <1>3 DEF StackStep

\* The manager's own steps never touch the bridge.
LEMMA ManagerStable ==
  ASSUME Inv, NEW t \in Attempts \cup Closers, ManagerStep(t)
  PROVE  Inv'
<1> USE AndroidClientAssumption
<1>t. t \in Threads
  BY DEF Threads
<1>1. CASE ConnectDeviceBegins(t)
  <2>1. TypeOK'
    BY <1>1, <1>t, GotoMoves
    DEF Inv, ConnectDeviceBegins, TypeOK, ClientTypeOK, ClientPoints, Points,
           managerVars, clientVars, bridgeVars
  <2>2. GattOwner'
    BY <1>1, <1>t, OutsideKeepsOwner
    DEF Inv, ConnectDeviceBegins, TypeOK, ClientTypeOK, ClientPoints, Points,
           managerVars, clientVars, bridgeVars
  <2> QED BY <2>1, <2>2 DEF Inv
<1>2. CASE EnableNotifications(t)
  <2>1. TypeOK'
    BY <1>2, <1>t, GotoMoves
    DEF Inv, EnableNotifications, TypeOK, ClientTypeOK, ClientPoints, Points,
           managerVars, clientVars, bridgeVars
  <2>2. GattOwner'
    BY <1>2, <1>t, OutsideKeepsOwner
    DEF Inv, EnableNotifications, TypeOK, ClientTypeOK, ClientPoints, Points,
           managerVars, clientVars, bridgeVars
  <2> QED BY <2>1, <2>2 DEF Inv
<1>3. CASE NotificationsEnabled(t)
  <2>1. TypeOK'
    BY <1>3, <1>t, GotoMoves
    DEF Inv, NotificationsEnabled, TypeOK, ClientTypeOK, ClientPoints, Points,
           managerVars, clientVars, bridgeVars
  <2>2. GattOwner'
    BY <1>3, <1>t, OutsideKeepsOwner
    DEF Inv, NotificationsEnabled, TypeOK, ClientTypeOK, ClientPoints, Points,
           managerVars, clientVars, bridgeVars
  <2> QED BY <2>1, <2>2 DEF Inv
<1>4. CASE ReportsConnected(t)
  <2>1. TypeOK'
    BY <1>4, <1>t, GotoMoves
    DEF Inv, ReportsConnected, TypeOK, ClientTypeOK, ClientPoints, Points, managerVars,
           clientVars, bridgeVars
  <2>2. GattOwner'
    BY <1>4, <1>t, OutsideKeepsOwner
    DEF Inv, ReportsConnected, TypeOK, ClientTypeOK, ClientPoints, Points, managerVars,
           clientVars, bridgeVars
  <2> QED BY <2>1, <2>2 DEF Inv
<1>5. CASE ReportsFailure(t)
  <2>1. TypeOK'
    BY <1>5, <1>t, GotoMoves
    DEF Inv, ReportsFailure, TypeOK, ClientTypeOK, ClientPoints, Points, managerVars,
           clientVars, bridgeVars
  <2>2. GattOwner'
    BY <1>5, <1>t, OutsideKeepsOwner
    DEF Inv, ReportsFailure, TypeOK, ClientTypeOK, ClientPoints, Points, managerVars,
           clientVars, bridgeVars
  <2> QED BY <2>1, <2>2 DEF Inv
<1>6. CASE ReportsDisconnected(t)
  <2>1. TypeOK'
    BY <1>6, <1>t, GotoMoves
    DEF Inv, ReportsDisconnected, TypeOK, ClientTypeOK, ClientPoints, Points,
           managerVars, clientVars, bridgeVars
  <2>2. GattOwner'
    BY <1>6, <1>t, OutsideKeepsOwner
    DEF Inv, ReportsDisconnected, TypeOK, ClientTypeOK, ClientPoints, Points,
           managerVars, clientVars, bridgeVars
  <2> QED BY <2>1, <2>2 DEF Inv
<1> QED BY <1>1, <1>2, <1>3, <1>4, <1>5, <1>6 DEF ManagerStep

\* The user's requests.
LEMMA RequestStable ==
  ASSUME Inv,
         \/ \E a \in Attempts : StartBluetoothConnection(a)
         \/ \E c \in Closers : DisconnectBluetooth(c)
         \/ CancelBluetoothConnection
  PROVE  Inv'
<1> USE AndroidClientAssumption
<1>t. \A t \in Attempts \cup Closers : t \in Threads
  BY DEF Threads
<1>1. CASE \E a \in Attempts : StartBluetoothConnection(a)
  <2>1. TypeOK'
    BY <1>1, <1>t, GotoMoves
    DEF Inv, StartBluetoothConnection, Cancel, Cancels, TypeOK, ClientTypeOK,
           ClientPoints, Points, managerVars, clientVars, bridgeVars
  <2>2. GattOwner'
    BY <1>1, <1>t, OutsideKeepsOwner
    DEF Inv, StartBluetoothConnection, Cancel, Cancels, TypeOK, ClientTypeOK,
           ClientPoints, Points, managerVars, clientVars, bridgeVars
  <2> QED BY <2>1, <2>2 DEF Inv
<1>2. CASE \E c \in Closers : DisconnectBluetooth(c)
  <2>1. TypeOK'
    BY <1>2, <1>t, GotoMoves
    DEF Inv, DisconnectBluetooth, Cancel, Cancels, TypeOK, ClientTypeOK, ClientPoints,
           Points, managerVars, clientVars, bridgeVars
  <2>2. GattOwner'
    BY <1>2, <1>t, OutsideKeepsOwner
    DEF Inv, DisconnectBluetooth, Cancel, Cancels, TypeOK, ClientTypeOK, ClientPoints,
           Points, managerVars, clientVars, bridgeVars
  <2> QED BY <2>1, <2>2 DEF Inv
<1>3. CASE CancelBluetoothConnection
  <2>1. TypeOK'
    BY <1>3
    DEF Inv, CancelBluetoothConnection, Cancel, Cancels, cvars, TypeOK, ClientTypeOK,
           ClientPoints, Points, managerVars, clientVars, bridgeVars
  <2>2. GattOwner'
    BY <1>3
    DEF Inv, CancelBluetoothConnection, GattOwner, InBridge, cvars, TypeOK,
           ClientTypeOK, ClientPoints, Points, managerVars, clientVars, bridgeVars
  <2> QED BY <2>1, <2>2 DEF Inv
<1> QED BY <1>1, <1>2, <1>3 DEF Inv

\* The lifecycle goroutine: the only program counter it moves is that of a Connect
\* that waits for its flush marker, which is outside the bridge before and after.
LEMMA LaneStable ==
  ASSUME Inv, LaneDelivers
  PROVE  Inv'
<1> USE AndroidClientAssumption DEF Inv, LaneDelivers, LaneTakes
<1>1. pc' \in [Threads -> Points] /\ \A a \in Attempts : InBridge(a)' => InBridge(a)
  <2>1. CASE pc' = pc
    BY <2>1 DEF TypeOK, Points, InBridge
  <2>2. CASE /\ Head(lane) \in Attempts
             /\ pc' = [pc EXCEPT ![Head(lane)] = "ok"]
    BY <2>2 DEF TypeOK, Points, ClientPoints, InBridge, Threads
  <2> QED BY <2>1, <2>2
<1>2. LaneOK'
  BY DEF TypeOK, ClientTypeOK, LaneOK
<1>3. TypeOK'
  BY <1>1, <1>2 DEF TypeOK, ClientTypeOK, LaneOK, Points, managerVars, bridgeVars
<1>4. GattOwner'
  BY <1>1 DEF GattOwner
<1> QED BY <1>3, <1>4

-----------------------------------------------------------------------------
(* The theorems.                                                           *)

LEMMA InitHolds == Init => Inv
<1> SUFFICES ASSUME Init PROVE Inv
  OBVIOUS
<1> USE AndroidClientAssumption DEF Init, ClientInit
<1>1. pc \in [Threads -> ClientPoints] /\ \A a \in Attempts : pc[a] = "idle"
  BY DEF ClientPoints, Threads
<1>2. lane \in Seq({"phase", "lost"} \cup Attempts) /\ Len(lane) <= LaneDepth
  OBVIOUS
<1>3. connected \in BOOLEAN /\ installed \in BOOLEAN /\ seeded \in BOOLEAN
  OBVIOUS
<1>4. ClientTypeOK
  BY <1>2, <1>3 DEF ClientTypeOK
<1>5. TypeOK
  BY <1>1, <1>3, <1>4 DEF TypeOK
<1>6. GattOwner
  BY <1>1 DEF GattOwner, InBridge
<1> QED BY <1>5, <1>6 DEF Inv

LEMMA NextKeeps ==
  ASSUME Inv, [Next]_vars
  PROVE  Inv'
<1>1. CASE ClientStep /\ UNCHANGED managerVars
  BY <1>1, ConnectStable, AwaitStable, SubscribeStable, DisconnectStable, BinderStable,
     StackStable DEF ClientStep
<1>2. CASE \E t \in Attempts \cup Closers : ManagerStep(t)
  BY <1>2, ManagerStable
<1>3. CASE \/ \E a \in Attempts : StartBluetoothConnection(a)
           \/ \E c \in Closers : DisconnectBluetooth(c)
           \/ CancelBluetoothConnection
  BY <1>3, RequestStable
<1>4. CASE LaneDelivers
  BY <1>4, LaneStable
<1>5. CASE UNCHANGED vars
  BY <1>5 DEF Inv, TypeOK, ClientTypeOK, GattOwner, InBridge, vars, cvars, managerVars,
              clientVars, bridgeVars
<1> QED BY <1>1, <1>2, <1>3, <1>4, <1>5 DEF Next

LEMMA Invariance == Spec => []Inv
<1>1. Inv /\ [Next]_vars => Inv'
  BY NextKeeps
<1> QED BY InitHolds, <1>1, PTL DEF Spec

\* An attempt that is inside the bridge is the owner of gattMu, so two are the same.
LEMMA OwnersAreOne == Inv => OneGattOperation
  BY DEF Inv, GattOwner, OneGattOperation

\* Every variable keeps its type, and the lifecycle lane (client.go:821-856) never
\* exceeds its depth, whatever callbacks and goroutines offer to it.
THEOREM TypeCorrect == Spec => []TypeOK
<1>1. Inv => TypeOK
  BY DEF Inv
<1> QED BY Invariance, <1>1, PTL

\* acquireGATT (client.go:869) serialises Connect and StartNotifications of any number
\* of overlapping attempts, with disconnects and losses of the link at any moment.
THEOREM OneOperation == Spec => []OneGattOperation
  BY Invariance, OwnersAreOne, PTL
-----------------------------------------------------------------------------
(* The ordering barrier of Connect.                                        *)

\* Where an attempt is when its handle has answered, and when its barrier is behind it.
Past == {"ok", "sub", "sublock", "subop", "subok", "commit"}
Settling == {"announce", "promote", "cas", "recheck", "flush", "flushing"} \cup Past

\* No handle still owes its second phase event, and no phase event waits in the lane.
Answered == \A g \in Gatts : link[g] # "opening"
PhasesGone == \A i \in DOMAIN lane : lane[i] # "phase"
PhasesBefore(a) == \A i, j \in DOMAIN lane : lane[i] = a /\ lane[j] = "phase" => j < i

\* A flush marker is in the lane while its Connect waits for it, and once.
Markers ==
  /\ \A a \in Attempts : Queued(a) <=> pc[a] = "flushing"
  /\ \A i, j \in DOMAIN lane : lane[i] \in Attempts /\ lane[i] = lane[j] => i = j

Alone == ~overlap => \A a, b \in Attempts : pc[a] # "idle" /\ pc[b] # "idle" => a = b

\* What holds of an attempt that runs alone while no handle has leaked.
InTurn(a) ==
  /\ pc[a] = "gatt" => gatt = NoGatt /\ future # "done"
  /\ pc[a] = "await" /\ future = "done" => Answered
  /\ pc[a] \in Settling => Answered
  /\ pc[a] = "flushing" => PhasesBefore(a)
  /\ pc[a] \in Past => PhasesGone

Barrier ==
  ~overlap /\ ~Leaked =>
    /\ status = "connected" => Answered /\ PhasesGone /\ \A a \in Attempts : pc[a] = "idle"
    /\ \A a \in Attempts : InTurn(a)

BarrierInv == Alone /\ (~LaneMayStall => Markers /\ Barrier)

Events == {"phase", "lost"} \cup Attempts

LEMMA BarrierInit == Init => BarrierInv
<1> SUFFICES ASSUME Init PROVE BarrierInv
  OBVIOUS
<1>1. \A a \in Attempts : pc[a] = "idle"
  BY DEF Init, ClientInit, Threads
<1> QED BY <1>1 DEF Init, ClientInit, BarrierInv, Alone, Markers, Barrier, InTurn, Queued, Settling, Past

\* Nothing closes a handle that BleBridge.gatt does not name, and nothing adopts it.
LEMMA LeakStays ==
  ASSUME TypeOK, Leaked,
         \/ UNCHANGED <<gatt, link>>
         \/ gatt' \in {gatt, NoGatt} /\ link' = [g \in Gatts |-> IF g = gatt THEN "free" ELSE link[g]]
         \/ gatt' \in {gatt, NoGatt} /\ link' = link
         \/ \E g \in Gatts, x \in Phases \ {"free"} :
              link[g] # "free" /\ gatt' = gatt /\ link' = [link EXCEPT ![g] = x]
         \/ \E g \in Gatts : link[g] = "free" /\ gatt' = g /\ link' = [link EXCEPT ![g] = "opening"]
  PROVE  Leaked'
<1> PICK h \in Gatts : h # gatt /\ link[h] # "free"
  BY DEF Leaked
<1>1. link \in [Gatts -> Phases] /\ h # NoGatt
  BY AndroidClientAssumption DEF TypeOK, ClientTypeOK, Phases
<1>2. h # gatt' /\ link'[h] # "free"
  BY <1>1
<1> QED BY <1>2 DEF Leaked

LEMMA LaneAppends ==
  ASSUME TypeOK, NEW e \in Events, lane' = Append(lane, e)
  PROVE  /\ DOMAIN lane = 1 .. Len(lane) /\ Len(lane) \in Nat
         /\ DOMAIN lane' = 1 .. Len(lane) + 1
         /\ lane'[Len(lane) + 1] = e
         /\ \A i \in 1 .. Len(lane) : lane'[i] = lane[i]
BY DEF TypeOK, ClientTypeOK, Events

LEMMA LaneShifts ==
  ASSUME TypeOK, lane # << >>, lane' = Tail(lane)
  PROVE  /\ DOMAIN lane = 1 .. Len(lane) /\ Len(lane) \in Nat /\ Len(lane) > 0
         /\ DOMAIN lane' = 1 .. Len(lane) - 1
         /\ \A i \in DOMAIN lane' : i + 1 \in DOMAIN lane /\ lane'[i] = lane[i + 1]
         /\ Head(lane) = lane[1] /\ Head(lane) \in Events
BY DEF TypeOK, ClientTypeOK, Events

LEMMA MarkerQueues ==
  ASSUME TypeOK, NEW a \in Attempts, ~Queued(a), lane' = Append(lane, a),
         \A i, j \in DOMAIN lane : lane[i] \in Attempts /\ lane[i] = lane[j] => i = j
  PROVE  /\ \A b \in Attempts : Queued(b)' <=> Queued(b) \/ b = a
         /\ \A i, j \in DOMAIN lane' : lane'[i] \in Attempts /\ lane'[i] = lane'[j] => i = j
         /\ PhasesBefore(a)'
<1> DEFINE n == Len(lane) + 1
<1>1. /\ DOMAIN lane = 1 .. Len(lane) /\ Len(lane) \in Nat
      /\ DOMAIN lane' = 1 .. Len(lane) + 1
      /\ lane'[Len(lane) + 1] = a
      /\ \A i \in 1 .. Len(lane) : lane'[i] = lane[i]
  BY LaneAppends DEF Events
<1>2. \A i \in DOMAIN lane : lane[i] # a
  BY DEF Queued
<1>3. \A i \in DOMAIN lane' : i = n \/ (i \in DOMAIN lane /\ lane'[i] = lane[i] /\ lane'[i] # a)
  BY <1>1, <1>2
<1>4. n \in DOMAIN lane' /\ lane'[n] = a /\ n \notin DOMAIN lane
  BY <1>1
<1>5. ASSUME NEW b \in Attempts PROVE Queued(b)' <=> Queued(b) \/ b = a
  <2>1. Queued(b) => Queued(b)'
    BY <1>1 DEF Queued
  <2>2. b = a => Queued(b)'
    BY <1>4 DEF Queued
  <2>3. ASSUME Queued(b)', b # a PROVE Queued(b)
    <3> PICK i \in DOMAIN lane' : lane'[i] = b
      BY <2>3 DEF Queued
    <3>1. i \in DOMAIN lane /\ lane[i] = b
      BY <1>3, <1>4, <2>3
    <3> QED BY <3>1 DEF Queued
  <2> QED BY <2>1, <2>2, <2>3
<1> HIDE DEF n
<1>6. ASSUME NEW i \in DOMAIN lane', NEW j \in DOMAIN lane', lane'[i] \in Attempts, lane'[i] = lane'[j]
      PROVE  i = j
  BY <1>3, <1>4, <1>6
<1>7. PhasesBefore(a)'
  <2>1. a # "phase"
    BY AndroidClientAssumption
  <2>2. ASSUME NEW i \in DOMAIN lane', NEW j \in DOMAIN lane', lane'[i] = a, lane'[j] = "phase"
        PROVE  j < i
    <3>1. i = n /\ j \in DOMAIN lane
      BY <1>3, <1>4, <2>1, <2>2
    <3> QED BY <3>1, <1>1 DEF n
  <2> QED BY <2>2 DEF PhasesBefore
<1> QED BY <1>5, <1>6, <1>7

\* What the closers, the binder thread and the radio may do beside the attempts.
LEMMA Aside ==
  ASSUME TypeOK, BarrierInv, \A a \in Attempts : pc'[a] = pc[a],
         overlap' = overlap, status' = status \/ status' # "connected",
         Leaked => Leaked',
         gatt' \in {gatt, NoGatt},
         future' = future \/ future' # "done",
         \A g \in Gatts : link'[g] = "opening" => link[g] = "opening",
         lane' = lane \/ lane' = Append(lane, "lost")
  PROVE  BarrierInv'
<1>1. Alone'
  BY DEF BarrierInv, Alone
<1> SUFFICES ASSUME ~LaneMayStall PROVE Markers' /\ Barrier'
  BY <1>1 DEF BarrierInv
<1> USE DEF BarrierInv
<1>2. CASE lane' = lane
  <2>1. Markers'
    BY <1>2 DEF Markers, Queued
  <2>2. Barrier'
    BY <1>2 DEF Barrier, InTurn, Answered, PhasesGone, PhasesBefore, Settling, Past
  <2> QED BY <2>1, <2>2
<1>3. CASE lane' = Append(lane, "lost")
  <2>1. /\ DOMAIN lane = 1 .. Len(lane) /\ Len(lane) \in Nat
        /\ DOMAIN lane' = 1 .. Len(lane) + 1
        /\ lane'[Len(lane) + 1] = "lost"
        /\ \A i \in 1 .. Len(lane) : lane'[i] = lane[i]
        /\ "lost" \notin Attempts /\ "lost" # "phase"
    BY <1>3, LaneAppends, AndroidClientAssumption DEF Events
  <2>2. \A i \in DOMAIN lane' : lane'[i] # "lost" => i \in DOMAIN lane /\ lane'[i] = lane[i]
    BY <2>1
  <2>3. \A a \in Attempts : Queued(a)' <=> Queued(a)
    BY <2>1, <2>2 DEF Queued
  <2>4. Markers'
    BY <2>1, <2>2, <2>3 DEF Markers
  <2>5. (PhasesGone => PhasesGone') /\ (Answered => Answered')
        /\ \A a \in Attempts : PhasesBefore(a) => PhasesBefore(a)'
    BY <2>1, <2>2 DEF PhasesGone, PhasesBefore, Answered
  <2>6. Barrier'
    BY <2>5 DEF Barrier, InTurn, Settling, Past
  <2> QED BY <2>4, <2>6
<1> QED BY <1>2, <1>3

\* An attempt moves on, and neither comes to the barrier nor leaves it.
LEMMA Moves ==
  ASSUME TypeOK, BarrierInv, NEW a \in Attempts, NEW l \in Points, Goto(a, l),
         pc[a] \notin {"idle", "flushing"}, l \notin {"flushing", "gatt", "await"},
         l \in Settling => pc[a] \in Settling,
         l \in Past => pc[a] \in Past,
         UNCHANGED <<gatt, link, lane, overlap>>,
         status' = status \/ status' # "connected",
         future' = future \/ future' # "done"
  PROVE  BarrierInv'
<1>1. pc'[a] = l /\ \A b \in Attempts : b # a => pc'[b] = pc[b]
  BY GotoMoves DEF Threads
<1>2. Alone'
  BY <1>1 DEF BarrierInv, Alone
<1> SUFFICES ASSUME ~LaneMayStall PROVE Markers' /\ Barrier'
  BY <1>2 DEF BarrierInv
<1>3. Markers'
  BY <1>1 DEF BarrierInv, Markers, Queued
<1>4. Barrier'
  <2> SUFFICES ASSUME ~overlap, ~Leaked PROVE Barrier'
    BY DEF Barrier, Leaked
  <2>1. status' # "connected"
    BY DEF BarrierInv, Barrier
  <2>2. ASSUME NEW b \in Attempts PROVE InTurn(b)'
    <3>1. InTurn(b) /\ InTurn(a)
      BY DEF BarrierInv, Barrier
    <3>2. CASE b = a
      BY <3>1, <3>2, <1>1 DEF InTurn, Answered, PhasesGone, Settling, Past
    <3>3. CASE b # a
      BY <3>1, <3>3, <1>1 DEF InTurn, Answered, PhasesGone, PhasesBefore, Settling, Past
    <3> QED BY <3>2, <3>3
  <2> QED BY <2>1, <2>2 DEF Barrier
<1> QED BY <1>3, <1>4
\* An attempt inside Client.Connect.
LEMMA ConnectKeepsBarrier ==
  ASSUME TypeOK, BarrierInv, NEW a \in Attempts, ConnectStep(a), UNCHANGED managerVars
  PROVE  BarrierInv'
<1> USE AndroidClientAssumption DEF clientVars, bridgeVars, managerVars
<1>1. CASE ConnectEnter(a)
  BY <1>1, Moves DEF ConnectEnter, Points, ClientPoints, Settling, Past
<1>2. CASE AcquireGATT(a)
  BY <1>2, Moves DEF AcquireGATT, Points, ClientPoints, Settling, Past
<1>3. CASE OpenFails(a)
  BY <1>3, Moves DEF OpenFails, GivesUp, Points, ClientPoints, Settling, Past
<1>4. CASE Open(a)
  <2> USE <1>4 DEF Open
  <2>1. pc[a] = "open" /\ pc'[a] = "gatt" /\ \A b \in Attempts : b # a => pc'[b] = pc[b]
    BY GotoMoves DEF Threads, Points, ClientPoints
  <2>2. Alone'
    BY <2>1 DEF BarrierInv, Alone
  <2> SUFFICES ASSUME ~LaneMayStall PROVE Markers' /\ Barrier'
    BY <2>2 DEF BarrierInv
  <2>3. lane' = Append(lane, "phase") /\ "phase" \notin Attempts
    BY DEF Offer, TypeOK, ClientTypeOK
  <2>4. /\ DOMAIN lane = 1 .. Len(lane) /\ Len(lane) \in Nat
        /\ DOMAIN lane' = 1 .. Len(lane) + 1
        /\ lane'[Len(lane) + 1] = "phase"
        /\ \A i \in 1 .. Len(lane) : lane'[i] = lane[i]
    BY <2>3, LaneAppends DEF Events
  <2>5. Markers'
    BY <2>1, <2>3, <2>4 DEF BarrierInv, Markers, Queued
  <2>6. Barrier'
    <3> SUFFICES ASSUME ~overlap, ~Leaked' PROVE Barrier'
      BY DEF Barrier
    <3>1. ~Leaked
      BY LeakStays
    <3>2. \A b \in Attempts : b # a => pc[b] = "idle"
      BY <2>1 DEF BarrierInv, Alone
    <3>3. status # "connected"
      BY <2>1, <3>1 DEF BarrierInv, Barrier
    <3>4. gatt' = NoGatt /\ future' = "waiting"
      OBVIOUS
    <3>5. \A b \in Attempts : InTurn(b)'
      BY <2>1, <3>2, <3>4 DEF InTurn, Settling, Past
    <3> QED BY <3>3, <3>5 DEF Barrier
  <2> QED BY <2>5, <2>6
<1>5. CASE ConnectGatt(a)
  <2> USE <1>5 DEF ConnectGatt
  <2>1. CASE GivesUp(a) /\ UNCHANGED <<gatt, link, subscribed>> /\ future' = "none"
    BY <2>1, Moves DEF GivesUp, Points, ClientPoints, Settling, Past
  <2>2. ASSUME NEW g \in Gatts, link[g] = "free", gatt' = g, link' = [link EXCEPT ![g] = "opening"],
               Goto(a, "await"), UNCHANGED future
        PROVE  BarrierInv'
    <3>1. pc[a] = "gatt" /\ pc'[a] = "await" /\ \A b \in Attempts : b # a => pc'[b] = pc[b]
      BY <2>2, GotoMoves DEF Threads, Points, ClientPoints
    <3>2. Alone'
      BY <3>1 DEF BarrierInv, Alone
    <3> SUFFICES ASSUME ~LaneMayStall PROVE Markers' /\ Barrier'
      BY <3>2 DEF BarrierInv
    <3>3. Markers'
      BY <3>1 DEF BarrierInv, Markers, Queued
    <3>4. Barrier'
      <4> SUFFICES ASSUME ~overlap, ~Leaked' PROVE Barrier'
        BY DEF Barrier
      <4>1. ~Leaked
        BY <2>2, LeakStays
      <4>2. \A b \in Attempts : b # a => pc[b] = "idle"
        BY <3>1 DEF BarrierInv, Alone
      <4>3. status # "connected" /\ future # "done"
        BY <3>1, <4>1 DEF BarrierInv, Barrier, InTurn
      <4>4. \A b \in Attempts : InTurn(b)'
        BY <2>2, <3>1, <4>2, <4>3 DEF InTurn, Settling, Past
      <4> QED BY <4>3, <4>4 DEF Barrier
    <3> QED BY <3>3, <3>4
  <2> QED BY <2>1, <2>2
<1>6. CASE Announce(a)
  BY <1>6, Moves DEF Announce, Points, ClientPoints, Settling, Past
<1>7. CASE Promote(a)
  BY <1>7, Moves DEF Promote, Points, ClientPoints, Settling, Past
<1>8. CASE Cas(a)
  BY <1>8, Moves DEF Cas, Points, ClientPoints, Settling, Past
<1>9. CASE Recheck(a)
  BY <1>9, Moves DEF Recheck, Points, ClientPoints, Settling, Past
<1>10. CASE Flush(a)
  <2> USE <1>10 DEF Flush
  <2>1. /\ pc[a] = "flush" /\ pc'[a] \in {"flushing", "ok"}
        /\ \A b \in Attempts : b # a => pc'[b] = pc[b]
        /\ Leaked' <=> Leaked
    <3>1. Goto(a, "flushing") \/ Goto(a, "ok")
      OBVIOUS
    <3>2. pc'[a] \in {"flushing", "ok"} /\ \A b \in Attempts : b # a => pc'[b] = pc[b]
      BY <3>1, GotoMoves DEF Threads, Points, ClientPoints
    <3> QED BY <3>2 DEF Leaked
  <2>2. Alone'
    BY <2>1 DEF BarrierInv, Alone
  <2> SUFFICES ASSUME ~LaneMayStall PROVE Markers' /\ Barrier'
    BY <2>2 DEF BarrierInv
  <2>3. lane' = Append(lane, a) /\ pc'[a] = "flushing" /\ a # "phase"
    <3>1. lane' = Append(lane, a) /\ Goto(a, "flushing")
      OBVIOUS
    <3> QED BY <3>1, GotoMoves DEF Threads, Points, ClientPoints
  <2>4. /\ \A b \in Attempts : Queued(b)' <=> Queued(b) \/ b = a
        /\ \A i, j \in DOMAIN lane' : lane'[i] \in Attempts /\ lane'[i] = lane'[j] => i = j
        /\ PhasesBefore(a)'
    <3>1. ~Queued(a) /\ \A i, j \in DOMAIN lane : lane[i] \in Attempts /\ lane[i] = lane[j] => i = j
      BY <2>1 DEF BarrierInv, Markers
    <3>2. lane' = Append(lane, a)
      BY <2>3
    <3> QED BY <3>1, <3>2, MarkerQueues
  <2>5. Markers'
    BY <2>1, <2>3, <2>4 DEF BarrierInv, Markers
  <2>6. Barrier'
    <3> SUFFICES ASSUME ~overlap, ~Leaked PROVE Barrier'
      BY <2>1 DEF Barrier
    <3>1. \A b \in Attempts : b # a => pc[b] = "idle"
      BY <2>1 DEF BarrierInv, Alone
    <3>2. status # "connected" /\ Answered
      BY <2>1 DEF BarrierInv, Barrier, InTurn, Settling
    <3>3. \A b \in Attempts : InTurn(b)'
      BY <2>1, <2>3, <2>4, <3>1, <3>2 DEF InTurn, Settling, Past, Answered
    <3> QED BY <3>2, <3>3 DEF Barrier
  <2> QED BY <2>5, <2>6
<1>11. CASE FlushTimesOut(a)
  <2>1. LaneMayStall /\ Alone'
    BY <1>11 DEF FlushTimesOut, Goto, TypeOK, Threads, BarrierInv, Alone
  <2> QED BY <2>1 DEF BarrierInv
<1> QED BY <1>1, <1>2, <1>3, <1>4, <1>5, <1>6, <1>7, <1>8, <1>9, <1>10, <1>11 DEF ConnectStep

\* Its wait in Kotlin and its subscription.
LEMMA AttemptKeepsBarrier ==
  ASSUME TypeOK, BarrierInv, NEW a \in Attempts, AwaitStep(a) \/ SubscribeStep(a),
         UNCHANGED managerVars
  PROVE  BarrierInv'
<1> USE AndroidClientAssumption DEF clientVars, bridgeVars, managerVars
<1>1. CASE AwaitReady(a)
  <2> USE <1>1 DEF AwaitReady
  <2>1. /\ pc[a] = "await" /\ pc'[a] = "announce" /\ \A b \in Attempts : b # a => pc'[b] = pc[b]
        /\ Leaked' <=> Leaked
    BY GotoMoves DEF Threads, Points, ClientPoints, Leaked
  <2>2. Alone'
    BY <2>1 DEF BarrierInv, Alone
  <2> SUFFICES ASSUME ~LaneMayStall PROVE Markers' /\ Barrier'
    BY <2>2 DEF BarrierInv
  <2>3. Markers'
    BY <2>1 DEF BarrierInv, Markers, Queued
  <2>4. Barrier'
    <3> SUFFICES ASSUME ~overlap, ~Leaked PROVE Barrier'
      BY <2>1 DEF Barrier
    <3>1. \A b \in Attempts : b # a => pc[b] = "idle"
      BY <2>1 DEF BarrierInv, Alone
    <3>2. status # "connected" /\ Answered
      BY <2>1 DEF BarrierInv, Barrier, InTurn
    <3>3. \A b \in Attempts : InTurn(b)'
      BY <2>1, <3>1, <3>2 DEF InTurn, Settling, Past, Answered
    <3> QED BY <3>2, <3>3 DEF Barrier
  <2> QED BY <2>3, <2>4
<1>2. CASE AwaitFails(a)
  BY <1>2, Moves DEF AwaitFails, GivesUp, Points, ClientPoints, Settling, Past
<1>3. CASE Subscribe(a)
  BY <1>3, Moves DEF Subscribe, Points, ClientPoints, Settling, Past
<1>4. CASE SubscribeAcquires(a)
  BY <1>4, Moves DEF SubscribeAcquires, Points, ClientPoints, Settling, Past
<1>5. CASE SubscribeWrites(a)
  BY <1>5, Moves DEF SubscribeWrites, Points, ClientPoints, Settling, Past
<1> QED BY <1>1, <1>2, <1>3, <1>4, <1>5 DEF AwaitStep, SubscribeStep

\* The stack's two answers for a handle that is opening: the first owes a phase event.
LEMMA StackKeepsBarrier ==
  ASSUME TypeOK, BarrierInv, NEW g \in Gatts, StackConnects(g) \/ StackReady(g), UNCHANGED managerVars
  PROVE  BarrierInv'
<1> USE AndroidClientAssumption DEF clientVars, bridgeVars, managerVars
<1>a. link \in [Gatts -> Phases]
  BY DEF TypeOK, ClientTypeOK, Phases
<1>b. Leaked => Leaked'
  <2>1. gatt' = gatt /\ (link' = link \/ \E x \in Phases \ {"free"} : link' = [link EXCEPT ![g] = x])
        /\ link[g] # "free"
    BY DEF StackConnects, StackReady, Phases
  <2> QED BY <2>1, LeakStays
<1>c. Alone'
  BY DEF StackConnects, StackReady, BarrierInv, Alone
<1> SUFFICES ASSUME ~LaneMayStall PROVE Markers' /\ Barrier'
  BY <1>c DEF BarrierInv
<1>1. CASE StackConnects(g)
  <2> USE <1>1 DEF StackConnects
  <2>1. lane' = Append(lane, "phase") /\ "phase" \notin Attempts
    BY DEF Offer, TypeOK, ClientTypeOK
  <2>2. /\ DOMAIN lane = 1 .. Len(lane) /\ Len(lane) \in Nat
        /\ DOMAIN lane' = 1 .. Len(lane) + 1
        /\ lane'[Len(lane) + 1] = "phase"
        /\ \A i \in 1 .. Len(lane) : lane'[i] = lane[i]
    BY <2>1, LaneAppends DEF Events
  <2>3. Markers'
    BY <2>1, <2>2 DEF BarrierInv, Markers, Queued
  <2>4. Barrier'
    <3> SUFFICES ASSUME ~overlap, ~Leaked PROVE Barrier'
      BY <1>b DEF Barrier
    <3>1. ~Answered /\ (Answered' \/ ~Answered')
      BY DEF Answered
    <3>2. status # "connected" /\ \A a \in Attempts : InTurn(a) /\ pc[a] \notin Settling
      BY <3>1 DEF BarrierInv, Barrier, InTurn
    <3>3. \A a \in Attempts : InTurn(a)'
      BY <3>1, <3>2 DEF InTurn, Settling, Past
    <3> QED BY <3>2, <3>3 DEF Barrier
  <2> QED BY <2>3, <2>4
<1>2. CASE StackReady(g)
  <2> USE <1>2 DEF StackReady, FailPending
  <2>1. Markers'
    BY DEF BarrierInv, Markers, Queued
  <2>2. Barrier'
    <3> SUFFICES ASSUME ~overlap, ~Leaked PROVE Barrier'
      BY <1>b DEF Barrier
    <3>1. Answered => Answered'
      BY <1>a DEF Answered
    <3>2. g = gatt /\ Answered
      BY DEF Leaked, Answered
    <3>3. \A a \in Attempts : InTurn(a)'
      BY <3>1, <3>2 DEF BarrierInv, Barrier, InTurn, PhasesGone, PhasesBefore
    <3> QED BY <3>1, <3>3 DEF BarrierInv, Barrier, PhasesGone
  <2> QED BY <2>1, <2>2
<1> QED BY <1>1, <1>2
\* Disconnect, the binder thread and the radio work beside the attempts.
LEMMA OthersKeepBarrier ==
  ASSUME TypeOK, BarrierInv, UNCHANGED managerVars,
         \/ \E c \in Closers : DisconnectStep(c)
         \/ BinderStep
         \/ \E g \in Gatts : LinkDrops(g)
  PROVE  BarrierInv'
<1> USE AndroidClientAssumption DEF clientVars, bridgeVars, managerVars
<1>a. link \in [Gatts -> Phases]
  BY DEF TypeOK, ClientTypeOK, Phases
<1>b. ASSUME NEW t \in Closers \cup {Binder}, NEW l \in Points, Goto(t, l)
      PROVE  \A a \in Attempts : pc'[a] = pc[a]
  BY <1>b, GotoMoves DEF Threads
<1>1. ASSUME NEW t \in Closers \cup {Binder}, CloseGatt(t) PROVE BarrierInv'
  <2> USE <1>1 DEF CloseGatt
  <2>1. \A a \in Attempts : pc'[a] = pc[a]
    BY <1>b DEF Points, ClientPoints
  <2>2. Leaked => Leaked'
    BY LeakStays
  <2>3. \A g \in Gatts : link'[g] = "opening" => link[g] = "opening"
    BY <1>a
  <2> QED BY <2>1, <2>2, <2>3, Aside
<1>2. ASSUME NEW t \in Closers \cup {Binder}, ClearGatt(t) PROVE BarrierInv'
  <2> USE <1>2 DEF ClearGatt
  <2>1. \A a \in Attempts : pc'[a] = pc[a]
    BY <1>b DEF Points, ClientPoints
  <2>2. Leaked => Leaked'
    BY LeakStays
  <2> QED BY <2>1, <2>2, Aside
<1>3. ASSUME NEW c \in Closers,
             DisconnectBegins(c) \/ DisconnectBumps(c) \/ BridgeDisconnects(c) \/ DisconnectEnds(c)
      PROVE  BarrierInv'
  <2>1. \A a \in Attempts : pc'[a] = pc[a]
    BY <1>3, <1>b DEF DisconnectBegins, DisconnectBumps, BridgeDisconnects, DisconnectEnds, Points, ClientPoints
  <2>2. UNCHANGED <<gatt, link, lane, status, overlap>> /\ (future' = future \/ future' # "done")
    BY <1>3 DEF DisconnectBegins, DisconnectBumps, BridgeDisconnects, DisconnectEnds, FailPending
  <2>3. Leaked => Leaked'
    BY <2>2 DEF Leaked
  <2> QED BY <2>1, <2>2, <2>3, Aside
<1>4. CASE BinderFails \/ BinderReports
  <2>1. \A a \in Attempts : pc'[a] = pc[a]
    BY <1>4, <1>b DEF BinderFails, BinderReports, Points, ClientPoints
  <2>2. UNCHANGED <<gatt, link, lane, status, overlap>> /\ (future' = future \/ future' # "done")
    BY <1>4 DEF BinderFails, BinderReports, FailPending
  <2>3. Leaked => Leaked'
    BY <2>2 DEF Leaked
  <2> QED BY <2>1, <2>2, <2>3, Aside
<1>5. CASE BinderDrops
  <2>1. \A a \in Attempts : pc'[a] = pc[a]
    BY <1>5, <1>b DEF BinderDrops, Points, ClientPoints
  <2>2. UNCHANGED <<gatt, link, future, status, overlap>> /\ (lane' = lane \/ lane' = Append(lane, "lost"))
    BY <1>5 DEF BinderDrops, Offer
  <2>3. Leaked => Leaked'
    BY <2>2 DEF Leaked
  <2> QED BY <2>1, <2>2, <2>3, Aside
<1>6. ASSUME NEW g \in Gatts, StackDisconnects(g) \/ LinkDrops(g) PROVE BarrierInv'
  <2>1. \A a \in Attempts : pc'[a] = pc[a]
    BY <1>6, <1>b DEF StackDisconnects, LinkDrops, Points, ClientPoints
  <2>2. /\ UNCHANGED <<gatt, future, lane, status, overlap>> /\ link[g] # "free"
        /\ \E x \in {"down", "dropped"} : link' = [link EXCEPT ![g] = x]
    BY <1>6 DEF StackDisconnects, LinkDrops
  <2>3. Leaked => Leaked'
    BY <2>2, LeakStays DEF Phases
  <2>4. \A h \in Gatts : link'[h] = "opening" => link[h] = "opening"
    BY <1>a, <2>2
  <2> QED BY <2>1, <2>2, <2>3, <2>4, Aside
<1> QED BY <1>1, <1>2, <1>3, <1>4, <1>5, <1>6 DEF DisconnectStep, BinderStep

\* An attempt that begins when all others are idle finds no marker in the lane.
LEMMA ManagerKeepsBarrier ==
  ASSUME TypeOK, BarrierInv,
         \/ \E t \in Attempts \cup Closers : ManagerStep(t)
         \/ \E a \in Attempts : StartBluetoothConnection(a)
         \/ \E c \in Closers : DisconnectBluetooth(c)
         \/ CancelBluetoothConnection
  PROVE  BarrierInv'
<1> USE AndroidClientAssumption DEF clientVars, bridgeVars, cvars
<1>1. ASSUME NEW a \in Attempts, StartBluetoothConnection(a) PROVE BarrierInv'
  <2> USE <1>1 DEF StartBluetoothConnection
  <2>1. pc[a] = "idle" /\ pc'[a] = "begin" /\ \A b \in Attempts : b # a => pc'[b] = pc[b]
    BY GotoMoves DEF Threads, Points
  <2>2. ~overlap' => \A b \in Attempts : b # a => pc'[b] = "idle"
    BY <2>1
  <2>3. Alone'
    BY <2>2 DEF Alone
  <2>4. Markers => Markers'
    BY <2>1 DEF Markers, Queued
  <2>5. Barrier'
    BY <2>1, <2>2 DEF Barrier, InTurn, Settling, Past
  <2> QED BY <2>3, <2>4, <2>5 DEF BarrierInv
<1>2. ASSUME NEW a \in Attempts, ReportsConnected(a) PROVE BarrierInv'
  <2> USE <1>2 DEF ReportsConnected
  <2>1. /\ pc[a] = "commit" /\ pc'[a] = "idle" /\ \A b \in Attempts : b # a => pc'[b] = pc[b]
        /\ Leaked' <=> Leaked
    BY GotoMoves DEF Threads, Points, ClientPoints, Leaked
  <2>2. Alone'
    BY <2>1 DEF BarrierInv, Alone
  <2> SUFFICES ASSUME ~LaneMayStall PROVE Markers' /\ Barrier'
    BY <2>2 DEF BarrierInv
  <2>3. Markers'
    BY <2>1 DEF BarrierInv, Markers, Queued
  <2>4. Barrier'
    <3> SUFFICES ASSUME ~overlap, ~Leaked PROVE Barrier'
      BY <2>1 DEF Barrier
    <3>1. \A b \in Attempts : pc'[b] = "idle"
      BY <2>1 DEF BarrierInv, Alone
    <3>2. Answered' /\ PhasesGone'
      BY <2>1 DEF BarrierInv, Barrier, InTurn, Settling, Past, Answered, PhasesGone
    <3> QED BY <3>1, <3>2 DEF Barrier, InTurn, Settling, Past
  <2> QED BY <2>3, <2>4
<1>3. ASSUME NEW a \in Attempts,
             ConnectDeviceBegins(a) \/ EnableNotifications(a) \/ NotificationsEnabled(a) \/ ReportsFailure(a)
      PROVE  BarrierInv'
  <2>1. /\ UNCHANGED <<gatt, link, lane, overlap, future>>
        /\ status' = status \/ status' # "connected"
    BY <1>3 DEF ConnectDeviceBegins, EnableNotifications, NotificationsEnabled, ReportsFailure
  <2>2. \E l \in {"enter", "commit", "sub", "idle"} :
          /\ Goto(a, l) /\ pc[a] \notin {"idle", "flushing"}
          /\ l \in Past => pc[a] \in Past
    BY <1>3 DEF ConnectDeviceBegins, EnableNotifications, NotificationsEnabled, ReportsFailure, Past
  <2> QED BY <2>1, <2>2, Moves DEF Points, ClientPoints, Settling, Past
<1>4. ASSUME NEW c \in Closers, ReportsDisconnected(c) \/ DisconnectBluetooth(c) PROVE BarrierInv'
  <2>1. \A a \in Attempts : pc'[a] = pc[a]
    BY <1>4, GotoMoves DEF ReportsDisconnected, DisconnectBluetooth, Threads, Points, ClientPoints
  <2>2. UNCHANGED <<gatt, link, lane, overlap, future>> /\ (status' = status \/ status' # "connected")
    BY <1>4 DEF ReportsDisconnected, DisconnectBluetooth
  <2>3. Leaked => Leaked'
    BY <2>2 DEF Leaked
  <2> QED BY <2>1, <2>2, <2>3, Aside
<1>5. CASE CancelBluetoothConnection
  <2>1. /\ UNCHANGED <<pc, gatt, link, lane, overlap, future>> /\ status' # "connected"
        /\ (Leaked => Leaked')
    BY <1>5 DEF CancelBluetoothConnection, Leaked
  <2> QED BY <2>1, Aside
<1> QED BY <1>1, <1>2, <1>3, <1>4, <1>5 DEF ManagerStep

\* The lane: when the marker leaves it, every phase event has left before.
LEMMA LaneKeepsBarrier ==
  ASSUME TypeOK, BarrierInv, LaneDelivers
  PROVE  BarrierInv'
<1> USE AndroidClientAssumption DEF LaneDelivers, LaneTakes, bridgeVars
<1>1. /\ DOMAIN lane = 1 .. Len(lane) /\ Len(lane) \in Nat /\ Len(lane) > 0
      /\ DOMAIN lane' = 1 .. Len(lane) - 1
      /\ \A i \in DOMAIN lane' : i + 1 \in DOMAIN lane /\ lane'[i] = lane[i + 1]
      /\ Head(lane) = lane[1] /\ Head(lane) \in Events
  BY LaneShifts
<1>2. /\ UNCHANGED <<gatt, link, overlap, future>> /\ (status' = status \/ status' # "connected")
      /\ Leaked' <=> Leaked
  BY DEF Leaked
<1>3. \A a \in Attempts : pc'[a] # pc[a] => a = lane[1] /\ pc[a] = "flushing" /\ pc'[a] = "ok"
  <2>1. CASE pc' = pc
    BY <2>1
  <2>2. CASE Head(lane) \in Attempts /\ pc[Head(lane)] = "flushing" /\ pc' = [pc EXCEPT ![Head(lane)] = "ok"]
    BY <2>2, <1>1 DEF TypeOK, Threads
  <2> QED BY <2>1, <2>2
<1>4. Alone'
  BY <1>2, <1>3 DEF BarrierInv, Alone
<1> SUFFICES ASSUME ~LaneMayStall PROVE Markers' /\ Barrier'
  BY <1>4 DEF BarrierInv
<1>5. \A a \in Attempts : a = lane[1] => pc'[a] = "ok"
  <2> SUFFICES ASSUME NEW a \in Attempts, a = lane[1] PROVE pc'[a] = "ok"
    OBVIOUS
  <2>1. pc[a] = "flushing"
    BY <1>1 DEF BarrierInv, Markers, Queued
  <2>2. pc' = [pc EXCEPT ![a] = "ok"]
    BY <1>1, <2>1
  <2> QED BY <2>2 DEF TypeOK, Threads
<1>6. Markers'
  <2>1. \A a \in Attempts : Queued(a)' <=> Queued(a) /\ a # lane[1]
    <3> SUFFICES ASSUME NEW a \in Attempts PROVE Queued(a)' <=> Queued(a) /\ a # lane[1]
      OBVIOUS
    <3>1. ASSUME Queued(a)' PROVE Queued(a) /\ a # lane[1]
      <4> PICK i \in DOMAIN lane' : lane'[i] = a
        BY <3>1 DEF Queued
      <4>1. i + 1 \in DOMAIN lane /\ lane[i + 1] = a /\ 1 \in DOMAIN lane /\ i + 1 # 1
        BY <1>1
      <4> QED BY <4>1 DEF Queued, BarrierInv, Markers
    <3>2. ASSUME Queued(a), a # lane[1] PROVE Queued(a)'
      <4> PICK i \in DOMAIN lane : lane[i] = a
        BY <3>2 DEF Queued
      <4>1. i # 1 /\ i - 1 \in DOMAIN lane' /\ lane'[i - 1] = lane[i - 1 + 1] /\ i - 1 + 1 = i
        BY <3>2, <1>1
      <4> QED BY <4>1 DEF Queued
    <3> QED BY <3>1, <3>2
  <2>2. ASSUME NEW i \in DOMAIN lane', NEW j \in DOMAIN lane', lane'[i] \in Attempts, lane'[i] = lane'[j]
        PROVE  i = j
    <3>1. i + 1 = j + 1
      BY <2>2, <1>1 DEF BarrierInv, Markers
    <3> QED BY <3>1, <1>1
  <2>3. \A a \in Attempts : Queued(a)' <=> pc'[a] = "flushing"
    BY <2>1, <1>3, <1>5 DEF BarrierInv, Markers
  <2> QED BY <2>2, <2>3 DEF Markers
<1>7. Barrier'
  <2> SUFFICES ASSUME ~overlap, ~Leaked PROVE Barrier'
    BY <1>2 DEF Barrier
  <2>1. (Answered => Answered') /\ (PhasesGone => PhasesGone')
    BY <1>1, <1>2 DEF Answered, PhasesGone
  <2>2. \A a \in Attempts : pc[a] = "flushing" => PhasesBefore(a)
    BY DEF BarrierInv, Barrier, InTurn
  <2>3. status' = "connected" => Answered' /\ PhasesGone' /\ \A a \in Attempts : pc'[a] = "idle"
    BY <1>2, <1>3, <2>1 DEF BarrierInv, Barrier
  <2>4. ASSUME NEW a \in Attempts PROVE InTurn(a)'
    <3>1. InTurn(a)
      BY DEF BarrierInv, Barrier
    <3>2. CASE pc'[a] = pc[a]
      <4>1. PhasesBefore(a) => PhasesBefore(a)'
        BY <1>1 DEF PhasesBefore
      <4> QED BY <3>1, <3>2, <4>1, <1>2, <2>1 DEF InTurn
    <3>3. CASE pc'[a] # pc[a]
      <4>1. a = lane[1] /\ pc[a] = "flushing" /\ pc'[a] = "ok" /\ PhasesBefore(a) /\ Answered
        BY <3>1, <3>3, <1>3 DEF InTurn, Settling
      <4>2. PhasesGone
        BY <4>1, <1>1 DEF PhasesBefore, PhasesGone
      <4> QED BY <4>1, <4>2, <2>1 DEF InTurn, Settling, Past
    <3> QED BY <3>2, <3>3
  <2> QED BY <2>3, <2>4 DEF Barrier
<1> QED BY <1>6, <1>7

LEMMA BarrierStays ==
  ASSUME TypeOK, BarrierInv, [Next]_vars
  PROVE  BarrierInv'
<1>1. CASE ClientStep /\ UNCHANGED managerVars
  BY <1>1, ConnectKeepsBarrier, AttemptKeepsBarrier, StackKeepsBarrier, OthersKeepBarrier
  DEF ClientStep, StackStep
<1>2. CASE UNCHANGED vars
  BY <1>2 DEF vars, cvars, clientVars, bridgeVars, managerVars, BarrierInv, Alone, Markers, Queued, Barrier,
     Leaked, InTurn, Answered, PhasesGone, PhasesBefore
<1> QED BY <1>1, <1>2, ManagerKeepsBarrier, LaneKeepsBarrier DEF Next

\* What is shown of the Bluetooth leg goes from connected to connecting only where the lane
\* stalls, attempts overlap or a handle has leaked (bluetooth_manager.go, client.go:318).
THEOREM ConnectedStays == Spec => ConnectedNotUndone
<1> DEFINE Undone == ~LaneMayStall /\ ~overlap /\ ~Leaked /\ status = "connected" => status' # "connecting"
<1>1. TypeOK /\ BarrierInv /\ [Next]_vars => [Undone]_vars
  <2> SUFFICES ASSUME TypeOK, BarrierInv, Next, ~LaneMayStall, ~overlap, ~Leaked, status = "connected"
               PROVE  status' # "connecting"
    BY DEF vars
  <2>1. PhasesGone /\ \A a \in Attempts : pc[a] = "idle"
    BY DEF BarrierInv, Barrier
  <2>2. CASE LaneDelivers
    <3>1. Head(lane) # "phase"
      BY <2>1, <2>2, LaneShifts DEF LaneDelivers, LaneTakes, PhasesGone
    <3> QED BY <2>2, <3>1 DEF LaneDelivers
  <2>3. CASE UNCHANGED managerVars
    BY <2>3 DEF managerVars
  <2>4. ASSUME NEW t \in Attempts \cup Closers, ManagerStep(t) PROVE status' # "connecting"
    BY <2>1, <2>4 DEF ManagerStep, ConnectDeviceBegins, EnableNotifications, NotificationsEnabled,
       ReportsConnected, ReportsFailure, ReportsDisconnected
  <2>5. CASE \/ \E a \in Attempts : StartBluetoothConnection(a)
             \/ \E c \in Closers : DisconnectBluetooth(c)
             \/ CancelBluetoothConnection
    BY <2>5 DEF StartBluetoothConnection, DisconnectBluetooth, CancelBluetoothConnection
  <2> QED BY <2>2, <2>3, <2>4, <2>5 DEF Next
<1>2. TypeOK /\ BarrierInv /\ [Next]_vars => BarrierInv'
  BY BarrierStays
<1> QED BY TypeCorrect, BarrierInit, <1>1, <1>2, PTL DEF Spec, ConnectedNotUndone
=============================================================================
