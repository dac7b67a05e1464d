--------------------------- MODULE LaunchModesProofs ---------------------------
(***************************************************************************)
(* For any number of pollers: LaunchModes is well typed, no poller is out  *)
(* of reach of stopChargePolling, and the recovery re-arms only an active  *)
(* detection, and only when two idle reports are due to it; and a          *)
(* connected device is polled until it is charged.                         *)
(*                                                                         *)
(* The argument about the recovery is that it keeps detectStateMu: until   *)
(* it is back nobody else changes detectModeActive or the count, and at    *)
(* any other time the count is the number of idle reports (Counted).  The  *)
(* argument about the pollers is that every function that writes           *)
(* chargeCancel cancels the poller it held.  That a device is polled until *)
(* it is charged rests on who may stop the poll: a handler or a poller     *)
(* that has seen a ready answer of this session, which `charged` tells, or *)
(* else the closer and the handler of an earlier session, whose stops are  *)
(* in `stopped` (Stoppers).                                                *)
(***************************************************************************)
EXTENDS LaunchModes, TLAPS

\* The count is what it stands for; the recovery has set it back.
Counted == IF handler = "rearm" THEN omniIdleCount = 0 ELSE idles = omniIdleCount

Inv == TypeOK /\ OnePoller /\ Counted /\ RearmsActiveOnly

-----------------------------------------------------------------------------
LEMMA InitHolds == Init => Inv
<1> SUFFICES ASSUME Init PROVE Inv
  OBVIOUS
<1> USE DEF Init
<1>1. TypeOK
  <2>1. omni \in BOOLEAN /\ detectModeActive \in BOOLEAN /\ capacitorReady \in BOOLEAN
        /\ charged \in BOOLEAN /\ old \in BOOLEAN /\ stopped \in BOOLEAN
    OBVIOUS
  <2>2. omniIdleCount \in 0 .. 1 /\ idles \in 0 .. 2
    OBVIOUS
  <2>3. poller \in [Pollers -> {"none", "send", "wait"}] /\ cancelled \in SUBSET Pollers
    OBVIOUS
  <2> QED BY <2>1, <2>2, <2>3 DEF TypeOK
<1>2. OnePoller
  BY DEF OnePoller, Polling
<1>3. Counted /\ RearmsActiveOnly
  BY DEF Counted, RearmsActiveOnly
<1> QED BY <1>1, <1>2, <1>3 DEF Inv

\* The calls, the notifications and the ends of the recovery: the modes change only
\* while the recovery does not hold the lock.
LEMMA ModesKeep ==
  ASSUME Inv, UserNext \/ Status
  PROVE  Inv' /\ (handler /= "rearm" /\ handler' = "rearm" => idles' = 2)
<1> USE DEF Inv, OnePoller, Polling, Counted, RearmsActiveOnly, chargeVars, historyVars, linkVars, modeVars
<1>1. CASE Calls
  BY <1>1 DEF Calls, TypeOK
<1>2. CASE SendFails
  BY <1>2 DEF SendFails, TypeOK
<1>3. CASE CallEnds
  BY <1>3 DEF CallEnds, SetDetect, DetectMuFree, TypeOK
<1>4. CASE StatusReport
  BY <1>4 DEF StatusReport, TypeOK
<1>5. CASE CountIdle
  BY <1>5 DEF CountIdle, TypeOK
<1>6. CASE RearmEnds
  BY <1>6 DEF RearmEnds, TypeOK
<1> QED BY <1>1, <1>2, <1>3, <1>4, <1>5, <1>6 DEF UserNext, Status

\* The poll: whoever writes chargeCancel has cancelled the poller it held.
LEMMA StopKeeps ==
  ASSUME Inv, StopChargePolling
  PROVE  OnePoller' /\ cancelled' \in SUBSET Pollers /\ chargeCancel' = NoPoller
BY DEF Inv, TypeOK, OnePoller, Polling, StopChargePolling

LEMMA StartKeeps ==
  ASSUME Inv, StartChargePolling
  PROVE  /\ OnePoller'
         /\ cancelled' \in SUBSET Pollers /\ chargeCancel' \in Pollers
         /\ poller' \in [Pollers -> {"none", "send", "wait"}]
BY DEF Inv, TypeOK, OnePoller, Polling, StartChargePolling

LEMMA MoveKeeps ==
  ASSUME Inv, NEW p \in Pollers, NEW from \in {"send", "wait"}, NEW to \in {"none", "send", "wait"},
         PollerMoves(p, from, to)
  PROVE  Inv' /\ UNCHANGED <<handler, idles>>
<1> USE DEF Inv, PollerMoves, historyVars, modeVars, linkVars, threads
<1>1. TypeOK'
  BY DEF TypeOK
<1>2. OnePoller'
  BY DEF TypeOK, OnePoller, Polling
<1>3. Counted' /\ RearmsActiveOnly'
  BY DEF Counted, RearmsActiveOnly
<1> QED BY <1>1, <1>2, <1>3

LEMMA ChargeKeeps ==
  ASSUME Inv, Charge \/ \E p \in Pollers : PollerNext(p)
  PROVE  Inv' /\ (handler /= "rearm" => handler' /= "rearm")
<1> USE DEF Inv, modeVars, linkVars, Counted, RearmsActiveOnly
<1>1. CASE ChargeAnswer
  BY <1>1 DEF ChargeAnswer, TypeOK, OnePoller, Polling
<1>2. CASE ReadyStopsPolling
  <2>1. charged' \in BOOLEAN /\ old' \in BOOLEAN /\ stopped' \in BOOLEAN
    BY <1>2 DEF ReadyStopsPolling, TypeOK
  <2>2. TypeOK'
    BY <1>2, <2>1, StopKeeps DEF ReadyStopsPolling, StopChargePolling, TypeOK
  <2>3. OnePoller' /\ Counted' /\ RearmsActiveOnly' /\ (handler /= "rearm" => handler' /= "rearm")
    BY <1>2, StopKeeps DEF ReadyStopsPolling, StopChargePolling
  <2> QED BY <2>2, <2>3
<1>3. ASSUME NEW p \in Pollers, PollerNext(p) PROVE Inv' /\ (handler /= "rearm" => handler' /= "rearm")
  BY <1>3, MoveKeeps DEF PollerNext, ChargeSent, PollerTicks, PollerStops
<1> QED BY <1>1, <1>2, <1>3 DEF Charge

\* The callbacks of the connection status.
LEMMA CallbacksKeep ==
  ASSUME Inv, Opens \/ LinkLost \/ Closes
  PROVE  Inv' /\ (handler /= "rearm" => handler' /= "rearm")
<1> USE DEF Inv, modeVars, chargeVars, historyVars, linkVars, threads, Counted, RearmsActiveOnly
<1>1. CASE LinkUp
  BY <1>1 DEF LinkUp, TypeOK, OnePoller, Polling
<1>2. CASE ConnectedResets
  <2>1. charged' \in BOOLEAN /\ old' \in BOOLEAN /\ stopped' \in BOOLEAN
    BY <1>2 DEF ConnectedResets, TypeOK
  <2>2. TypeOK'
    BY <1>2, <2>1 DEF ConnectedResets, TypeOK
  <2>3. OnePoller' /\ Counted' /\ RearmsActiveOnly' /\ (handler /= "rearm" => handler' /= "rearm")
    BY <1>2 DEF ConnectedResets, OnePoller, Polling
  <2> QED BY <2>2, <2>3
<1>3. CASE ConnectedStarts
  <2>1. charged' \in BOOLEAN /\ old' \in BOOLEAN /\ stopped' \in BOOLEAN
    BY <1>3 DEF ConnectedStarts, TypeOK
  <2>2. TypeOK'
    BY <1>3, <2>1, StartKeeps DEF ConnectedStarts, TypeOK
  <2>3. OnePoller' /\ Counted' /\ RearmsActiveOnly' /\ (handler /= "rearm" => handler' /= "rearm")
    BY <1>3, StartKeeps DEF ConnectedStarts
  <2> QED BY <2>2, <2>3
<1>4. CASE LinkLost
  BY <1>4 DEF LinkLost, TypeOK, OnePoller, Polling
<1>5. CASE DisconnectBegins
  <2>1. charged' \in BOOLEAN /\ old' \in BOOLEAN /\ stopped' \in BOOLEAN
    BY <1>5 DEF DisconnectBegins, TypeOK
  <2>2. TypeOK'
    BY <1>5, <2>1 DEF DisconnectBegins, TypeOK
  <2>3. OnePoller' /\ Counted' /\ RearmsActiveOnly' /\ (handler /= "rearm" => handler' /= "rearm")
    BY <1>5 DEF DisconnectBegins, OnePoller, Polling
  <2> QED BY <2>2, <2>3
<1>6. CASE DisconnectForgetsType
  <2>1. charged' \in BOOLEAN /\ old' \in BOOLEAN /\ stopped' \in BOOLEAN
    BY <1>6 DEF DisconnectForgetsType, TypeOK
  <2>2. TypeOK'
    BY <1>6, <2>1 DEF DisconnectForgetsType, TypeOK
  <2>3. OnePoller' /\ Counted' /\ RearmsActiveOnly' /\ (handler /= "rearm" => handler' /= "rearm")
    BY <1>6 DEF DisconnectForgetsType, OnePoller, Polling
  <2> QED BY <2>2, <2>3
<1>7. CASE DisconnectResetsDetect
  <2> USE <1>7 DEF DisconnectResetsDetect, SetDetect, DetectMuFree
  <2>1. TypeOK'
    <3>1. detectModeActive' \in BOOLEAN
      OBVIOUS
    <3> QED BY <3>1 DEF TypeOK
  <2>2. OnePoller'
    BY DEF OnePoller, Polling
  <2>3. Counted' /\ RearmsActiveOnly' /\ handler' = handler
    OBVIOUS
  <2> QED BY <2>1, <2>2, <2>3
<1>8. CASE DisconnectResetsCharge
  <2>1. charged' \in BOOLEAN /\ old' \in BOOLEAN /\ stopped' \in BOOLEAN
    BY <1>8 DEF DisconnectResetsCharge, TypeOK
  <2>2. TypeOK'
    BY <1>8, <2>1 DEF DisconnectResetsCharge, TypeOK
  <2>3. OnePoller' /\ Counted' /\ RearmsActiveOnly' /\ (handler /= "rearm" => handler' /= "rearm")
    BY <1>8 DEF DisconnectResetsCharge, OnePoller, Polling
  <2> QED BY <2>2, <2>3
<1>9. CASE DisconnectStops
  <2>1. charged' \in BOOLEAN /\ old' \in BOOLEAN /\ stopped' \in BOOLEAN
    BY <1>9 DEF DisconnectStops, TypeOK
  <2>2. TypeOK'
    BY <1>9, <2>1, StopKeeps DEF DisconnectStops, StopChargePolling, TypeOK
  <2>3. OnePoller' /\ Counted' /\ RearmsActiveOnly' /\ (handler /= "rearm" => handler' /= "rearm")
    BY <1>9, StopKeeps DEF DisconnectStops, StopChargePolling
  <2> QED BY <2>2, <2>3
<1> QED BY <1>1, <1>2, <1>3, <1>4, <1>5, <1>6, <1>7, <1>8, <1>9 DEF Opens, Closes

LEMMA Inductive ==
  Inv /\ [Next]_vars => Inv' /\ (handler /= "rearm" /\ handler' = "rearm" => idles' = 2)
<1> SUFFICES ASSUME Inv, [Next]_vars
             PROVE  Inv' /\ (handler /= "rearm" /\ handler' = "rearm" => idles' = 2)
  OBVIOUS
<1>1. CASE UNCHANGED vars
  BY <1>1 DEF vars, modeVars, chargeVars, historyVars, linkVars, threads,
              Inv, TypeOK, OnePoller, Polling, Counted, RearmsActiveOnly
<1>2. CASE Next
  BY <1>2, ModesKeep, ChargeKeeps, CallbacksKeep DEF Next
<1> QED BY <1>1, <1>2

-----------------------------------------------------------------------------
\* Every variable keeps its type, whatever sessions, calls and reports overlap; in
\* particular the recovery never counts past two idle reports.
THEOREM TypeCorrect == Spec => []TypeOK
<1>1. Inv => TypeOK
  BY DEF Inv
<1>2. Inv /\ [Next]_vars => Inv'
  BY Inductive
<1> QED BY InitHolds, <1>1, <1>2, PTL DEF Spec

\* However often devices connect and old pollers hang in their commands, the one poller
\* that has not been cancelled is the one stopChargePolling reaches.
THEOREM OneLivePoller == Spec => []OnePoller
<1>1. Inv => OnePoller
  BY DEF Inv
<1>2. Inv /\ [Next]_vars => Inv'
  BY Inductive
<1> QED BY InitHolds, <1>1, <1>2, PTL DEF Spec

\* The recovery never sends its command for a detection that has been deactivated or
\* reset by a disconnect: both wait for the lock that it keeps while it sends.
THEOREM ActiveOnly == Spec => []RearmsActiveOnly
<1>1. Inv => RearmsActiveOnly
  BY DEF Inv
<1>2. Inv /\ [Next]_vars => Inv'
  BY Inductive
<1> QED BY InitHolds, <1>1, <1>2, PTL DEF Spec

\* The recovery starts only after two idle reports since the detection was armed or
\* last re-armed, whatever calls and disconnects reset the count between them.
THEOREM DueOnly == Spec => RearmIsDue
<1>1. Inv /\ [Next]_vars => Inv'
  BY Inductive
<1>2. Inv /\ [Next]_vars => [handler /= "rearm" /\ handler' = "rearm" => idles' = 2]_vars
  BY Inductive
<1> QED BY InitHolds, <1>1, <1>2, PTL DEF Spec, RearmIsDue

-----------------------------------------------------------------------------
\* Whoever stops the poll of a connected device has seen that it is charged, but for the
\* closer and for a handler with an old answer.
Stoppers ==
  /\ cancelled \subseteq Polling
  /\ opener /= "reset" /\ link = "up" /\ capacitorReady => charged
  /\ opener /= "reset" /\ link = "up" /\ handler = "charged" => charged \/ old

PollInv == TypeOK /\ Stoppers /\ PolledUntilCharged

LEMMA PollInitHolds == Init => PollInv
<1> SUFFICES ASSUME Init PROVE PollInv
  OBVIOUS
<1>1. TypeOK
  BY InitHolds DEF Inv
<1>2. Stoppers /\ PolledUntilCharged
  BY DEF Init, Stoppers, PolledUntilCharged, Polling
<1> QED BY <1>1, <1>2 DEF PollInv

\* The steps that leave the pollers, their contexts and the link alone.
LEMMA OthersKeepPoll ==
  ASSUME PollInv, UserNext \/ Status \/ ChargeAnswer \/ DisconnectForgetsType
                  \/ DisconnectResetsDetect \/ DisconnectResetsCharge
  PROVE  Stoppers' /\ PolledUntilCharged'
<1> USE DEF PollInv, Stoppers, PolledUntilCharged, Polling, modeVars, chargeVars, historyVars, linkVars
<1>1. CASE UserNext
  BY <1>1 DEF UserNext, Calls, SendFails, CallEnds, SetDetect
<1>2. CASE Status
  <2>1. UNCHANGED <<chargeVars, linkVars, opener, closer>> /\ handler' /= "charged"
    <3>1. CASE StatusReport
      BY <3>1 DEF StatusReport
    <3>2. CASE CountIdle
      BY <3>2 DEF CountIdle
    <3>3. CASE RearmEnds
      BY <3>3 DEF RearmEnds
    <3> QED BY <1>2, <3>1, <3>2, <3>3 DEF Status
  <2> QED BY <2>1
<1>3. CASE ChargeAnswer
  BY <1>3 DEF ChargeAnswer, TypeOK
<1>4. CASE DisconnectForgetsType
  BY <1>4 DEF DisconnectForgetsType
<1>5. CASE DisconnectResetsDetect
  BY <1>5 DEF DisconnectResetsDetect, SetDetect
<1>6. CASE DisconnectResetsCharge
  BY <1>6 DEF DisconnectResetsCharge
<1> QED BY <1>1, <1>2, <1>3, <1>4, <1>5, <1>6

LEMMA StopsKeepPoll ==
  ASSUME PollInv, ReadyStopsPolling \/ DisconnectStops
  PROVE  Stoppers' /\ PolledUntilCharged'
<1> USE DEF PollInv, Stoppers, PolledUntilCharged, Polling, StopChargePolling, modeVars, linkVars
<1>1. CASE ReadyStopsPolling
  BY <1>1 DEF ReadyStopsPolling
<1>2. CASE DisconnectStops
  BY <1>2 DEF DisconnectStops
<1> QED BY <1>1, <1>2

\* A poller ends when it was cancelled, or with the capacitor ready.
LEMMA PollersKeepPoll ==
  ASSUME PollInv, NEW p \in Pollers, PollerNext(p)
  PROVE  Stoppers' /\ PolledUntilCharged'
<1>1. \E from \in {"send", "wait"}, to \in {"none", "send", "wait"} :
        /\ PollerMoves(p, from, to)
        /\ to = "none" => capacitorReady \/ p \in cancelled
  BY DEF PollerNext, ChargeSent, PollerTicks, PollerStops
<1>2. PICK from \in {"send", "wait"}, to \in {"none", "send", "wait"} :
        /\ PollerMoves(p, from, to)
        /\ to = "none" => capacitorReady \/ p \in cancelled
  BY <1>1
<1>3. UNCHANGED <<capacitorReady, historyVars, handler, closer, link, opener>>
  BY <1>2 DEF PollerMoves, linkVars, threads
<1>4. CASE to /= "none"
  <2>1. Polling' = Polling /\ cancelled' = cancelled
    BY <1>2, <1>4 DEF PollerMoves, Polling, PollInv, TypeOK
  <2> QED BY <1>3, <2>1 DEF historyVars, PollInv, Stoppers, PolledUntilCharged
<1>5. CASE to = "none"
  <2>1. Polling' = Polling \ {p} /\ cancelled' = cancelled \ {p}
    BY <1>2, <1>5 DEF PollerMoves, Polling, PollInv, TypeOK
  <2>2. link = "up" /\ opener = "idle" => charged \/ p \in cancelled
    BY <1>2, <1>5 DEF PollInv, Stoppers
  <2> QED BY <1>3, <2>1, <2>2 DEF historyVars, PollInv, Stoppers, PolledUntilCharged
<1> QED BY <1>4, <1>5

LEMMA LinkKeepsPoll ==
  ASSUME PollInv, Opens \/ LinkLost \/ DisconnectBegins
  PROVE  Stoppers' /\ PolledUntilCharged'
<1> USE DEF PollInv, Stoppers, PolledUntilCharged, modeVars, chargeVars, historyVars, linkVars, threads
<1>1. CASE LinkUp
  BY <1>1 DEF LinkUp, Polling
<1>2. CASE ConnectedResets
  BY <1>2 DEF ConnectedResets, Polling
<1>3. CASE ConnectedStarts
  <2>1. PICK p \in Pollers \ Polling :
          /\ poller' = [poller EXCEPT ![p] = "send"]
          /\ cancelled' = cancelled \cup ({chargeCancel} \cap Polling)
    BY <1>3 DEF ConnectedStarts, StartChargePolling
  <2>2. Polling' = Polling \cup {p}
    BY <2>1 DEF Polling, TypeOK
  <2>3. p \in Polling' \ cancelled' /\ cancelled' \subseteq Polling'
    BY <2>1, <2>2
  <2> QED BY <1>3, <2>3 DEF ConnectedStarts
<1>4. CASE LinkLost
  BY <1>4 DEF LinkLost, Polling
<1>5. CASE DisconnectBegins
  BY <1>5 DEF DisconnectBegins, Polling
<1> QED BY <1>1, <1>2, <1>3, <1>4, <1>5 DEF Opens

\* For any number of old pollers, a connected device is polled from the opener's end to its
\* first ready answer, unless the end of the last session's closer, or of the handling of
\* an answer that came before Connected's reset, has stopped the poll.
THEOREM PolledAlways == Spec => []PolledUntilCharged
<1>1. PollInv /\ [Next]_vars => Stoppers' /\ PolledUntilCharged'
  <2> SUFFICES ASSUME PollInv, [Next]_vars PROVE Stoppers' /\ PolledUntilCharged'
    OBVIOUS
  <2>1. CASE UNCHANGED vars
    BY <2>1 DEF vars, modeVars, chargeVars, historyVars, linkVars, threads,
                PollInv, Stoppers, PolledUntilCharged, Polling
  <2>2. CASE Next
    BY <2>2, OthersKeepPoll, StopsKeepPoll, PollersKeepPoll, LinkKeepsPoll DEF Next, Charge, Closes
  <2> QED BY <2>1, <2>2
<1>2. PollInv /\ TypeOK' /\ [Next]_vars => PollInv'
  BY <1>1 DEF PollInv
<1>3. PollInv => PolledUntilCharged
  BY DEF PollInv
<1> QED BY PollInitHolds, TypeCorrect, <1>2, <1>3, PTL DEF Spec
=============================================================================
