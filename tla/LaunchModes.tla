------------------------------ MODULE LaunchModes ------------------------------
(***************************************************************************)
(* The modes LaunchMonitor keeps while a device is connected               *)
(* (internal/core/launch_monitor.go): ball detection, with the recovery    *)
(* that re-arms an Omni which reports idle twice, and the poll for the     *)
(* charge of its capacitor.                                                *)
(*                                                                         *)
(* The goroutines: a caller of ActivateBallDetection or                    *)
(* DeactivateBallDetection (user), the notification handler (handler), the *)
(* callback of a connection (opener), the callback of a disconnect         *)
(* (closer), and the pollers, of which an old one may still wait for its   *)
(* command when the next is started.                                       *)
(*                                                                         *)
(* Abstracted: time; SendCommand (CommandQueue) is a step that succeeds    *)
(* while the link is up and may always fail.  Bounds: one call at a time,  *)
(* and the closer of one loss at a time.                                   *)
(***************************************************************************)
EXTENDS Naturals

CONSTANTS Pollers, NoPoller

ASSUME NoPollerAssumption == NoPoller \notin Pollers

VARIABLES
  link,       \* "down", "up", or "lost" until the loss is reported
  omni,       \* the device type is Omni
  detectModeActive, omniIdleCount,
  capacitorReady,
  chargeCancel,  \* the poller whose cancel function the field holds
  poller,     \* where each poller's goroutine is
  cancelled,  \* the pollers whose context is cancelled
  user, handler, opener, closer,
  idles,      \* history: idle reports in a row since the last (re-)arming
  charged,    \* history: a ready answer came since Connected's reset
  old,        \* history: the handler's ready answer came before that reset
  stopped     \* history: the session's poll was stopped, once it ran, by the
              \* closer of the last session or by such an old answer

modeVars == <<detectModeActive, omniIdleCount, idles>>
historyVars == <<charged, old, stopped>>
chargeVars == <<capacitorReady, chargeCancel, poller, cancelled, historyVars>>
linkVars == <<link, omni>>
threads == <<user, handler, opener, closer>>
vars == <<modeVars, chargeVars, linkVars, threads>>

TypeOK ==
  /\ link \in {"down", "up", "lost"}
  /\ omni \in BOOLEAN
  /\ detectModeActive \in BOOLEAN
  /\ omniIdleCount \in 0 .. 1
  /\ capacitorReady \in BOOLEAN
  /\ chargeCancel \in Pollers \cup {NoPoller}
  /\ poller \in [Pollers -> {"none", "send", "wait"}]
  /\ cancelled \in SUBSET Pollers
  /\ user \in {"idle", "activate", "deactivate"}
  /\ handler \in {"idle", "sawIdle", "sawOther", "rearm", "charged"}
  /\ opener \in {"idle", "reset", "start"}
  /\ closer \in {"idle", "type", "detect", "charge", "stop"}
  /\ idles \in 0 .. 2
  /\ charged \in BOOLEAN /\ old \in BOOLEAN /\ stopped \in BOOLEAN

Init ==
  /\ link = "down"
  /\ omni = FALSE
  /\ detectModeActive = FALSE
  /\ omniIdleCount = 0
  /\ capacitorReady = FALSE
  /\ chargeCancel = NoPoller
  /\ poller = [p \in Pollers |-> "none"]
  /\ cancelled = {}
  /\ user = "idle" /\ handler = "idle" /\ opener = "idle" /\ closer = "idle"
  /\ idles = 0
  /\ charged = FALSE /\ old = FALSE /\ stopped = FALSE

\* The recovery keeps detectStateMu from its decision until SendCommand is
\* back; every other section that takes it is one step.
DetectMuFree == handler /= "rearm"

SetDetect(active) ==
  /\ detectModeActive' = active
  /\ omniIdleCount' = 0
  /\ idles' = 0

----------------------------------------------------------------------------
\* The caller: it sends the club and the detect command, or the detect
\* command alone, and then sets the field.

Calls ==
  /\ link = "up" /\ user = "idle"
  /\ user' \in {"activate", "deactivate"}
  /\ UNCHANGED <<modeVars, chargeVars, linkVars, handler, opener, closer>>

SendFails ==
  /\ user /= "idle"
  /\ user' = "idle"
  /\ UNCHANGED <<modeVars, chargeVars, linkVars, handler, opener, closer>>

\* As if the idle count survived the call.
CallEndsKeepingCount ==
  /\ user /= "idle"
  /\ DetectMuFree
  /\ detectModeActive' = (user = "activate")
  /\ idles' = 0
  /\ user' = "idle"
  /\ UNCHANGED <<omniIdleCount, chargeVars, linkVars, handler, opener, closer>>

\* As if the field were set without the lock.
CallEndsUnlocked ==
  /\ user /= "idle"
  /\ SetDetect(user = "activate")
  /\ user' = "idle"
  /\ UNCHANGED <<chargeVars, linkVars, handler, opener, closer>>

\* Both commands are written; the link may be lost since.
CallEnds ==
  /\ user /= "idle"
  /\ DetectMuFree
  /\ SetDetect(user = "activate")
  /\ user' = "idle"
  /\ UNCHANGED <<chargeVars, linkVars, handler, opener, closer>>

----------------------------------------------------------------------------
\* Status reports, and handleOmniStatusRecovery

StatusReport ==
  /\ link = "up" /\ handler = "idle"
  /\ omni
  /\ handler' \in {"sawIdle", "sawOther"}
  /\ UNCHANGED <<modeVars, chargeVars, linkVars, user, opener, closer>>

CountIdle ==
  /\ handler \in {"sawIdle", "sawOther"}
  /\ LET idle == detectModeActive /\ handler = "sawIdle"
         due == idle /\ omniIdleCount = 1
     IN /\ omniIdleCount' = IF idle /\ ~due THEN 1 ELSE 0
        /\ idles' = IF idle THEN idles + 1 ELSE 0
        /\ handler' = IF due THEN "rearm" ELSE "idle"
  /\ UNCHANGED <<detectModeActive, chargeVars, linkVars, user, opener, closer>>

\* As if SendCommand had no timeout of its own.
RearmEndsIfSent ==
  /\ link = "up" /\ handler = "rearm"
  /\ handler' = "idle"
  /\ idles' = 0
  /\ UNCHANGED <<detectModeActive, omniIdleCount, chargeVars, linkVars, user, opener, closer>>

\* The detect command is written, the link is gone, or SendCommand gives up.
RearmEnds ==
  /\ handler = "rearm"
  /\ handler' = "idle"
  /\ idles' = 0
  /\ UNCHANGED <<detectModeActive, omniIdleCount, chargeVars, linkVars, user, opener, closer>>

----------------------------------------------------------------------------
\* The charge of the capacitor

\* A goroutine that has ended leaves its name, and its context, behind.
Polling == {p \in Pollers : poller[p] /= "none"}

StopChargePolling ==
  /\ cancelled' = cancelled \cup ({chargeCancel} \cap Polling)
  /\ chargeCancel' = NoPoller
  /\ UNCHANGED poller

\* As if the old poller were not cancelled.
StartChargePollingAgain ==
  \E p \in Pollers \ Polling :
    /\ poller' = [poller EXCEPT ![p] = "send"]
    /\ chargeCancel' = p
    /\ UNCHANGED cancelled

StartChargePolling ==
  \E p \in Pollers \ Polling :
    /\ poller' = [poller EXCEPT ![p] = "send"]
    /\ chargeCancel' = p
    /\ cancelled' = cancelled \cup ({chargeCancel} \cap Polling)

\* As if any answer stopped the poll.
ChargeAnswerStops ==
  /\ link = "up" /\ handler = "idle"
  /\ \E ready \in BOOLEAN :
       /\ capacitorReady' = ready
       /\ handler' = "charged"
       /\ charged' = (charged \/ ready)
  /\ UNCHANGED <<modeVars, chargeCancel, poller, cancelled, old, stopped, linkVars, user, opener,
                 closer>>

ChargeAnswer ==
  /\ link = "up" /\ handler = "idle"
  /\ \E ready \in BOOLEAN :
       /\ capacitorReady' = ready
       /\ handler' = IF ready THEN "charged" ELSE "idle"
       /\ charged' = (charged \/ ready)
  /\ UNCHANGED <<modeVars, chargeCancel, poller, cancelled, old, stopped, linkVars, user, opener,
                 closer>>

ReadyStopsPolling ==
  /\ handler = "charged"
  /\ handler' = "idle"
  /\ StopChargePolling
  /\ old' = FALSE
  /\ stopped' = (stopped \/ (old /\ opener = "idle"))
  /\ UNCHANGED <<modeVars, capacitorReady, charged, linkVars, user, opener, closer>>

PollerMoves(p, from, to) ==
  /\ poller[p] = from
  /\ poller' = [poller EXCEPT ![p] = to]
  /\ cancelled' = IF to = "none" THEN cancelled \ {p} ELSE cancelled
  /\ UNCHANGED <<modeVars, capacitorReady, chargeCancel, historyVars, linkVars, threads>>

\* sendChargeCommand is back: answered, failed, or not tried without a link.
ChargeSent(p) == PollerMoves(p, "send", "wait")
\* With the context done and the tick there, select takes either.
PollerTicks(p) == PollerMoves(p, "wait", IF capacitorReady THEN "none" ELSE "send")
PollerStops(p) == p \in cancelled /\ PollerMoves(p, "wait", "none")

----------------------------------------------------------------------------
\* The callbacks of the connection status

LinkUp ==
  /\ link = "down" /\ opener = "idle"
  /\ link' = "up"
  /\ omni' \in BOOLEAN
  /\ opener' = "reset"
  /\ UNCHANGED <<modeVars, chargeVars, user, handler, closer>>

ConnectedResets ==
  /\ opener = "reset"
  /\ capacitorReady' = FALSE
  /\ charged' = FALSE
  /\ old' = (handler = "charged")
  /\ opener' = "start"
  /\ UNCHANGED <<modeVars, chargeCancel, poller, cancelled, stopped, linkVars, user, handler, closer>>

ConnectedStarts ==
  /\ opener = "start"
  /\ StartChargePolling
  /\ stopped' = FALSE
  /\ opener' = "idle"
  /\ UNCHANGED <<modeVars, capacitorReady, charged, old, linkVars, user, handler, closer>>

LinkLost ==
  /\ link = "up"
  /\ link' = "lost"
  /\ UNCHANGED <<modeVars, chargeVars, omni, threads>>

\* HandleBluetoothDisconnect, section by section
DisconnectBegins ==
  /\ link = "lost" /\ closer = "idle"
  /\ link' = "down"
  /\ closer' = "type"
  /\ UNCHANGED <<modeVars, chargeVars, omni, user, handler, opener>>

DisconnectForgetsType ==
  /\ closer = "type"
  /\ omni' = FALSE
  /\ closer' = "detect"
  /\ UNCHANGED <<modeVars, chargeVars, link, user, handler, opener>>

DisconnectResetsDetect ==
  /\ closer = "detect"
  /\ DetectMuFree
  /\ SetDetect(FALSE)
  /\ closer' = "charge"
  /\ UNCHANGED <<chargeVars, linkVars, user, handler, opener>>

DisconnectResetsCharge ==
  /\ closer = "charge"
  /\ capacitorReady' = FALSE
  /\ closer' = "stop"
  /\ UNCHANGED <<modeVars, chargeCancel, poller, cancelled, historyVars, linkVars, user, handler,
                 opener>>

DisconnectStops ==
  /\ closer = "stop"
  /\ StopChargePolling
  /\ stopped' = (stopped \/ opener = "idle")
  /\ closer' = "idle"
  /\ UNCHANGED <<modeVars, capacitorReady, charged, old, linkVars, user, handler, opener>>

----------------------------------------------------------------------------
UserNext == Calls \/ SendFails \/ CallEnds
Status == StatusReport \/ CountIdle \/ RearmEnds
Charge == ChargeAnswer \/ ReadyStopsPolling
PollerNext(p) == ChargeSent(p) \/ PollerTicks(p) \/ PollerStops(p)
Opens == LinkUp \/ ConnectedResets \/ ConnectedStarts
Closes ==
  \/ DisconnectBegins \/ DisconnectForgetsType \/ DisconnectResetsDetect
  \/ DisconnectResetsCharge \/ DisconnectStops

Next ==
  \/ UserNext \/ Status \/ Charge \/ Opens \/ LinkLost \/ Closes
  \/ \E p \in Pollers : PollerNext(p)

Spec == Init /\ [][Next]_vars

\* The recovery and the disconnect callback run on; SendCommand returns within
\* its two waits, and a section that wants detectStateMu gets it in the end
\* (sync.Mutex starves nobody).
FairSpec ==
  /\ Spec
  /\ WF_vars(RearmEnds)
  /\ WF_vars(DisconnectForgetsType) /\ SF_vars(DisconnectResetsDetect)
  /\ WF_vars(DisconnectResetsCharge) /\ WF_vars(DisconnectStops)

----------------------------------------------------------------------------
\* A goroutine that polls without having been cancelled is the one the field
\* can cancel: no poller is out of reach of stopChargePolling.
OnePoller == Polling \ cancelled \subseteq {chargeCancel}

\* Once the opener has started its poll, a connected device that has given no
\* ready answer since Connected's reset is being polled, whatever pollers,
\* handlers and closers are left over from earlier sessions.  Two steps of the
\* last session are excepted, because the code lets them stop this session's
\* poll: the end of its closer (launch_monitor.go:1112), and of the handling of
\* a ready answer that came before the reset (1021).  Neither does any harm
\* when it falls between the reset and the start (891-892).
PolledUntilCharged ==
  link = "up" /\ opener = "idle" /\ ~charged /\ ~stopped => Polling \ cancelled /= {}

\* While the recovery sends its command the detection is active: it does not
\* re-arm a device whose deactivation or disconnect has been recorded.
RearmsActiveOnly == handler = "rearm" => detectModeActive

\* The recovery starts only after two idle reports that both came after the
\* detection was armed or last re-armed.
RearmIsDue == [][handler /= "rearm" /\ handler' = "rearm" => idles' = 2]_vars

\* The callback of a disconnect finishes, although the recovery may hold the
\* lock it needs while a command waits for a device that is gone.
DisconnectCompletes == closer /= "idle" ~> closer = "idle"
=============================================================================
