------------------------------ MODULE ClubRetry ------------------------------
(***************************************************************************)
(* Club metrics of an Omni (internal/core/launch_monitor.go).  A new shot  *)
(* makes LaunchMonitor ask for its club metrics; an Omni that does not     *)
(* answer within a second is asked once more, and a second later the       *)
(* metrics are written off with an invalid fallback.                       *)
(*                                                                         *)
(* The notification goroutine, the timers (each fires on a goroutine of    *)
(* its own) and the disconnect handler meet at omniClubRetryMu.  A         *)
(* generation is one shot's, so the shot whose generation is current       *)
(* (pending) stands for omniClubRetryGen, and a timer is known by its      *)
(* shot.                                                                   *)
(*                                                                         *)
(* Abstracted: the metrics but for the shot they belong to, the putter     *)
(* filters, the pacing of commands (CommandQueue) and time: a timer may    *)
(* fire at any moment after it is set.                                     *)
(***************************************************************************)
EXTENDS Naturals

CONSTANTS
  MaxShots,     \* bounds the number of shots
  NoShot,
  Invalid       \* the fallback: &ClubMetrics{}

Shots == 1 .. MaxShots

ASSUME ClubRetryAssumption ==
  /\ MaxShots \in Nat
  /\ NoShot \notin Shots /\ Invalid \notin Shots /\ NoShot # Invalid

VARIABLES
  connected,  \* the client's IsConnected
  omni,       \* the device type is Omni; it is unknown between two sessions
  lastBall,   \* the shot of LastBallMetrics, 0 before the first
  lastClub,   \* the shot of LastClubMetrics
  pending,    \* the shot whose generation is omniClubRetryGen
  retried,    \* omniClubRetried
  timer,      \* each shot: its timer, or the timeout handler it started
  retries,    \* each shot: how often a timeout handler asked for its metrics again
  skipped,    \* the shots not asked for again: the handler found no link
  queued,     \* requests handed to SendCommand and not yet written
  owed,       \* each shot: answers that the device may still send
  hpc,        \* the notification goroutine
  profile,    \* and the notification it handles: was the device an Omni then
  got         \* and the shot of the club metrics

linkVars == <<connected, omni>>
retryVars == <<pending, retried, timer, retries, skipped>>
deviceVars == <<queued, owed>>
handlerVars == <<hpc, profile, got>>
vars == <<linkVars, lastBall, lastClub, retryVars, deviceVars, handlerVars>>

TypeOK ==
  /\ connected \in BOOLEAN /\ omni \in BOOLEAN
  /\ lastBall \in 0 .. MaxShots
  /\ lastClub \in Shots \cup {NoShot, Invalid}
  /\ pending \in Shots \cup {NoShot}
  /\ retried \in BOOLEAN
  /\ timer \in [Shots -> {"none", "set", "retry", "resend", "fallback"}]
  /\ retries \in [Shots -> {0, 1}]
  /\ skipped \in SUBSET Shots
  /\ queued \in Nat
  /\ owed \in [Shots -> Nat]
  /\ hpc \in {"idle", "check", "start", "schedule", "send", "sending", "store"}
  /\ profile \in BOOLEAN
  /\ got \in Shots \cup {NoShot}

Init ==
  /\ connected = FALSE /\ omni = FALSE
  /\ lastBall = 0 /\ lastClub = NoShot
  /\ pending = NoShot /\ retried = FALSE
  /\ timer = [s \in Shots |-> "none"]
  /\ retries = [s \in Shots |-> 0]
  /\ skipped = {}
  /\ queued = 0
  /\ owed = [s \in Shots |-> 0]
  /\ hpc = "idle" /\ profile = FALSE /\ got = NoShot

\* SendCommand hands the request to the queue, unless it is full.
Request == queued' \in {queued, queued + 1}
SetTimer(s, p) == timer' = [timer EXCEPT ![s] = p]
\* The generation moves past every timer.
Invalidate == pending' = NoShot /\ retried' = FALSE

-----------------------------------------------------------------------------
(* HandleShotBallMetrics, on the notification goroutine.                   *)

\* A shot the handler has not seen; the device's repeats of it change nothing.
HandleShotBallMetrics ==
  /\ hpc = "idle"
  /\ lastBall < MaxShots
  /\ lastBall' = lastBall + 1
  /\ profile' = omni
  /\ hpc' = "check"
  /\ UNCHANGED <<linkVars, lastClub, retryVars, deviceVars, got>>

ShotChecksLink ==
  /\ hpc = "check"
  /\ hpc' = CASE ~connected           -> "idle"
              [] connected /\ profile -> "start"
              [] OTHER                -> "send"
  /\ UNCHANGED <<linkVars, lastBall, lastClub, retryVars, deviceVars, profile, got>>

\* Mutant: the new request inherits the retry of the last one.
StartKeepsRetried ==
  /\ hpc = "start"
  /\ pending' = lastBall
  /\ retried' = retried
  /\ hpc' = "schedule"
  /\ UNCHANGED <<linkVars, lastBall, lastClub, timer, retries, skipped, deviceVars, profile, got>>

StartOmniClubMetricsRequest ==
  /\ hpc = "start"
  /\ pending' = lastBall
  /\ retried' = FALSE
  /\ hpc' = "schedule"
  /\ UNCHANGED <<linkVars, lastBall, lastClub, timer, retries, skipped, deviceVars, profile, got>>

ShotSetsTimer ==
  /\ hpc = "schedule"
  /\ SetTimer(lastBall, "set")
  /\ hpc' = "send"
  /\ UNCHANGED <<linkVars, lastBall, lastClub, pending, retried, retries, skipped, deviceVars,
                 profile, got>>

ShotRequests ==
  /\ hpc = "send"
  /\ Request
  /\ hpc' = "sending"
  /\ UNCHANGED <<linkVars, lastBall, lastClub, retryVars, owed, profile, got>>

\* SendCommand returns: answered, or after its five seconds.
ShotSent ==
  /\ hpc = "sending"
  /\ hpc' = "idle"
  /\ UNCHANGED <<linkVars, lastBall, lastClub, retryVars, deviceVars, profile, got>>

-----------------------------------------------------------------------------
(* HandleShotClubMetrics, on the notification goroutine.                   *)

\* completeOmniClubMetricsRequest, for whatever shot is pending.
HandleShotClubMetrics(s) ==
  /\ hpc = "idle"
  /\ owed[s] > 0
  /\ owed' = [owed EXCEPT ![s] = @ - 1]
  /\ got' = s
  /\ profile' = omni
  /\ IF omni THEN Invalidate ELSE UNCHANGED <<pending, retried>>
  /\ hpc' = "store"
  /\ UNCHANGED <<linkVars, lastBall, lastClub, timer, retries, skipped, queued>>

ClubStores ==
  /\ hpc = "store"
  /\ lastClub' = got
  /\ got' = NoShot
  /\ hpc' = "idle"
  /\ UNCHANGED <<linkVars, lastBall, retryVars, deviceVars, profile>>

-----------------------------------------------------------------------------
(* handleOmniClubMetricsTimeout, on a timer's goroutine.                   *)

\* Mutant: the retry is not remembered.
TimerForgetsRetry(s) ==
  /\ timer[s] = "set"
  /\ pending = s /\ ~retried
  /\ retried' = FALSE
  /\ SetTimer(s, "retry")
  /\ UNCHANGED <<linkVars, lastBall, lastClub, pending, retries, skipped, deviceVars,
                 handlerVars>>

\* The first timeout.
TimerFires(s) ==
  /\ timer[s] = "set"
  /\ pending = s /\ ~retried
  /\ retried' = TRUE
  /\ SetTimer(s, "retry")
  /\ UNCHANGED <<linkVars, lastBall, lastClub, pending, retries, skipped, deviceVars,
                 handlerVars>>

\* The second timeout.
TimerExpires(s) ==
  /\ timer[s] = "set"
  /\ pending = s /\ retried
  /\ Invalidate
  /\ SetTimer(s, "fallback")
  /\ UNCHANGED <<linkVars, lastBall, lastClub, retries, skipped, deviceVars, handlerVars>>

\* A timer of an earlier generation.
TimerIsStale(s) ==
  /\ timer[s] = "set"
  /\ pending # s
  /\ SetTimer(s, "none")
  /\ UNCHANGED <<linkVars, lastBall, lastClub, pending, retried, retries, skipped, deviceVars,
                 handlerVars>>

\* The timeout handler asks for the metrics of shot s once more.
AskAgain(s) ==
  /\ Request
  /\ retries' = [retries EXCEPT ![s] = @ + 1]
  /\ UNCHANGED skipped
\* Without a link it asks for nothing.
SkipRetry(s) ==
  /\ skipped' = skipped \cup {s}
  /\ UNCHANGED <<queued, retries>>

\* Mutant: without a link the timeout handler waits for one.
RetryWaitsForLink(s) ==
  /\ timer[s] = "retry"
  /\ connected
  /\ AskAgain(s)
  /\ SetTimer(s, "resend")
  /\ UNCHANGED <<linkVars, lastBall, lastClub, pending, retried, owed, handlerVars>>

\* Mutant: without a link the timeout handler gives up.
RetryGivesUp(s) ==
  /\ timer[s] = "retry"
  /\ IF connected THEN AskAgain(s) ELSE SkipRetry(s)
  /\ SetTimer(s, IF connected THEN "resend" ELSE "none")
  /\ UNCHANGED <<linkVars, lastBall, lastClub, pending, retried, owed, handlerVars>>

\* Outside the lock: the request goes out if there is a link.
RetryRequests(s) ==
  /\ timer[s] = "retry"
  /\ IF connected THEN AskAgain(s) ELSE SkipRetry(s)
  /\ SetTimer(s, "resend")
  /\ UNCHANGED <<linkVars, lastBall, lastClub, pending, retried, owed, handlerVars>>

RetrySetsTimer(s) ==
  /\ timer[s] = "resend"
  /\ SetTimer(s, "set")
  /\ UNCHANGED <<linkVars, lastBall, lastClub, pending, retried, retries, skipped, deviceVars,
                 handlerVars>>

\* Outside the lock.
FallbackStores(s) ==
  /\ timer[s] = "fallback"
  /\ lastClub' = Invalid
  /\ SetTimer(s, "none")
  /\ UNCHANGED <<linkVars, lastBall, pending, retried, retries, skipped, deviceVars, handlerVars>>

-----------------------------------------------------------------------------
(* The link, the device and HandleBluetoothDisconnect.                     *)

\* The device answers a request with the metrics of its latest shot.
DeviceTakesRequest ==
  /\ queued > 0 /\ connected /\ lastBall > 0
  /\ queued' = queued - 1
  /\ owed' = [owed EXCEPT ![lastBall] = @ + 1]
  /\ UNCHANGED <<linkVars, lastBall, lastClub, retryVars, handlerVars>>

RequestIsLost ==
  /\ queued > 0
  /\ queued' = queued - 1
  /\ UNCHANGED <<linkVars, lastBall, lastClub, retryVars, owed, handlerVars>>

AnswerIsLost(s) ==
  /\ owed[s] > 0
  /\ owed' = [owed EXCEPT ![s] = @ - 1]
  /\ UNCHANGED <<linkVars, lastBall, lastClub, retryVars, queued, handlerVars>>

LinkDrops ==
  /\ connected
  /\ connected' = FALSE
  /\ UNCHANGED <<omni, lastBall, lastClub, retryVars, deviceVars, handlerVars>>

LinkComesUp ==
  /\ ~connected
  /\ connected' = TRUE
  /\ UNCHANGED <<omni, lastBall, lastClub, retryVars, deviceVars, handlerVars>>

\* connectDevice has read what the device is.
DeviceTypeKnown ==
  /\ connected /\ ~omni
  /\ omni' = TRUE
  /\ UNCHANGED <<connected, lastBall, lastClub, retryVars, deviceVars, handlerVars>>

HandleBluetoothDisconnect ==
  /\ omni' = FALSE
  /\ Invalidate
  /\ UNCHANGED <<connected, lastBall, lastClub, timer, retries, skipped, deviceVars, handlerVars>>

HandlerStep ==
  ShotChecksLink \/ StartOmniClubMetricsRequest \/ ShotSetsTimer \/ ShotRequests
  \/ ShotSent \/ ClubStores
TimerStep(s) ==
  TimerFires(s) \/ TimerExpires(s) \/ TimerIsStale(s)
  \/ RetryRequests(s) \/ RetrySetsTimer(s) \/ FallbackStores(s)

Next ==
  \/ HandleShotBallMetrics \/ HandlerStep
  \/ \E s \in Shots : HandleShotClubMetrics(s) \/ TimerStep(s) \/ AnswerIsLost(s)
  \/ DeviceTakesRequest \/ RequestIsLost
  \/ LinkDrops \/ LinkComesUp \/ DeviceTypeKnown \/ HandleBluetoothDisconnect

Spec == Init /\ [][Next]_vars

\* The goroutines run, SendCommand returns and timers fire; nothing is assumed of
\* the device, the link or the reports of its loss.
FairSpec == Spec /\ WF_vars(HandlerStep) /\ \A s \in Shots : WF_vars(TimerStep(s))

-----------------------------------------------------------------------------
\* A request that is pending always has what will settle it: a timer that is set or
\* about to be.  A timer that meets a newer generation never takes this one's place.
PendingIsTimed ==
  \A s \in Shots :
    pending = s => timer[s] \in {"set", "retry", "resend"} \/ (hpc = "schedule" /\ lastBall = s)

\* The metrics of a shot are written off only after the timeout handler asked for them
\* a second time, or found no link when that was due and so asked for nothing
\* (launch_monitor.go:416), however the timers and requests of successive shots overlap.
FallbackAfterRetry ==
  [][\A s \in Shots :
       timer[s] # "fallback" /\ timer'[s] = "fallback" => retries[s] = 1 \/ s \in skipped]_vars

\* No request is pending for ever: it is answered, overtaken, invalidated or written
\* off, although the device never answers and the link may be down.
PendingIsSettled == \A s \in Shots : pending = s ~> pending # s
=============================================================================
