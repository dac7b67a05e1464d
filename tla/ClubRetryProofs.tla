---------------------------- MODULE ClubRetryProofs ----------------------------
(***************************************************************************)
(* For any number of shots: ClubRetry is well typed, a pending request has *)
(* a timer, and no shot is written off before it was asked for again or    *)
(* the link was found down when that was due.                              *)
(*                                                                         *)
(* The invariant ties the one flag omniClubRetried to the generation it    *)
(* was set for: the handler that set it is still to ask, has asked, or has *)
(* found no link (Counted).  A shot has neither timer nor retry before its *)
(* request has been started (Unstarted).                                   *)
(***************************************************************************)
EXTENDS ClubRetry, TLAPS

Unstarted == \A s \in Shots :
  s > lastBall \/ (s = lastBall /\ hpc \in {"check", "start", "schedule"})
    => timer[s] = "none" /\ retries[s] = 0

Known ==
  /\ hpc \in {"check", "start", "schedule"} => lastBall \in Shots
  /\ pending # NoShot => pending <= lastBall
  /\ hpc \in {"check", "start"} => pending # lastBall

Counted ==
  /\ pending = NoShot => ~retried
  /\ \A s \in Shots :
       /\ timer[s] = "retry" => retries[s] = 0
       /\ pending = s =>
            IF retried THEN timer[s] = "retry" \/ retries[s] = 1 \/ s \in skipped
                       ELSE timer[s] # "retry" /\ retries[s] = 0

Inv == TypeOK /\ Unstarted /\ Known /\ PendingIsTimed /\ Counted

-----------------------------------------------------------------------------
LEMMA InitHolds == Init => Inv
<1> SUFFICES ASSUME Init PROVE Inv
  OBVIOUS
<1> USE ClubRetryAssumption DEF Init
<1>1. TypeOK
  <2>1. connected \in BOOLEAN /\ omni \in BOOLEAN /\ retried \in BOOLEAN /\ profile \in BOOLEAN
    OBVIOUS
  <2> QED BY <2>1 DEF TypeOK, Shots
<1>2. Unstarted /\ Known
  BY DEF Unstarted, Known, Shots
<1>3. PendingIsTimed /\ Counted
  BY DEF PendingIsTimed, Counted, Shots
<1> QED BY <1>1, <1>2, <1>3 DEF Inv

\* Every step of the notification goroutine.
LEMMA HandlerKeeps ==
  ASSUME Inv, HandleShotBallMetrics \/ HandlerStep
  PROVE  Inv'
<1> USE ClubRetryAssumption DEF Inv
<1>1. CASE HandleShotBallMetrics
  <2> USE <1>1 DEF HandleShotBallMetrics, linkVars, retryVars, deviceVars, handlerVars
  <2>1. TypeOK'
    BY DEF TypeOK, Shots
  <2>2. Unstarted'
    BY DEF TypeOK, Unstarted, Shots
  <2>3. Known'
    BY DEF TypeOK, Known, Unstarted, Shots
  <2>4. PendingIsTimed'
    BY DEF TypeOK, PendingIsTimed, Known, Unstarted, Shots
  <2>5. Counted'
    BY DEF TypeOK, Counted, Known, Unstarted, Shots
  <2> QED BY <2>1, <2>2, <2>3, <2>4, <2>5
<1>2. CASE ShotChecksLink
  <2> USE <1>2 DEF ShotChecksLink, linkVars, retryVars, deviceVars, handlerVars
  <2>1. TypeOK'
    BY DEF TypeOK, Shots
  <2>2. Unstarted'
    BY DEF TypeOK, Unstarted, Shots
  <2>3. Known'
    BY DEF TypeOK, Known, Unstarted, Shots
  <2>4. PendingIsTimed'
    BY DEF TypeOK, PendingIsTimed, Known, Unstarted, Shots
  <2>5. Counted'
    BY DEF TypeOK, Counted, Known, Unstarted, Shots
  <2> QED BY <2>1, <2>2, <2>3, <2>4, <2>5
<1>3. CASE StartOmniClubMetricsRequest
  <2> USE <1>3 DEF StartOmniClubMetricsRequest, linkVars, retryVars, deviceVars, handlerVars
  <2>1. TypeOK'
    <3>1. connected' \in BOOLEAN /\ omni' \in BOOLEAN /\ retried' \in BOOLEAN /\ profile' \in BOOLEAN
      BY DEF TypeOK
    <3> QED BY <3>1 DEF TypeOK, Known, Counted, Shots
  <2>2. Unstarted'
    BY DEF TypeOK, Unstarted, Shots
  <2>3. Known'
    BY DEF TypeOK, Known, Unstarted, Shots
  <2>4. PendingIsTimed'
    BY DEF TypeOK, PendingIsTimed, Known, Unstarted, Shots
  <2>5. Counted'
    BY DEF TypeOK, Counted, Known, Unstarted, Shots
  <2> QED BY <2>1, <2>2, <2>3, <2>4, <2>5
<1>4. CASE ShotSetsTimer
  <2> USE <1>4 DEF ShotSetsTimer, SetTimer, linkVars, retryVars, deviceVars, handlerVars
  <2>1. TypeOK'
    BY DEF TypeOK, Shots
  <2>2. Unstarted'
    BY DEF TypeOK, Unstarted, Shots
  <2>3. Known'
    BY DEF TypeOK, Known, Unstarted, Shots
  <2>4. PendingIsTimed'
    BY DEF TypeOK, PendingIsTimed, Known, Unstarted, Shots
  <2>5. Counted'
    BY DEF TypeOK, Counted, Known, Unstarted, Shots
  <2> QED BY <2>1, <2>2, <2>3, <2>4, <2>5
<1>5. CASE ShotRequests
  <2> USE <1>5 DEF ShotRequests, Request, linkVars, retryVars, deviceVars, handlerVars
  <2>1. TypeOK'
    BY DEF TypeOK, Shots
  <2>2. Unstarted'
    BY DEF TypeOK, Unstarted, Shots
  <2>3. Known'
    BY DEF TypeOK, Known, Unstarted, Shots
  <2>4. PendingIsTimed'
    BY DEF TypeOK, PendingIsTimed, Known, Unstarted, Shots
  <2>5. Counted'
    BY DEF TypeOK, Counted, Known, Unstarted, Shots
  <2> QED BY <2>1, <2>2, <2>3, <2>4, <2>5
<1>6. CASE ShotSent
  <2> USE <1>6 DEF ShotSent, linkVars, retryVars, deviceVars, handlerVars
  <2>1. TypeOK'
    BY DEF TypeOK, Shots
  <2>2. Unstarted'
    BY DEF TypeOK, Unstarted, Shots
  <2>3. Known'
    BY DEF TypeOK, Known, Unstarted, Shots
  <2>4. PendingIsTimed'
    BY DEF TypeOK, PendingIsTimed, Known, Unstarted, Shots
  <2>5. Counted'
    BY DEF TypeOK, Counted, Known, Unstarted, Shots
  <2> QED BY <2>1, <2>2, <2>3, <2>4, <2>5
<1>7. CASE ClubStores
  <2> USE <1>7 DEF ClubStores, linkVars, retryVars, deviceVars, handlerVars
  <2>1. TypeOK'
    <3>1. connected' \in BOOLEAN /\ omni' \in BOOLEAN /\ retried' \in BOOLEAN /\ profile' \in BOOLEAN
      BY DEF TypeOK
    <3> QED BY <3>1 DEF TypeOK, Known, Counted, Shots
  <2>2. Unstarted'
    BY DEF TypeOK, Unstarted, Shots
  <2>3. Known'
    BY DEF TypeOK, Known, Unstarted, Shots
  <2>4. PendingIsTimed'
    BY DEF TypeOK, PendingIsTimed, Known, Unstarted, Shots
  <2>5. Counted'
    BY DEF TypeOK, Counted, Known, Unstarted, Shots
  <2> QED BY <2>1, <2>2, <2>3, <2>4, <2>5
<1> QED BY <1>1, <1>2, <1>3, <1>4, <1>5, <1>6, <1>7 DEF HandlerStep

\* The answer of the device, which invalidates whatever is pending.
LEMMA ClubKeeps ==
  ASSUME Inv, NEW s \in Shots, HandleShotClubMetrics(s)
  PROVE  Inv'
<1> USE ClubRetryAssumption DEF Inv
<1>1. CASE HandleShotClubMetrics(s)
  <2> USE <1>1 DEF HandleShotClubMetrics, Invalidate, linkVars, retryVars, deviceVars, handlerVars
  <2>1. TypeOK'
    <3>1. connected' \in BOOLEAN /\ omni' \in BOOLEAN /\ retried' \in BOOLEAN /\ profile' \in BOOLEAN
      BY DEF TypeOK
    <3> QED BY <3>1 DEF TypeOK, Known, Counted, Shots
  <2>2. Unstarted'
    BY DEF TypeOK, Unstarted, Shots
  <2>3. Known'
    BY DEF TypeOK, Known, Unstarted, Shots
  <2>4. PendingIsTimed'
    BY DEF TypeOK, PendingIsTimed, Known, Unstarted, Shots
  <2>5. Counted'
    BY DEF TypeOK, Counted, Known, Unstarted, Shots
  <2> QED BY <2>1, <2>2, <2>3, <2>4, <2>5
<1> QED BY <1>1 DEF Inv

\* A timer, and the timeout handler that it starts.
LEMMA TimerKeeps ==
  ASSUME Inv, NEW s \in Shots, TimerStep(s)
  PROVE  Inv'
<1> USE ClubRetryAssumption DEF Inv
<1>1. CASE TimerFires(s)
  <2> USE <1>1 DEF TimerFires, SetTimer, linkVars, retryVars, deviceVars, handlerVars
  <2>1. TypeOK'
    <3>1. connected' \in BOOLEAN /\ omni' \in BOOLEAN /\ retried' \in BOOLEAN /\ profile' \in BOOLEAN
      BY DEF TypeOK
    <3> QED BY <3>1 DEF TypeOK, Known, Counted, Shots
  <2>2. Unstarted'
    BY DEF TypeOK, Unstarted, Shots
  <2>3. Known'
    BY DEF TypeOK, Known, Unstarted, Shots
  <2>4. PendingIsTimed'
    BY DEF TypeOK, PendingIsTimed, Known, Unstarted, Shots
  <2>5. Counted'
    BY DEF TypeOK, Counted, Known, Unstarted, Shots
  <2> QED BY <2>1, <2>2, <2>3, <2>4, <2>5
<1>2. CASE TimerExpires(s)
  <2> USE <1>2 DEF TimerExpires, SetTimer, Invalidate, linkVars, retryVars, deviceVars, handlerVars
  <2>1. TypeOK'
    BY DEF TypeOK, Shots
  <2>2. Unstarted'
    BY DEF TypeOK, Unstarted, Shots
  <2>3. Known'
    BY DEF TypeOK, Known, Unstarted, Shots
  <2>4. PendingIsTimed'
    BY DEF TypeOK, PendingIsTimed, Known, Unstarted, Shots
  <2>5. Counted'
    BY DEF TypeOK, Counted, Known, Unstarted, Shots
  <2> QED BY <2>1, <2>2, <2>3, <2>4, <2>5
<1>3. CASE TimerIsStale(s)
  <2> USE <1>3 DEF TimerIsStale, SetTimer, linkVars, retryVars, deviceVars, handlerVars
  <2>1. TypeOK'
    BY DEF TypeOK, Shots
  <2>2. Unstarted'
    BY DEF TypeOK, Unstarted, Shots
  <2>3. Known'
    BY DEF TypeOK, Known, Unstarted, Shots
  <2>4. PendingIsTimed'
    BY DEF TypeOK, PendingIsTimed, Known, Unstarted, Shots
  <2>5. Counted'
    BY DEF TypeOK, Counted, Known, Unstarted, Shots
  <2> QED BY <2>1, <2>2, <2>3, <2>4, <2>5
<1>4. CASE RetryRequests(s)
  <2> USE <1>4 DEF RetryRequests, AskAgain, SkipRetry, SetTimer, Request, linkVars,
                   retryVars, deviceVars, handlerVars
  <2>1. TypeOK'
    <3>1. retries' \in [Shots -> {0, 1}] /\ skipped' \in SUBSET Shots
      BY DEF TypeOK, Counted
    <3>2. connected' \in BOOLEAN /\ omni' \in BOOLEAN /\ retried' \in BOOLEAN /\ profile' \in BOOLEAN
      BY DEF TypeOK
    <3>3. queued' \in Nat
      BY DEF TypeOK
    <3> QED BY <3>1, <3>2, <3>3 DEF TypeOK
  <2>2. Unstarted'
    BY DEF TypeOK, Unstarted, Shots
  <2>3. Known'
    BY DEF TypeOK, Known, Unstarted, Shots
  <2>4. PendingIsTimed'
    BY DEF TypeOK, PendingIsTimed, Known, Unstarted, Shots
  <2>5. Counted'
    BY DEF TypeOK, Counted, Known, Unstarted, Shots
  <2> QED BY <2>1, <2>2, <2>3, <2>4, <2>5
<1>5. CASE RetrySetsTimer(s)
  <2> USE <1>5 DEF RetrySetsTimer, SetTimer, linkVars, retryVars, deviceVars, handlerVars
  <2>1. TypeOK'
    BY DEF TypeOK, Shots
  <2>2. Unstarted'
    BY DEF TypeOK, Unstarted, Shots
  <2>3. Known'
    BY DEF TypeOK, Known, Unstarted, Shots
  <2>4. PendingIsTimed'
    BY DEF TypeOK, PendingIsTimed, Known, Unstarted, Shots
  <2>5. Counted'
    BY DEF TypeOK, Counted, Known, Unstarted, Shots
  <2> QED BY <2>1, <2>2, <2>3, <2>4, <2>5
<1>6. CASE FallbackStores(s)
  <2> USE <1>6 DEF FallbackStores, SetTimer, linkVars, retryVars, deviceVars, handlerVars
  <2>1. TypeOK'
    BY DEF TypeOK, Shots
  <2>2. Unstarted'
    BY DEF TypeOK, Unstarted, Shots
  <2>3. Known'
    BY DEF TypeOK, Known, Unstarted, Shots
  <2>4. PendingIsTimed'
    BY DEF TypeOK, PendingIsTimed, Known, Unstarted, Shots
  <2>5. Counted'
    BY DEF TypeOK, Counted, Known, Unstarted, Shots
  <2> QED BY <2>1, <2>2, <2>3, <2>4, <2>5
<1> QED BY <1>1, <1>2, <1>3, <1>4, <1>5, <1>6 DEF TimerStep

\* The link, the device and the disconnect handler.
LEMMA OutsideKeeps ==
  ASSUME Inv, DeviceTakesRequest \/ RequestIsLost \/ (\E s \in Shots : AnswerIsLost(s))
         \/ LinkDrops \/ LinkComesUp \/ DeviceTypeKnown \/ HandleBluetoothDisconnect
  PROVE  Inv'
<1> USE ClubRetryAssumption DEF Inv
<1>1. CASE DeviceTakesRequest
  <2> USE <1>1 DEF DeviceTakesRequest, linkVars, retryVars, deviceVars, handlerVars
  <2>1. TypeOK'
    BY DEF TypeOK, Shots
  <2>2. Unstarted'
    BY DEF TypeOK, Unstarted, Shots
  <2>3. Known'
    BY DEF TypeOK, Known, Unstarted, Shots
  <2>4. PendingIsTimed'
    BY DEF TypeOK, PendingIsTimed, Known, Unstarted, Shots
  <2>5. Counted'
    BY DEF TypeOK, Counted, Known, Unstarted, Shots
  <2> QED BY <2>1, <2>2, <2>3, <2>4, <2>5
<1>2. CASE RequestIsLost
  <2> USE <1>2 DEF RequestIsLost, linkVars, retryVars, deviceVars, handlerVars
  <2>1. TypeOK'
    BY DEF TypeOK, Shots
  <2>2. Unstarted'
    BY DEF TypeOK, Unstarted, Shots
  <2>3. Known'
    BY DEF TypeOK, Known, Unstarted, Shots
  <2>4. PendingIsTimed'
    BY DEF TypeOK, PendingIsTimed, Known, Unstarted, Shots
  <2>5. Counted'
    BY DEF TypeOK, Counted, Known, Unstarted, Shots
  <2> QED BY <2>1, <2>2, <2>3, <2>4, <2>5
<1>3. CASE \E s \in Shots : AnswerIsLost(s)
  <2> USE <1>3 DEF AnswerIsLost, linkVars, retryVars, deviceVars, handlerVars
  <2>1. TypeOK'
    BY DEF TypeOK, Shots
  <2>2. Unstarted'
    BY DEF TypeOK, Unstarted, Shots
  <2>3. Known'
    BY DEF TypeOK, Known, Unstarted, Shots
  <2>4. PendingIsTimed'
    BY DEF TypeOK, PendingIsTimed, Known, Unstarted, Shots
  <2>5. Counted'
    BY DEF TypeOK, Counted, Known, Unstarted, Shots
  <2> QED BY <2>1, <2>2, <2>3, <2>4, <2>5
<1>4. CASE LinkDrops
  <2> USE <1>4 DEF LinkDrops, linkVars, retryVars, deviceVars, handlerVars
  <2>1. TypeOK'
    BY DEF TypeOK, Shots
  <2>2. Unstarted'
    BY DEF TypeOK, Unstarted, Shots
  <2>3. Known'
    BY DEF TypeOK, Known, Unstarted, Shots
  <2>4. PendingIsTimed'
    BY DEF TypeOK, PendingIsTimed, Known, Unstarted, Shots
  <2>5. Counted'
    BY DEF TypeOK, Counted, Known, Unstarted, Shots
  <2> QED BY <2>1, <2>2, <2>3, <2>4, <2>5
<1>5. CASE LinkComesUp
  <2> USE <1>5 DEF LinkComesUp, linkVars, retryVars, deviceVars, handlerVars
  <2>1. TypeOK'
    BY DEF TypeOK, Shots
  <2>2. Unstarted'
    BY DEF TypeOK, Unstarted, Shots
  <2>3. Known'
    BY DEF TypeOK, Known, Unstarted, Shots
  <2>4. PendingIsTimed'
    BY DEF TypeOK, PendingIsTimed, Known, Unstarted, Shots
  <2>5. Counted'
    BY DEF TypeOK, Counted, Known, Unstarted, Shots
  <2> QED BY <2>1, <2>2, <2>3, <2>4, <2>5
<1>6. CASE DeviceTypeKnown
  <2> USE <1>6 DEF DeviceTypeKnown, linkVars, retryVars, deviceVars, handlerVars
  <2>1. TypeOK'
    BY DEF TypeOK, Shots
  <2>2. Unstarted'
    BY DEF TypeOK, Unstarted, Shots
  <2>3. Known'
    BY DEF TypeOK, Known, Unstarted, Shots
  <2>4. PendingIsTimed'
    BY DEF TypeOK, PendingIsTimed, Known, Unstarted, Shots
  <2>5. Counted'
    BY DEF TypeOK, Counted, Known, Unstarted, Shots
  <2> QED BY <2>1, <2>2, <2>3, <2>4, <2>5
<1>7. CASE HandleBluetoothDisconnect
  <2> USE <1>7 DEF HandleBluetoothDisconnect, Invalidate, linkVars, retryVars, deviceVars, handlerVars
  <2>1. TypeOK'
    BY DEF TypeOK, Shots
  <2>2. Unstarted'
    BY DEF TypeOK, Unstarted, Shots
  <2>3. Known'
    BY DEF TypeOK, Known, Unstarted, Shots
  <2>4. PendingIsTimed'
    BY DEF TypeOK, PendingIsTimed, Known, Unstarted, Shots
  <2>5. Counted'
    BY DEF TypeOK, Counted, Known, Unstarted, Shots
  <2> QED BY <2>1, <2>2, <2>3, <2>4, <2>5
<1> QED BY <1>1, <1>2, <1>3, <1>4, <1>5, <1>6, <1>7 DEF Inv

LEMMA Invariance == Spec => []Inv
<1>1. Inv /\ UNCHANGED vars => Inv'
  BY DEF Inv, TypeOK, Unstarted, Known, PendingIsTimed, Counted, vars, linkVars,
         retryVars, deviceVars, handlerVars
<1>2. Inv /\ [Next]_vars => Inv'
  BY <1>1, HandlerKeeps, ClubKeeps, TimerKeeps, OutsideKeeps DEF Next
<1> QED BY InitHolds, <1>2, PTL DEF Spec

-----------------------------------------------------------------------------
\* Every variable keeps its type; in particular no shot is asked for a third time
\* (launch_monitor.go:412-428).
THEOREM TypeCorrect == Spec => []TypeOK
<1>1. Inv => TypeOK
  BY DEF Inv
<1> QED BY Invariance, <1>1, PTL

\* Whatever the timers of earlier shots do, a pending request has a timer that will
\* settle it (startOmniClubMetricsRequest, handleOmniClubMetricsTimeout).
THEOREM AlwaysTimed == Spec => []PendingIsTimed
<1>1. Inv => PendingIsTimed
  BY DEF Inv
<1> QED BY Invariance, <1>1, PTL

\* The flag omniClubRetried is never that of another shot: the fallback of a shot is
\* decided only after its own first timeout asked again, or found no link to ask over
\* (launch_monitor.go:412, 416, 432).
THEOREM RetriedFirst == Spec => FallbackAfterRetry
<1> DEFINE A == \A s \in Shots :
                  timer[s] # "fallback" /\ timer'[s] = "fallback" => retries[s] = 1 \/ s \in skipped
<1>1. ASSUME Inv, [Next]_vars PROVE A
  <2> SUFFICES ASSUME NEW s \in Shots, timer[s] # "fallback", timer'[s] = "fallback"
               PROVE  retries[s] = 1 \/ s \in skipped
    OBVIOUS
  <2>1. timer' # timer
    OBVIOUS
  <2>2. CASE \E r \in Shots : TimerStep(r)
    <3>1. PICK r \in Shots : TimerStep(r)
      BY <2>2
    <3>2. TimerExpires(r) /\ r = s
      BY <1>1, <3>1 DEF Inv, TypeOK, TimerStep, TimerFires, TimerExpires, TimerIsStale,
                  RetryRequests, RetrySetsTimer, FallbackStores, SetTimer
    <3> QED BY <1>1, <3>2 DEF Inv, Counted, TimerExpires
  <2>3. CASE HandlerStep
    BY <1>1, <2>3 DEF Inv, TypeOK, HandlerStep, ShotChecksLink, StartOmniClubMetricsRequest,
                ShotSetsTimer, ShotRequests, ShotSent, ClubStores, SetTimer, retryVars
  <2>4. CASE UNCHANGED vars
    BY <2>1, <2>4 DEF vars, retryVars
  <2>5. CASE \/ HandleShotBallMetrics
             \/ \E r \in Shots : HandleShotClubMetrics(r) \/ AnswerIsLost(r)
             \/ DeviceTakesRequest \/ RequestIsLost
             \/ LinkDrops \/ LinkComesUp \/ DeviceTypeKnown \/ HandleBluetoothDisconnect
    BY <2>1, <2>5 DEF HandleShotBallMetrics, HandleShotClubMetrics, AnswerIsLost,
       DeviceTakesRequest, RequestIsLost, LinkDrops, LinkComesUp, DeviceTypeKnown,
       HandleBluetoothDisconnect, retryVars
  <2> QED BY <1>1, <2>2, <2>3, <2>4, <2>5 DEF Next
<1>2. Spec => [][A]_vars
  BY Invariance, <1>1, PTL DEF Spec
<1> QED BY <1>2 DEF FallbackAfterRetry
=============================================================================
