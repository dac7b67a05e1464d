--------------------------- MODULE ShotForwarding ---------------------------
(***************************************************************************)
(* What becomes of a shot: the store of its ball and club metrics          *)
(* (LaunchMonitor, StateManager) calls the connectapi plugin, which sends  *)
(* them to the simulator under a shot number, and then the camera plugin,  *)
(* which asks for the clip and attaches the club metrics to it.            *)
(*                                                                         *)
(* The callbacks run on the goroutine that stores: the notification        *)
(* goroutine, or the timer that stores the Omni's fallback (ClubRetry).    *)
(* The camera's HTTP calls run on detached goroutines, and the simulator   *)
(* connection comes and goes meanwhile, as SimLink says (SimBase           *)
(* implements it): Connected is its Connect, OnConnectedResetsLast its     *)
(* Opens, Disconnected its Drops, and Write its Delivers or its            *)
(* FailureEnds or Refuses.                                                 *)
(*                                                                         *)
(* Abstracted: the metrics (Notifications) but for the shot they are of;   *)
(* the callbacks that change nothing these properties speak of (readiness  *)
(* messages to the simulator, the camera's cancel, status reports, user    *)
(* interfaces); the mutex and the pacing of SendMessage.                   *)
(***************************************************************************)
EXTENDS Notifications, SequencesExt

CONSTANTS
  MaxShots,   \* bounds the number of shots
  MaxClubs,   \* bounds the number of club metrics stored
  MaxArms,    \* bounds the detached Arm goroutines
  Both        \* bounds: may the simulator connect where there is a camera

Shots == 1 .. MaxShots
Clubs == 1 .. MaxClubs
Storers == {"notification", "timer"}

ASSUME ShotAssumption ==
  /\ MaxShots \in Nat /\ MaxClubs \in Nat /\ MaxArms \in Nat
  /\ Both \in BOOLEAN

VARIABLES
  ready,     \* BallReady
  lastBall,  \* the shot of LastBallMetrics, 0 before the first
  asked,     \* the last shot whose club metrics have been requested
  of,        \* the shots that the club metrics stored so far are of
  pc,        \* each storer: the callback it is in
  job,       \* each storer: the shot, or the club metrics, it passes on
  num,       \* each storer: its copy of shotNumber, or the number of its message
  link,      \* "down", or how far Connect has come: "fresh", "half", "open"
  shotNumber,
  lastShotNumber,
  wire,      \* what the simulator was sent on the present connection
  sent,      \* each shot: how often its ball metrics were written at all
  camera,    \* the camera plugin is registered (on the desktop, and there optional)
  enabled,   \* its flag
  arms,      \* Arm goroutines that have not had the lock
  snap,      \* each shot: its ShotDetected goroutine
  filename,  \* pendingFilename: the clip of that shot, or 0
  buffer,    \* pendingClubMetrics: the club metrics of that index, or 0
  updates,   \* UpdateMetadata goroutines: <<clip, club metrics>>
  patched,   \* each club metrics: the clips they were attached to
  cycle,     \* history: is the latest shot kept apart from the others (see below)?
  apart,     \* history: the club metrics that went to a clip while it was
  early      \* history: the shots of the messages under way before OnConnected was over

shotVars == <<ready, lastBall, asked, of>>
threadVars == <<pc, job, num>>
simVars == <<link, shotNumber, lastShotNumber, wire, sent, early>>
cameraVars == <<camera, enabled, arms, snap, filename, buffer, updates, patched>>
cycleVars == <<cycle, apart>>
vars == <<shotVars, threadVars, simVars, cameraVars, cycleVars>>

BallPoints == {"ball", "count", "next", "last", "number", "sendball", "clip"}
ClubPoints == {"club", "clubnumber", "sendclub", "metadata", "buffer"}

TypeOK ==
  /\ cycle \in {"armed", "shot", "mixed"} /\ apart \subseteq Clubs
  /\ ready \in BOOLEAN /\ camera \in BOOLEAN /\ enabled \in BOOLEAN /\ early \subseteq Shots
  /\ lastBall \in 0 .. MaxShots /\ asked \in 0 .. lastBall
  /\ of \in Seq(Shots) /\ Len(of) <= MaxClubs
  /\ pc \in [Storers -> {"idle"} \cup BallPoints \cup ClubPoints]
  /\ job \in [Storers -> 0 .. MaxShots \cup Clubs]
  /\ num \in [Storers -> 0 .. MaxShots]
  /\ link \in {"down", "fresh", "half", "open"}
  /\ shotNumber \in 0 .. MaxShots /\ lastShotNumber \in 0 .. MaxShots
  /\ sent \in [Shots -> Nat]
  /\ arms \in 0 .. MaxArms
  /\ snap \in [Shots -> {"none", "started", "posted"}]
  /\ filename \in 0 .. MaxShots
  /\ buffer \in 0 .. Len(of)
  /\ updates \subseteq Shots \X Clubs
  /\ patched \in [Clubs -> Seq(Shots)]

Init ==
  /\ ready = FALSE /\ lastBall = 0 /\ asked = 0 /\ of = <<>>
  /\ pc = [t \in Storers |-> "idle"]
  /\ job = [t \in Storers |-> 0]
  /\ num = [t \in Storers |-> 0]
  /\ link = "down" /\ shotNumber = 0 /\ lastShotNumber = 0 /\ wire = <<>>
  /\ sent = [s \in Shots |-> 0] /\ early = {}
  /\ camera \in BOOLEAN /\ enabled \in {FALSE, camera}
  /\ arms = 0 /\ snap = [s \in Shots |-> "none"]
  /\ filename = 0 /\ buffer = 0 /\ updates = {}
  /\ patched = [c \in Clubs |-> <<>>]
  /\ cycle = "shot" /\ apart = {}

Goto(t, p) == pc' = [pc EXCEPT ![t] = p]
Up == link # "down"

\* SendMessage: without a connection nothing is written, and a write that fails takes
\* the connection down (Disconnect, which waits until Connect is over).
Write(m) ==
  \/ /\ Up /\ wire' = Append(wire, m) /\ link' = link
     /\ early' = early \cup (IF link = "open" THEN {} ELSE {m.shot})
  \/ link \in {"open", "down"} /\ wire' = wire /\ link' = "down" /\ early' = early

-----------------------------------------------------------------------------
(* A shot is kept apart from the others, and cycle is not "mixed", when    *)
(* the camera is enabled, no answer about a clip is awaited and the timer  *)
(* stores nothing as the ball becomes ready, Arm has had the lock when it  *)
(* is hit, and the club metrics that come from then on are those of this   *)
(* shot.  History of what the player, the device and the network did.      *)

Settled ==
  pc["timer"] = "idle" /\ \A s \in Shots : snap[s] = "none"

Cycle(from, to, condition) ==
  cycle' = (IF cycle \in from /\ condition THEN to ELSE "mixed") /\ apart' = apart

\* The club metrics of index c go to a clip.
Attach(clip, c) ==
  /\ updates' = updates \cup {<<clip, c>>}
  /\ apart' = IF cycle = "mixed" THEN apart ELSE apart \cup {c}

-----------------------------------------------------------------------------
(* HandleSensorNotification and HandleBluetoothDisconnect: SetBallReady,   *)
(* and onBallReadyChanged of the camera.                                   *)

BallBecomesReady ==
  /\ pc["notification"] = "idle"
  /\ ~ready /\ ready' = TRUE
  /\ IF enabled THEN arms < MaxArms /\ arms' = arms + 1 ELSE arms' = arms
  /\ Cycle({"armed", "shot", "mixed"}, "armed", (camera => enabled) /\ Settled)
  /\ UNCHANGED <<lastBall, asked, of, threadVars, simVars, camera, enabled, snap, filename, buffer,
                 updates, patched>>

BallNotReady ==
  /\ ready /\ ready' = FALSE
  /\ UNCHANGED <<lastBall, asked, of, threadVars, simVars, cameraVars, cycleVars>>

-----------------------------------------------------------------------------
(* HandleShotBallMetrics, SetLastBallMetrics and its callbacks.            *)

\* Mutant: the device's repeat of a shot is taken for a new one.
BallArrivesAgain(s) ==
  /\ pc["notification"] = "idle"
  /\ s \in {lastBall, lastBall + 1} \ {0}
  /\ lastBall' = s
  /\ job' = [job EXCEPT !["notification"] = s]
  /\ Goto("notification", "ball")
  /\ Cycle({"armed"}, "shot", arms = 0)
  /\ UNCHANGED <<ready, asked, of, num, simVars, cameraVars>>

\* Mutant: the club metrics are requested before the shot is passed on.
BallAsksFirst(s) ==
  /\ pc["notification"] = "idle"
  /\ s = lastBall + 1
  /\ lastBall' = s /\ asked' = s
  /\ job' = [job EXCEPT !["notification"] = s]
  /\ Goto("notification", "ball")
  /\ Cycle({"armed"}, "shot", arms = 0)
  /\ UNCHANGED <<ready, of, num, simVars, cameraVars>>

\* The device reports a new shot, or repeats the frame of its latest one, which is compared
\* with LastBallMetrics and dropped.  (The frame of an earlier shot would pass for a new
\* shot: only the last frame is compared, launch_monitor.go:217-222.)
BallArrives(s) ==
  /\ pc["notification"] = "idle"
  /\ s \in {lastBall, lastBall + 1}
  /\ IF s = lastBall
     THEN UNCHANGED vars
     ELSE /\ lastBall' = s
          /\ job' = [job EXCEPT !["notification"] = s]
          /\ Goto("notification", "ball")
          /\ Cycle({"armed"}, "shot", arms = 0)
          /\ UNCHANGED <<ready, asked, of, num, simVars, cameraVars>>

\* onLastBallMetricsChanged of connectapi.
BallChecksLink(t) ==
  /\ pc[t] = "ball"
  /\ Goto(t, IF Up THEN "count" ELSE "clip")
  /\ UNCHANGED <<shotVars, job, num, simVars, cameraVars, cycleVars>>

\* convertToShotFormat, in the steps that OnConnected can fall between.
ReadShotNumber(t) ==
  /\ pc[t] = "count"
  /\ num' = [num EXCEPT ![t] = shotNumber]
  /\ Goto(t, "next")
  /\ UNCHANGED <<shotVars, job, simVars, cameraVars, cycleVars>>

IncrementShotNumber(t) ==
  /\ pc[t] = "next"
  /\ shotNumber' = num[t] + 1
  /\ Goto(t, "last")
  /\ UNCHANGED <<shotVars, job, num, link, lastShotNumber, wire, sent, early, cameraVars, cycleVars>>

CopyShotNumber(t) ==
  /\ pc[t] = "last"
  /\ lastShotNumber' = shotNumber
  /\ Goto(t, "number")
  /\ UNCHANGED <<shotVars, job, num, link, shotNumber, wire, sent, early, cameraVars, cycleVars>>

NumberBall(t) ==
  /\ pc[t] = "number"
  /\ num' = [num EXCEPT ![t] = lastShotNumber]
  /\ Goto(t, "sendball")
  /\ UNCHANGED <<shotVars, job, simVars, cameraVars, cycleVars>>

SendBall(t) ==
  /\ pc[t] = "sendball"
  /\ Write([kind |-> "ball", shot |-> job[t], number |-> num[t], last |-> lastBall])
  /\ sent' = IF wire' = wire THEN sent ELSE [sent EXCEPT ![job[t]] = @ + 1]
  /\ Goto(t, "clip")
  /\ UNCHANGED <<shotVars, job, num, shotNumber, lastShotNumber, cameraVars, cycleVars>>

\* onLastBallMetricsChanged of the camera; back in HandleShotBallMetrics, the
\* club metrics are requested.
AskForClip(t) ==
  /\ pc[t] = "clip"
  /\ snap' = IF enabled THEN [snap EXCEPT ![job[t]] = "started"] ELSE snap
  /\ asked' = job[t]
  /\ Goto(t, "idle")
  /\ UNCHANGED <<ready, lastBall, of, job, num, simVars, camera, enabled, arms, filename, buffer,
                 updates, patched, cycleVars>>

-----------------------------------------------------------------------------
(* SetLastClubMetrics and its callbacks.                                   *)

StoreClub(t, s) ==
  /\ pc[t] = "idle"
  /\ Len(of) < MaxClubs
  /\ of' = Append(of, s)
  /\ job' = [job EXCEPT ![t] = Len(of')]
  /\ Goto(t, "club")
  /\ Cycle({"shot"}, "shot", s = lastBall)
  /\ UNCHANGED <<ready, lastBall, asked, num, simVars, cameraVars>>

\* HandleShotClubMetrics: the device answers, perhaps late or twice.
ClubArrives(s) == s \in 1 .. asked /\ StoreClub("notification", s)

\* The fallback of handleOmniClubMetricsTimeout.
ClubFallsBack == asked > 0 /\ StoreClub("timer", asked)

\* onLastClubMetricsChanged of connectapi.
ClubChecksLink(t) ==
  /\ pc[t] = "club"
  /\ Goto(t, IF Up THEN "clubnumber" ELSE "metadata")
  /\ UNCHANGED <<shotVars, job, num, simVars, cameraVars, cycleVars>>

\* Mutant: club metrics count as a shot of their own.
NumberClubAsShot(t) ==
  /\ pc[t] = "clubnumber"
  /\ shotNumber' = shotNumber + 1
  /\ lastShotNumber' = shotNumber'
  /\ num' = [num EXCEPT ![t] = lastShotNumber']
  /\ Goto(t, "sendclub")
  /\ UNCHANGED <<shotVars, job, link, wire, sent, early, cameraVars, cycleVars>>

NumberClub(t) ==
  /\ pc[t] = "clubnumber"
  /\ num' = [num EXCEPT ![t] = lastShotNumber]
  /\ Goto(t, "sendclub")
  /\ UNCHANGED <<shotVars, job, simVars, cameraVars, cycleVars>>

SendClub(t) ==
  /\ pc[t] = "sendclub"
  /\ Write([kind |-> "club", shot |-> of[job[t]], number |-> num[t], last |-> lastBall])
  /\ Goto(t, "metadata")
  /\ UNCHANGED <<shotVars, job, num, shotNumber, lastShotNumber, sent, cameraVars,
                 cycleVars>>

\* onLastClubMetricsChanged of the camera reads pendingFilename under the lock ...
ClubReadsFilename(t) ==
  /\ pc[t] = "metadata"
  /\ IF enabled /\ filename # 0 THEN Attach(filename, job[t]) ELSE UNCHANGED <<updates, apart>>
  /\ Goto(t, IF enabled /\ filename = 0 THEN "buffer" ELSE "idle")
  /\ UNCHANGED <<shotVars, job, num, simVars, camera, enabled, arms, snap, filename, buffer, patched,
                 cycle>>

\* ... and buffers the metrics under the lock it has taken again.
ClubIsBuffered(t) ==
  /\ pc[t] = "buffer"
  /\ buffer' = job[t]
  /\ Goto(t, "idle")
  /\ UNCHANGED <<shotVars, job, num, simVars, camera, enabled, arms, snap, filename, updates, patched,
                 cycleVars>>

-----------------------------------------------------------------------------
(* The camera plugin's goroutines.                                         *)

\* Mutant: Arm leaves the buffered metrics of the previous shot.
ArmKeepsBuffer ==
  /\ arms > 0
  /\ arms' = arms - 1
  /\ filename' = 0 /\ buffer' = buffer
  /\ UNCHANGED <<shotVars, threadVars, simVars, camera, enabled, snap, updates, patched, cycleVars>>

\* Arm under the lock; its request to the camera changes nothing here.
Arm ==
  /\ arms > 0
  /\ arms' = arms - 1
  /\ filename' = 0 /\ buffer' = 0
  /\ UNCHANGED <<shotVars, threadVars, simVars, camera, enabled, snap, updates, patched, cycleVars>>

ShotDetected(s) ==
  /\ snap[s] = "started"
  /\ snap' = [snap EXCEPT ![s] = IF enabled THEN "posted" ELSE "none"]
  /\ UNCHANGED <<shotVars, threadVars, simVars, camera, enabled, arms, filename, buffer, updates,
                 patched, cycleVars>>

\* Mutant: the buffered metrics are used and kept.
ClipSavedKeepsBuffer(s) ==
  /\ snap[s] = "posted"
  /\ snap' = [snap EXCEPT ![s] = "none"]
  /\ filename' = s /\ buffer' = buffer
  /\ IF buffer # 0 THEN Attach(s, buffer) ELSE UNCHANGED <<updates, apart>>
  /\ UNCHANGED <<shotVars, threadVars, simVars, camera, enabled, arms, patched, cycle>>

\* The camera answers with the clip's name.
ClipSaved(s) ==
  /\ snap[s] = "posted"
  /\ snap' = [snap EXCEPT ![s] = "none"]
  /\ filename' = s /\ buffer' = 0
  /\ IF buffer # 0 THEN Attach(s, buffer) ELSE UNCHANGED <<updates, apart>>
  /\ UNCHANGED <<shotVars, threadVars, simVars, camera, enabled, arms, patched, cycle>>

\* It has no clip, or does not answer.
NoClip(s) ==
  /\ snap[s] = "posted"
  /\ snap' = [snap EXCEPT ![s] = "none"]
  /\ UNCHANGED <<shotVars, threadVars, simVars, camera, enabled, arms, filename, buffer, updates,
                 patched, cycleVars>>

\* UpdateMetadata, whose request may fail; there is no second one.
UpdateMetadata(u) ==
  /\ u \in updates
  /\ updates' = updates \ {u}
  /\ patched' \in {patched} \cup
       (IF enabled THEN {[patched EXCEPT ![u[2]] = Append(@, u[1])]} ELSE {})
  /\ UNCHANGED <<shotVars, threadVars, simVars, camera, enabled, arms, snap, filename, buffer, cycleVars>>

SetEnabled ==
  /\ camera
  /\ enabled' = ~enabled
  /\ UNCHANGED <<shotVars, threadVars, simVars, camera, arms, snap, filename, buffer, updates, patched,
                 cycleVars>>

-----------------------------------------------------------------------------
(* The simulator connection: Connect, OnConnected 500 ms later, Disconnect.*)

\* The shots of the messages that are being numbered or sent.
InFlight ==
  {job[t] : t \in {u \in Storers : pc[u] \in {"count", "next", "last", "number", "sendball"}}} \cup
  {of[job[t]] : t \in {u \in Storers : pc[u] \in {"clubnumber", "sendclub"}}}

Connected ==
  /\ camera => Both
  /\ link = "down"
  /\ link' = "fresh" /\ wire' = <<>> /\ early' = InFlight
  /\ UNCHANGED <<shotVars, threadVars, shotNumber, lastShotNumber, sent, cameraVars, cycleVars>>

OnConnectedResetsShot ==
  /\ link = "fresh"
  /\ link' = "half" /\ shotNumber' = 0
  /\ early' = early \cup InFlight
  /\ UNCHANGED <<shotVars, threadVars, lastShotNumber, wire, sent, cameraVars, cycleVars>>

OnConnectedResetsLast ==
  /\ link = "half"
  /\ link' = "open" /\ lastShotNumber' = 0
  /\ early' = early \cup InFlight
  /\ UNCHANGED <<shotVars, threadVars, shotNumber, wire, sent, cameraVars, cycleVars>>

\* Disconnect waits for the mutex that Connect holds.
Disconnected ==
  /\ link = "open"
  /\ link' = "down"
  /\ UNCHANGED <<shotVars, threadVars, shotNumber, lastShotNumber, wire, sent, early, cameraVars,
                 cycleVars>>

BallCallback(t) ==
  \/ BallChecksLink(t) \/ ReadShotNumber(t) \/ IncrementShotNumber(t) \/ CopyShotNumber(t)
  \/ NumberBall(t) \/ SendBall(t) \/ AskForClip(t)
ClubCallback(t) ==
  ClubChecksLink(t) \/ NumberClub(t) \/ SendClub(t) \/ ClubReadsFilename(t) \/ ClubIsBuffered(t)

Next ==
  \/ BallBecomesReady \/ BallNotReady \/ ClubFallsBack
  \/ \E s \in Shots : BallArrives(s) \/ ClubArrives(s) \/ ShotDetected(s) \/ ClipSaved(s) \/ NoClip(s)
  \/ \E t \in Storers : BallCallback(t) \/ ClubCallback(t)
  \/ Arm \/ SetEnabled \/ \E u \in updates : UpdateMetadata(u)
  \/ Connected \/ OnConnectedResetsShot \/ OnConnectedResetsLast \/ Disconnected

Spec == Init /\ [][Next]_vars

-----------------------------------------------------------------------------
\* The simulator is told of a shot at most once, although the device repeats the frame of its
\* latest shot and however often the connection is made anew.
ShotOnce == \A s \in Shots : sent[s] <= 1

\* A shot that was sent to the simulator or to the camera: whatever its notification was,
\* both were given the same numbers.
LegsTellOneShot == \A s \in Shots : sent[s] > 0 \/ snap[s] # "none" => LegsAgree

\* On one connection the ball and club messages of a shot carry one number, and those of two
\* shots never the same.  Two kinds of messages are excepted, which the code may misnumber:
\* club metrics sent when a newer shot had come (NumberClub gives them its number), and the
\* messages of a shot that was being numbered or sent before OnConnected was over.
InTime(m) == m.shot = m.last /\ m.shot \notin early
NumbersNameShots ==
  \A i, j \in DOMAIN wire :
    InTime(wire[i]) /\ InTime(wire[j]) =>
      (wire[i].number = wire[j].number <=> wire[i].shot = wire[j].shot)

\* On one connection the club metrics of a shot never come before its ball metrics.
ClubAfterBall ==
  \A i, j \in DOMAIN wire :
    wire[i].kind = "club" /\ wire[j].kind = "ball" /\ wire[i].shot = wire[j].shot => j < i

\* Club metrics that come before, after or during the answer about the clip are attached
\* to a clip at most once ...
AttachedOnce == \A c \in Clubs : Len(patched[c]) <= 1

\* ... and those that went to a clip while their shot was kept apart, to the clip of this
\* shot.  The others are excepted: a late answer about a clip, or a late Arm, makes the code
\* attach them to the clip of another shot.
RightClip == \A c \in apart : \A i \in DOMAIN patched[c] : patched[c][i] = of[c]
=============================================================================
