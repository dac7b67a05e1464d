------------------------- MODULE ShotForwardingProofs -------------------------
(***************************************************************************)
(* For any number of shots and club metrics: ShotForwarding is well typed, *)
(* a shot is sent to the simulator at most once, its club metrics never    *)
(* before its ball metrics, and club metrics are attached to one clip at   *)
(* the most: that of their shot, if this was kept apart from the others.   *)
(* The numbers of a connection name its shots, but for the two kinds of    *)
(* messages that NumbersNameShots excepts.                                 *)
(*                                                                         *)
(* The argument about the messages: only the notification goroutine passes *)
(* a shot on, the latest one, and asks for its club metrics when it has    *)
(* done so (Passing); so the shots of club metrics are shots that will     *)
(* never be sent again (Asked).  About the clips: club metrics are in one  *)
(* place on their way to a clip (Placed), and while a shot is kept apart   *)
(* all that the camera plugin remembers is of it (Kept, LatestOnly), so    *)
(* that the clip it chooses then is the right one (Chosen).  About the     *)
(* numbers: what was sent before a shot has smaller numbers (Past,         *)
(* Numbered), what is sent of the latest one has lastShotNumber (Copied),  *)
(* and nothing that went out before OnConnected was over counts (Opening). *)
(***************************************************************************)
EXTENDS ShotForwarding, TLAPS

\* A shot is being passed on: it is the latest, and the one not yet asked about.
Passing ==
  \A t \in Storers : pc[t] \in BallPoints =>
    /\ t = "notification"
    /\ job[t] = lastBall /\ asked < lastBall
    /\ pc[t] # "clip" => sent[lastBall] = 0

\* Nothing is sent twice, and nothing of a shot to come.
Unsent == \A s \in Shots : sent[s] <= 1 /\ (s > lastBall => sent[s] = 0)

Messages == [kind : {"ball", "club"}, shot : Shots, number : Nat, last : Nat]

\* Club metrics, stored or sent, are of shots asked about.
Asked ==
  /\ \A i \in DOMAIN of : of[i] <= asked
  /\ wire \in Seq(Messages)
  /\ \A i \in DOMAIN wire : wire[i].kind = "club" => wire[i].shot <= asked

\* No number runs ahead of the shots.
Counting ==
  /\ shotNumber <= lastBall /\ lastShotNumber <= lastBall
  /\ \A t \in Storers :
       /\ num[t] <= lastBall
       /\ pc[t] \in {"ball", "count"} => shotNumber < lastBall
       /\ pc[t] = "next" => num[t] < lastBall

\* Club metrics are with a storer, in the buffer, on their way to a clip, or attached.
Placed ==
  /\ \A t \in Storers : pc[t] \in ClubPoints =>
       /\ job[t] \in 1 .. Len(of) /\ job[t] # buffer
       /\ \A u \in Storers : pc[u] \in ClubPoints /\ job[u] = job[t] => u = t
       /\ \A u \in updates : u[2] # job[t]
       /\ patched[job[t]] = << >>
  /\ \A u \in updates : u[2] \in 1 .. Len(of) /\ u[2] # buffer /\ patched[u[2]] = << >>
  /\ \A u, w \in updates : u[2] = w[2] => u = w
  /\ buffer # 0 => patched[buffer] = << >>
  /\ \A c \in Clubs : c > Len(of) => patched[c] = << >>

messageVars == <<lastBall, asked, of, pc, job, num, shotNumber, lastShotNumber, wire, sent>>

MessageInv == Passing /\ Unsent /\ Asked /\ Counting /\ ClubAfterBall
Inv == TypeOK /\ MessageInv /\ Placed /\ AttachedOnce

-----------------------------------------------------------------------------
LEMMA InitHolds == Init => Inv
<1> SUFFICES ASSUME Init PROVE Inv
  OBVIOUS
<1> USE ShotAssumption DEF Init
<1>1. TypeOK
  <2>1. camera \in BOOLEAN /\ enabled \in BOOLEAN /\ ready \in BOOLEAN
        /\ early \subseteq Shots /\ apart \subseteq Clubs
    OBVIOUS
  <2>2. sent \in [Shots -> Nat] /\ snap \in [Shots -> {"none", "started", "posted"}]
        /\ patched \in [Clubs -> Seq(Shots)] /\ updates \subseteq Shots \X Clubs
    OBVIOUS
  <2>3. /\ pc \in [Storers -> {"idle"} \cup BallPoints \cup ClubPoints]
        /\ job \in [Storers -> 0 .. MaxShots \cup Clubs] /\ num \in [Storers -> 0 .. MaxShots]
    OBVIOUS
  <2> QED BY <2>1, <2>2, <2>3 DEF TypeOK
<1>2. Passing /\ Unsent /\ Asked /\ ClubAfterBall /\ Counting
  BY DEF Passing, Unsent, Asked, ClubAfterBall, Counting, BallPoints
<1>3. Placed /\ AttachedOnce
  BY DEF Placed, AttachedOnce, ClubPoints
<1> QED BY <1>1, <1>2, <1>3 DEF Inv, MessageInv

-----------------------------------------------------------------------------
(* The messages                                                            *)

LEMMA MessagesStay ==
  ASSUME TypeOK, MessageInv, UNCHANGED messageVars
  PROVE  MessageInv'
BY DEF MessageInv, messageVars, Passing, Unsent, Asked, Counting, ClubAfterBall

\* What SendMessage may do to the messages of the connection.
LEMMA WriteKeeps ==
  ASSUME TypeOK, Asked, ClubAfterBall, UNCHANGED <<of, asked>>,
         NEW m \in Messages, Write(m),
         IF m.kind = "club" THEN m.shot <= asked ELSE m.shot > asked
  PROVE  Asked' /\ ClubAfterBall'
<1>1. CASE wire' = wire
  BY <1>1 DEF Asked, ClubAfterBall
<1>2. CASE wire' = Append(wire, m)
  <2>1. wire' \in Seq(Messages)
        /\ Len(wire') = Len(wire) + 1 /\ wire'[Len(wire) + 1] = m
        /\ \A i \in 1 .. Len(wire) : wire'[i] = wire[i]
    BY <1>2 DEF Asked
  <2>a. DOMAIN wire = 1 .. Len(wire) /\ Len(wire) \in Nat /\ DOMAIN wire' = 1 .. Len(wire) + 1
    BY <2>1 DEF Asked
  <2>b. asked' = asked /\ of' = of
    OBVIOUS
  <2>2. Asked'
    <3>1. ASSUME NEW i \in DOMAIN wire', wire'[i].kind = "club" PROVE wire'[i].shot <= asked
      <4>1. CASE i = Len(wire) + 1
        BY <4>1, <2>1, <3>1
      <4>2. CASE i \in 1 .. Len(wire)
        BY <4>2, <2>1, <2>a, <3>1 DEF Asked
      <4> QED BY <4>1, <4>2, <2>a
    <3> QED BY <3>1, <2>1, <2>b DEF Asked
  <2>3. ClubAfterBall'
    <3>1. ASSUME NEW i \in DOMAIN wire', NEW j \in DOMAIN wire',
                 wire'[i].kind = "club", wire'[j].kind = "ball", wire'[i].shot = wire'[j].shot
          PROVE  j < i
      <4>1. CASE i = Len(wire) + 1
        <5>1. j # i
          BY <3>1
        <5> QED BY <4>1, <5>1, <2>a
      <4>2. CASE i \in 1 .. Len(wire) /\ j \in 1 .. Len(wire)
        BY <4>2, <3>1, <2>1, <2>a DEF ClubAfterBall
      <4>3. CASE i \in 1 .. Len(wire) /\ j = Len(wire) + 1
        <5>1. wire[i].kind = "club" /\ wire[i].shot = m.shot /\ m.kind = "ball"
          BY <4>3, <3>1, <2>1
        <5>2. wire[i].shot <= asked /\ m.shot > asked
          BY <4>3, <3>1, <5>1, <2>1, <2>a DEF Asked
        <5>3. m.shot \in Nat /\ asked \in Nat
          BY ShotAssumption DEF TypeOK, Shots, Messages
        <5> QED BY <5>1, <5>2, <5>3
      <4> QED BY <4>1, <4>2, <4>3, <2>a
    <3> QED BY <3>1 DEF ClubAfterBall
  <2> QED BY <2>2, <2>3
<1> QED BY <1>1, <1>2 DEF Write

LEMMA BallKeepsMessages ==
  ASSUME TypeOK, MessageInv, NEW t \in Storers, BallCallback(t)
  PROVE  MessageInv'
<1> USE DEF MessageInv, Goto, shotVars, simVars, cameraVars
<1>1. CASE BallChecksLink(t)
  BY <1>1 DEF BallChecksLink, TypeOK, Passing, Unsent, Asked, Counting, ClubAfterBall, BallPoints
<1>2. CASE ReadShotNumber(t)
  BY <1>2 DEF ReadShotNumber, TypeOK, Passing, Unsent, Asked, Counting, ClubAfterBall, BallPoints
<1>3. CASE IncrementShotNumber(t)
  BY <1>3 DEF IncrementShotNumber, TypeOK, Passing, Unsent, Asked, Counting, ClubAfterBall, BallPoints
<1>4. CASE CopyShotNumber(t)
  BY <1>4 DEF CopyShotNumber, TypeOK, Passing, Unsent, Asked, Counting, ClubAfterBall, BallPoints
<1>5. CASE NumberBall(t)
  BY <1>5 DEF NumberBall, TypeOK, Passing, Unsent, Asked, Counting, ClubAfterBall, BallPoints
<1>6. CASE SendBall(t)
  <2> USE <1>6 DEF SendBall
  <2>1. pc[t] \in BallPoints /\ t = "notification" /\ job[t] = lastBall
        /\ asked < lastBall /\ lastBall \in Shots /\ sent[lastBall] = 0
    BY DEF Passing, BallPoints, TypeOK, Shots
  <2>2. Asked' /\ ClubAfterBall'
    <3> DEFINE m == [kind |-> "ball", shot |-> job[t], number |-> num[t], last |-> lastBall]
    <3>1. m \in Messages
      BY <2>1 DEF TypeOK, Messages
    <3>2. m.kind = "ball" /\ m.shot > asked
      BY <2>1 DEF TypeOK
    <3> QED BY <3>1, <3>2, WriteKeeps
  <2>3. Passing'
    BY <2>1 DEF Passing, BallPoints, TypeOK
  <2>4. Unsent'
    BY <2>1 DEF Unsent, TypeOK, Shots
  <2>5. Counting'
    BY DEF Counting, TypeOK
  <2> QED BY <2>2, <2>3, <2>4, <2>5
<1>7. CASE AskForClip(t)
  <2> USE <1>7 DEF AskForClip
  <2>1. t = "notification" /\ job[t] = lastBall
    BY DEF Passing, BallPoints
  <2>2. Passing'
    BY <2>1 DEF Passing, BallPoints, TypeOK, Storers
  <2>3. Asked'
    <3>1. asked < lastBall /\ asked \in Nat /\ lastBall \in Nat
          /\ asked' = lastBall /\ of' = of /\ wire' = wire
      BY <2>1 DEF Passing, BallPoints, TypeOK
    <3>2. \A i \in DOMAIN of : of[i] <= lastBall
      <4>1. \A i \in DOMAIN of : of[i] \in Shots
        BY DEF TypeOK
      <4>2. \A i \in DOMAIN of : of[i] \in Nat /\ of[i] <= asked
        BY <4>1, ShotAssumption DEF Asked, Shots
      <4> QED BY <4>2, <3>1
    <3>3. \A i \in DOMAIN wire : wire[i].kind = "club" => wire[i].shot <= lastBall
      <4>1. ASSUME NEW i \in DOMAIN wire PROVE wire[i].shot \in Nat
        <5>1. wire[i] \in Messages
          BY DEF Asked
        <5>2. wire[i].shot \in Shots
          BY <5>1 DEF Messages
        <5> QED BY <5>2, ShotAssumption DEF Shots
      <4>2. \A i \in DOMAIN wire : wire[i].kind = "club" => wire[i].shot <= asked
        BY DEF Asked
      <4> QED BY <4>1, <4>2, <3>1
    <3> QED BY <3>1, <3>2, <3>3 DEF Asked
  <2>4. Unsent' /\ ClubAfterBall' /\ Counting'
    BY DEF Unsent, ClubAfterBall, Counting, TypeOK
  <2> QED BY <2>2, <2>3, <2>4
<1> QED BY <1>1, <1>2, <1>3, <1>4, <1>5, <1>6, <1>7 DEF BallCallback

LEMMA ClubKeepsMessages ==
  ASSUME TypeOK, MessageInv, Placed, NEW t \in Storers, ClubCallback(t)
  PROVE  MessageInv'
<1> USE DEF MessageInv, Goto, shotVars, simVars, cameraVars
<1>1. CASE ClubChecksLink(t)
  BY <1>1 DEF ClubChecksLink, TypeOK, Passing, Unsent, Asked, Counting, ClubAfterBall, BallPoints
<1>2. CASE NumberClub(t)
  BY <1>2 DEF NumberClub, TypeOK, Passing, Unsent, Asked, Counting, ClubAfterBall, BallPoints
<1>3. CASE SendClub(t)
  <2> USE <1>3 DEF SendClub
  <2>1. job[t] \in DOMAIN of /\ of[job[t]] \in Shots /\ of[job[t]] <= asked
    BY DEF Placed, ClubPoints, Asked, TypeOK
  <2>2. Asked' /\ ClubAfterBall'
    <3> DEFINE m == [kind |-> "club", shot |-> of[job[t]], number |-> num[t], last |-> lastBall]
    <3>1. m \in Messages
      BY <2>1 DEF TypeOK, Messages
    <3>2. m.kind = "club" /\ m.shot <= asked
      BY <2>1
    <3> QED BY <3>1, <3>2, WriteKeeps
  <2>3. Passing' /\ Unsent' /\ Counting'
    BY DEF Passing, BallPoints, Unsent, Counting, TypeOK
  <2> QED BY <2>2, <2>3
<1>4. CASE ClubReadsFilename(t)
  BY <1>4 DEF ClubReadsFilename, TypeOK, Passing, Unsent, Asked, Counting, ClubAfterBall, BallPoints
<1>5. CASE ClubIsBuffered(t)
  BY <1>5 DEF ClubIsBuffered, TypeOK, Passing, Unsent, Asked, Counting, ClubAfterBall, BallPoints
<1> QED BY <1>1, <1>2, <1>3, <1>4, <1>5 DEF ClubCallback

LEMMA BallArrivesKeepsMessages ==
  ASSUME TypeOK, MessageInv, NEW s \in Shots, BallArrives(s)
  PROVE  MessageInv'
<1> USE DEF MessageInv, Goto, BallArrives, simVars, cameraVars
<1>1. CASE s = lastBall
  BY <1>1, MessagesStay DEF vars, shotVars, threadVars, messageVars
<1>2. CASE s = lastBall + 1
  <2> lastBall \in Nat /\ s # lastBall
    BY <1>2 DEF TypeOK
  <2>1. Passing'
    BY <1>2 DEF Passing, BallPoints, TypeOK, Storers, Unsent, Shots
  <2>2. Unsent' /\ Counting'
    BY <1>2 DEF Unsent, Counting, TypeOK, Shots
  <2>3. Asked' /\ ClubAfterBall'
    BY <1>2 DEF Asked, ClubAfterBall
  <2> QED BY <2>1, <2>2, <2>3
<1> QED BY <1>1, <1>2

LEMMA StoreClubKeepsMessages ==
  ASSUME TypeOK, MessageInv, NEW t \in Storers, NEW s \in 1 .. asked, s \in Shots, StoreClub(t, s)
  PROVE  MessageInv'
<1> USE DEF MessageInv, Goto, StoreClub, simVars, cameraVars
<1>1. Passing' /\ Unsent' /\ Counting'
  BY DEF Passing, BallPoints, Unsent, Counting, TypeOK
<1>2. Asked'
  BY DEF Asked, TypeOK
<1>3. ClubAfterBall'
  BY DEF ClubAfterBall
<1> QED BY <1>1, <1>2, <1>3

LEMMA LinkKeepsMessages ==
  ASSUME TypeOK, MessageInv,
         Connected \/ OnConnectedResetsShot \/ OnConnectedResetsLast \/ Disconnected
  PROVE  MessageInv'
<1> USE DEF MessageInv, shotVars, threadVars, cameraVars
<1>1. CASE Connected
  BY <1>1 DEF Connected, TypeOK, Passing, Unsent, Asked, Counting, ClubAfterBall
<1>2. CASE OnConnectedResetsShot
  BY <1>2 DEF OnConnectedResetsShot, TypeOK, Passing, Unsent, Asked, Counting, ClubAfterBall, BallPoints, Shots
<1>3. CASE OnConnectedResetsLast
  BY <1>3 DEF OnConnectedResetsLast, TypeOK, Passing, Unsent, Asked, Counting, ClubAfterBall
<1>4. CASE Disconnected
  BY <1>4 DEF Disconnected, TypeOK, Passing, Unsent, Asked, Counting, ClubAfterBall
<1> QED BY <1>1, <1>2, <1>3, <1>4

-----------------------------------------------------------------------------
(* The types                                                               *)

LEMMA BallKeepsTypes ==
  ASSUME TypeOK, Passing, Counting, NEW t \in Storers, BallCallback(t)
  PROVE  TypeOK'
<1> USE ShotAssumption DEF Goto, threadVars, shotVars, simVars, cameraVars, cycleVars
<1>1. CASE BallChecksLink(t)
  BY <1>1 DEF BallChecksLink, TypeOK, BallPoints
<1>2. CASE ReadShotNumber(t)
  BY <1>2 DEF ReadShotNumber, TypeOK, BallPoints
<1>3. CASE IncrementShotNumber(t)
  <2>1. shotNumber' \in 0 .. MaxShots
    BY <1>3 DEF IncrementShotNumber, TypeOK, Counting
  <2> QED BY <1>3, <2>1 DEF IncrementShotNumber, TypeOK, BallPoints
<1>4. CASE CopyShotNumber(t)
  BY <1>4 DEF CopyShotNumber, TypeOK, BallPoints
<1>5. CASE NumberBall(t)
  BY <1>5 DEF NumberBall, TypeOK, BallPoints
<1>6. CASE SendBall(t)
  <2> USE <1>6 DEF SendBall
  <2>1. sent' \in [Shots -> Nat]
    <3>1. job[t] = lastBall /\ lastBall \in Shots /\ sent[lastBall] = 0
      BY DEF Passing, BallPoints, TypeOK, Shots
    <3>2. sent' = sent \/ sent' = [sent EXCEPT ![job[t]] = @ + 1]
      OBVIOUS
    <3> QED BY <3>1, <3>2 DEF TypeOK
  <2>2. job[t] \in Shots
    BY DEF Passing, BallPoints, TypeOK, Shots
  <2>3. link' \in {"down", "fresh", "half", "open"} /\ early' \subseteq Shots
    BY <2>2 DEF Write, TypeOK, Up
  <2> QED BY <2>1, <2>3 DEF TypeOK, BallPoints
<1>7. CASE AskForClip(t)
  <2> USE <1>7 DEF AskForClip
  <2>1. job[t] = lastBall /\ lastBall \in 1 .. MaxShots
    BY DEF Passing, BallPoints, TypeOK
  <2>2. snap' \in [Shots -> {"none", "started", "posted"}]
    BY <2>1 DEF TypeOK
  <2> QED BY <2>1, <2>2 DEF TypeOK
<1> QED BY <1>1, <1>2, <1>3, <1>4, <1>5, <1>6, <1>7 DEF BallCallback

LEMMA ClubKeepsTypes ==
  ASSUME TypeOK, Placed, NEW t \in Storers, ClubCallback(t)
  PROVE  TypeOK'
<1> USE ShotAssumption DEF Goto, threadVars, shotVars, simVars, cameraVars, cycleVars
<1>1. CASE ClubChecksLink(t)
  BY <1>1 DEF ClubChecksLink, TypeOK, ClubPoints
<1>2. CASE NumberClub(t)
  BY <1>2 DEF NumberClub, TypeOK, ClubPoints
<1>3. CASE SendClub(t)
  <2> USE <1>3 DEF SendClub
  <2>1. of[job[t]] \in Shots
    BY DEF Placed, ClubPoints, TypeOK
  <2>2. link' \in {"down", "fresh", "half", "open"} /\ early' \subseteq Shots
    BY <2>1 DEF Write, TypeOK, Up
  <2> QED BY <2>2 DEF TypeOK, ClubPoints
<1>4. CASE ClubReadsFilename(t)
  <2> USE <1>4 DEF ClubReadsFilename
  <2>1. job[t] \in Clubs
    BY DEF Placed, ClubPoints, TypeOK, Clubs
  <2>2. updates' \subseteq Shots \X Clubs /\ apart' \subseteq Clubs
    BY <2>1 DEF Attach, TypeOK, Shots
  <2> QED BY <2>2 DEF TypeOK, ClubPoints
<1>5. CASE ClubIsBuffered(t)
  <2>1. job[t] \in 1 .. Len(of)
    BY <1>5 DEF ClubIsBuffered, Placed, ClubPoints
  <2> QED BY <1>5, <2>1 DEF ClubIsBuffered, TypeOK
<1> QED BY <1>1, <1>2, <1>3, <1>4, <1>5 DEF ClubCallback

LEMMA StoreClubKeepsTypes ==
  ASSUME TypeOK, NEW t \in Storers, NEW s \in Shots, StoreClub(t, s)
  PROVE  TypeOK'
<1> USE ShotAssumption DEF Goto, StoreClub, simVars, cameraVars, Cycle
<1>1. of' \in Seq(Shots) /\ Len(of') = Len(of) + 1 /\ Len(of') \in Clubs
  BY DEF TypeOK, Clubs
<1>2. job' \in [Storers -> 0 .. MaxShots \cup Clubs]
      /\ pc' \in [Storers -> {"idle"} \cup BallPoints \cup ClubPoints]
  BY <1>1 DEF TypeOK, ClubPoints
<1>3. buffer' \in 0 .. Len(of') /\ Len(of') <= MaxClubs
  BY <1>1 DEF TypeOK, Clubs
<1>4. cycle' \in {"armed", "shot", "mixed"}
  OBVIOUS
<1> QED BY <1>1, <1>2, <1>3, <1>4 DEF TypeOK

LEMMA DeviceKeepsTypes ==
  ASSUME TypeOK, BallBecomesReady \/ BallNotReady \/ \E s \in Shots : BallArrives(s)
  PROVE  TypeOK'
<1> USE ShotAssumption DEF Goto, threadVars, shotVars, simVars, cameraVars, cycleVars, Cycle
<1>1. CASE BallBecomesReady
  BY <1>1 DEF BallBecomesReady, TypeOK
<1>2. CASE BallNotReady
  BY <1>2 DEF BallNotReady, TypeOK
<1>3. CASE \E s \in Shots : BallArrives(s)
  <2> PICK s \in Shots : BallArrives(s)
    BY <1>3
  <2>1. s \in 1 .. MaxShots /\ "notification" \in Storers
    BY DEF Shots, Storers
  <2>2. CASE s = lastBall
    BY <2>2 DEF BallArrives, vars, TypeOK
  <2>3. CASE s # lastBall
    <3>1. /\ lastBall' = s
          /\ job' = [job EXCEPT !["notification"] = s]
          /\ pc' = [pc EXCEPT !["notification"] = "ball"]
          /\ cycle' \in {"shot", "mixed"} /\ apart' = apart
          /\ UNCHANGED <<ready, asked, of, num, simVars, cameraVars>>
      BY <2>3 DEF BallArrives
    <3>2. s \in {lastBall, lastBall + 1}
      BY DEF BallArrives
    <3>3. lastBall' \in 0 .. MaxShots /\ asked' \in 0 .. lastBall'
      BY <2>1, <3>1, <3>2 DEF TypeOK
    <3>4. job' \in [Storers -> 0 .. MaxShots \cup Clubs]
      BY <2>1, <3>1 DEF TypeOK
    <3> QED BY <2>1, <3>1, <3>3, <3>4 DEF TypeOK, BallPoints
  <2> QED BY <2>2, <2>3
<1> QED BY <1>1, <1>2, <1>3

LEMMA CameraKeepsTypes ==
  ASSUME TypeOK,
         \/ Arm \/ SetEnabled \/ \E u \in updates : UpdateMetadata(u)
         \/ \E s \in Shots : ShotDetected(s) \/ ClipSaved(s) \/ NoClip(s)
  PROVE  TypeOK'
<1> USE ShotAssumption DEF threadVars, shotVars, simVars, cycleVars
<1>1. CASE Arm
  BY <1>1 DEF Arm, TypeOK
<1>2. CASE SetEnabled
  BY <1>2 DEF SetEnabled, TypeOK
<1>3. ASSUME NEW u \in updates, UpdateMetadata(u) PROVE TypeOK'
  <2>1. u[1] \in Shots /\ u[2] \in Clubs
    BY DEF TypeOK
  <2>2. patched' \in [Clubs -> Seq(Shots)]
    <3>1. CASE patched' = patched
      BY <3>1 DEF TypeOK
    <3>2. CASE patched' = [patched EXCEPT ![u[2]] = Append(@, u[1])]
      <4>1. Append(patched[u[2]], u[1]) \in Seq(Shots)
        BY <2>1 DEF TypeOK
      <4> QED BY <3>2, <2>1, <4>1 DEF TypeOK
    <3> QED BY <1>3, <3>1, <3>2 DEF UpdateMetadata
  <2> QED BY <1>3, <2>2 DEF UpdateMetadata, TypeOK
<1>4. ASSUME NEW s \in Shots, ShotDetected(s) \/ NoClip(s) PROVE TypeOK'
  BY <1>4 DEF ShotDetected, NoClip, TypeOK
<1>5. ASSUME NEW s \in Shots, ClipSaved(s) PROVE TypeOK'
  <2>1. buffer # 0 => buffer \in Clubs
    BY DEF TypeOK, Clubs
  <2>2. updates' \subseteq Shots \X Clubs /\ apart' \subseteq Clubs
    BY <1>5, <2>1 DEF ClipSaved, Attach, TypeOK
  <2>3. filename' \in 0 .. MaxShots /\ buffer' \in 0 .. Len(of)
    BY <1>5 DEF ClipSaved, TypeOK, Shots
  <2> QED BY <1>5, <2>2, <2>3 DEF ClipSaved, TypeOK
<1> QED BY <1>1, <1>2, <1>3, <1>4, <1>5

\* A message under way is of a shot that has come.
LEMMA InFlightHasCome ==
  ASSUME TypeOK, Passing, Asked, Placed
  PROVE  InFlight \subseteq 1 .. lastBall /\ 1 .. lastBall \subseteq Shots
<1>1. asked \in Nat /\ lastBall \in Nat /\ asked <= lastBall /\ lastBall <= MaxShots
  BY ShotAssumption DEF TypeOK
<1>2. ASSUME NEW t \in Storers, pc[t] \in BallPoints PROVE job[t] \in 1 .. lastBall
  BY <1>1, <1>2 DEF Passing
<1>3. ASSUME NEW t \in Storers, pc[t] \in ClubPoints PROVE of[job[t]] \in 1 .. lastBall
  <2>1. job[t] \in DOMAIN of /\ of[job[t]] \in Shots /\ of[job[t]] <= asked
    BY <1>3 DEF Placed, Asked, TypeOK
  <2> QED BY <1>1, <2>1 DEF Shots
<1> QED BY <1>1, <1>2, <1>3, ShotAssumption DEF InFlight, BallPoints, ClubPoints, Shots

LEMMA LinkKeepsTypes ==
  ASSUME TypeOK, Passing, Asked, Placed,
         Connected \/ OnConnectedResetsShot \/ OnConnectedResetsLast \/ Disconnected
  PROVE  TypeOK'
<1> USE ShotAssumption DEF TypeOK, threadVars, shotVars, cameraVars, cycleVars
<1>a. InFlight \subseteq Shots
  BY InFlightHasCome
<1>1. CASE Connected
  BY <1>1, <1>a DEF Connected
<1>2. CASE OnConnectedResetsShot
  BY <1>2, <1>a DEF OnConnectedResetsShot
<1>3. CASE OnConnectedResetsLast
  BY <1>3, <1>a DEF OnConnectedResetsLast
<1>4. CASE Disconnected
  BY <1>4 DEF Disconnected
<1> QED BY <1>1, <1>2, <1>3, <1>4

-----------------------------------------------------------------------------
(* The clips                                                               *)

\* What no club metrics move in.
LEMMA ClubsStay ==
  ASSUME Placed, AttachedOnce, UNCHANGED <<of, buffer, updates, patched>>,
         \A t \in Storers : pc'[t] \in ClubPoints => pc[t] \in ClubPoints /\ job'[t] = job[t]
  PROVE  Placed' /\ AttachedOnce'
BY DEF Placed, AttachedOnce

LEMMA BallKeepsClips ==
  ASSUME TypeOK, Placed, AttachedOnce, NEW t \in Storers, BallCallback(t)
  PROVE  Placed' /\ AttachedOnce'
<1>1. UNCHANGED <<of, job, buffer, updates, patched>>
  BY DEF BallCallback, BallChecksLink, ReadShotNumber, IncrementShotNumber, CopyShotNumber, NumberBall,
     SendBall, AskForClip, shotVars, cameraVars
<1>2. PICK p \in BallPoints \cup {"idle"} : pc' = [pc EXCEPT ![t] = p]
  BY DEF BallCallback, BallChecksLink, ReadShotNumber, IncrementShotNumber, CopyShotNumber, NumberBall,
     SendBall, AskForClip, Goto, BallPoints
<1>3. ASSUME NEW u \in Storers, pc'[u] \in ClubPoints PROVE pc[u] \in ClubPoints /\ job'[u] = job[u]
  BY <1>1, <1>2, <1>3 DEF TypeOK, ClubPoints, BallPoints
<1> QED BY <1>1, <1>3, ClubsStay

LEMMA StoreClubKeepsClips ==
  ASSUME TypeOK, Placed, AttachedOnce, NEW t \in Storers, NEW s \in Shots, StoreClub(t, s)
  PROVE  Placed' /\ AttachedOnce'
<1> USE DEF StoreClub, Goto, cameraVars
<1> DEFINE n == Len(of) + 1
<1>1. /\ Len(of) \in Nat /\ n \in Clubs /\ Len(of') = n
      /\ buffer' = buffer /\ updates' = updates /\ patched' = patched
      /\ buffer \in 0 .. Len(of) /\ patched[n] = << >>
  BY ShotAssumption DEF TypeOK, Clubs, Placed
<1>2. /\ pc[t] = "idle" /\ job'[t] = n
      /\ \A u \in Storers \ {t} : pc'[u] = pc[u] /\ job'[u] = job[u]
  BY <1>1 DEF TypeOK
<1> HIDE DEF StoreClub, n
<1>3. ASSUME NEW u \in Storers, pc'[u] \in ClubPoints
      PROVE  /\ job'[u] \in 1 .. Len(of') /\ job'[u] # buffer
             /\ \A v \in Storers : pc'[v] \in ClubPoints /\ job'[v] = job'[u] => v = u
             /\ \A w \in updates : w[2] # job'[u]
             /\ patched[job'[u]] = << >>
  <2>1. \A v \in Storers \ {t} : pc'[v] \in ClubPoints => job'[v] = job[v] /\ job[v] \in 1 .. Len(of)
    BY <1>2 DEF Placed
  <2>2. \A w \in updates : w[2] \in 1 .. Len(of)
    BY DEF Placed
  <2>3. n \notin 0 .. Len(of) /\ n \in 1 .. n /\ 1 .. Len(of) \subseteq 1 .. n
    BY <1>1 DEF n
  <2>4. CASE u = t
    BY <2>4, <2>1, <2>2, <2>3, <1>1, <1>2
  <2>5. CASE u # t
    BY <2>5, <2>1, <2>3, <1>1, <1>2, <1>3 DEF Placed
  <2> QED BY <2>4, <2>5
<1>4. \A w \in updates : w[2] \in 1 .. Len(of') /\ w[2] # buffer /\ patched[w[2]] = << >>
  BY <1>1 DEF Placed, n
<1>5. \A c \in Clubs : c > Len(of') => patched[c] = << >>
  BY <1>1 DEF Placed, n, Clubs
<1> QED BY <1>1, <1>3, <1>4, <1>5 DEF Placed, AttachedOnce

LEMMA ClubKeepsClips ==
  ASSUME TypeOK, Placed, AttachedOnce, NEW t \in Storers, ClubCallback(t)
  PROVE  Placed' /\ AttachedOnce'
<1> USE DEF Goto, shotVars, simVars, cameraVars
<1>1. CASE ClubChecksLink(t) \/ NumberClub(t) \/ SendClub(t)
  <2>1. UNCHANGED <<of, job, buffer, updates, patched>>
    BY <1>1 DEF ClubChecksLink, NumberClub, SendClub
  <2>2. pc[t] \in ClubPoints
    BY <1>1 DEF ClubChecksLink, NumberClub, SendClub, ClubPoints
  <2>3. \A u \in Storers : u # t => pc'[u] = pc[u]
    BY <1>1 DEF ClubChecksLink, NumberClub, SendClub, TypeOK
  <2> QED BY <2>1, <2>2, <2>3, ClubsStay
<1>2. CASE ClubReadsFilename(t)
  <2>1. /\ UNCHANGED <<of, job, buffer, patched>>
        /\ updates' = updates \/ (updates' = updates \cup {<<filename, job[t]>>} /\ pc'[t] = "idle")
        /\ pc[t] \in ClubPoints
        /\ \A u \in Storers : u # t => pc'[u] = pc[u]
    BY <1>2 DEF ClubReadsFilename, Attach, TypeOK, ClubPoints
  <2>2. CASE updates' = updates
    BY <2>1, <2>2, ClubsStay
  <2>3. CASE updates' = updates \cup {<<filename, job[t]>>} /\ pc'[t] = "idle"
    BY <2>1, <2>3 DEF Placed, AttachedOnce, ClubPoints
  <2> QED BY <2>1, <2>2, <2>3
<1>3. CASE ClubIsBuffered(t)
  <2>1. /\ UNCHANGED <<of, job, updates, patched>> /\ buffer' = job[t] /\ pc'[t] = "idle"
        /\ pc[t] \in ClubPoints
        /\ \A u \in Storers : u # t => pc'[u] = pc[u]
    BY <1>3 DEF ClubIsBuffered, TypeOK, ClubPoints
  <2> QED BY <2>1 DEF Placed, AttachedOnce, ClubPoints
<1> QED BY <1>1, <1>2, <1>3 DEF ClubCallback

LEMMA CameraKeepsClips ==
  ASSUME TypeOK, Placed, AttachedOnce,
         \/ Arm \/ SetEnabled \/ \E u \in updates : UpdateMetadata(u)
         \/ \E s \in Shots : ShotDetected(s) \/ ClipSaved(s) \/ NoClip(s)
  PROVE  Placed' /\ AttachedOnce'
<1> USE DEF threadVars, shotVars
<1>1. CASE Arm
  <2>1. UNCHANGED <<of, pc, job, updates, patched>> /\ buffer' = 0
    BY <1>1 DEF Arm
  <2>2. 0 \notin 1 .. Len(of)
    OBVIOUS
  <2> QED BY <2>1, <2>2 DEF Placed, AttachedOnce
<1>2. CASE SetEnabled
  BY <1>2, ClubsStay DEF SetEnabled
<1>3. ASSUME NEW s \in Shots, ShotDetected(s) \/ NoClip(s) PROVE Placed' /\ AttachedOnce'
  BY <1>3, ClubsStay DEF ShotDetected, NoClip
<1>4. ASSUME NEW s \in Shots, ClipSaved(s) PROVE Placed' /\ AttachedOnce'
  <2>1. UNCHANGED <<of, pc, job, patched>> /\ buffer' = 0
    BY <1>4 DEF ClipSaved
  <2>2. 0 \notin 1 .. Len(of)
    OBVIOUS
  <2>3. CASE buffer = 0
    BY <1>4, <2>1, <2>2, <2>3 DEF ClipSaved, Placed, AttachedOnce
  <2>4. CASE buffer # 0
    <3>1. updates' = updates \cup {<<s, buffer>>} /\ buffer \in 1 .. Len(of)
      BY <1>4, <2>4 DEF ClipSaved, Attach, TypeOK
    <3> QED BY <2>1, <2>2, <2>4, <3>1 DEF Placed, AttachedOnce
  <2> QED BY <2>3, <2>4
<1>5. ASSUME NEW u \in updates, UpdateMetadata(u) PROVE Placed' /\ AttachedOnce'
  <2>1. UNCHANGED <<of, pc, job, buffer>> /\ updates' = updates \ {u}
    BY <1>5 DEF UpdateMetadata
  <2>2. CASE patched' = patched
    BY <2>1, <2>2 DEF Placed, AttachedOnce
  <2>3. CASE patched' = [patched EXCEPT ![u[2]] = Append(@, u[1])]
    <3>1. patched[u[2]] = << >> /\ u[2] \in Clubs /\ u[2] \in 1 .. Len(of) /\ u[2] # buffer
      BY DEF Placed, TypeOK
    <3>2. \A c \in Clubs : c # u[2] => patched'[c] = patched[c]
      BY <2>3 DEF TypeOK
    <3>3. Len(patched'[u[2]]) = 1
      BY <2>3, <3>1 DEF TypeOK
    <3>4. AttachedOnce'
      <4> SUFFICES ASSUME NEW c \in Clubs PROVE Len(patched'[c]) <= 1
        BY DEF AttachedOnce
      <4> QED BY <3>2, <3>3 DEF AttachedOnce
    <3>5. Placed'
      <4>1. 1 .. Len(of) \subseteq Clubs /\ Len(of) \in Nat /\ buffer \in 0 .. Len(of)
        BY ShotAssumption DEF TypeOK, Clubs
      <4>2. ASSUME NEW t \in Storers, pc[t] \in ClubPoints
            PROVE  job[t] \in 1 .. Len(of) /\ job[t] # u[2] /\ patched'[job[t]] = << >>
        BY <3>2, <4>1, <4>2 DEF Placed
      <4>3. ASSUME NEW w \in updates' PROVE patched'[w[2]] = << >>
        <5>1. w \in updates /\ w # u /\ w[2] \in 1 .. Len(of)
          BY <2>1 DEF Placed
        <5>2. w[2] # u[2]
          BY <5>1 DEF Placed
        <5> QED BY <5>1, <5>2, <3>2, <4>1 DEF Placed
      <4>4. buffer # 0 => patched'[buffer] = << >>
        BY <3>1, <3>2, <4>1 DEF Placed
      <4>5. ASSUME NEW c \in Clubs, c > Len(of) PROVE patched'[c] = << >>
        <5>1. c # u[2]
          BY <3>1, <4>1, <4>5
        <5> QED BY <5>1, <3>2, <4>5 DEF Placed
      <4> QED BY <2>1, <4>2, <4>3, <4>4, <4>5 DEF Placed
    <3> QED BY <3>4, <3>5
  <2> QED BY <1>5, <2>2, <2>3 DEF UpdateMetadata
<1> QED BY <1>1, <1>2, <1>3, <1>4, <1>5

-----------------------------------------------------------------------------
LEMMA Inductive == Inv /\ [Next]_vars => Inv'
<1> SUFFICES ASSUME Inv, [Next]_vars PROVE Inv'
  OBVIOUS
<1> USE DEF Inv
<1> DEFINE Camera == \/ Arm \/ SetEnabled \/ \E u \in updates : UpdateMetadata(u)
                     \/ \E s \in Shots : ShotDetected(s) \/ ClipSaved(s) \/ NoClip(s)
           Link == Connected \/ OnConnectedResetsShot \/ OnConnectedResetsLast \/ Disconnected
<1>1. ASSUME NEW t \in Storers, BallCallback(t) PROVE Inv'
  BY <1>1, BallKeepsMessages, BallKeepsTypes, BallKeepsClips DEF MessageInv
<1>2. ASSUME NEW t \in Storers, ClubCallback(t) PROVE Inv'
  BY <1>2, ClubKeepsMessages, ClubKeepsTypes, ClubKeepsClips
<1>3. ASSUME NEW t \in Storers, NEW s \in 1 .. asked, StoreClub(t, s) PROVE Inv'
  <2>1. s \in Shots
    BY ShotAssumption DEF TypeOK, Shots
  <2> QED BY <1>3, <2>1, StoreClubKeepsMessages, StoreClubKeepsTypes, StoreClubKeepsClips
<1>4. CASE BallBecomesReady \/ BallNotReady \/ \E s \in Shots : BallArrives(s)
  <2>1. TypeOK'
    BY <1>4, DeviceKeepsTypes
  <2>2. MessageInv'
    <3>1. CASE BallBecomesReady
      BY <3>1, MessagesStay DEF BallBecomesReady, messageVars, threadVars, simVars
    <3>2. CASE BallNotReady
      BY <3>2, MessagesStay DEF BallNotReady, messageVars, threadVars, simVars
    <3> QED BY <1>4, <3>1, <3>2, BallArrivesKeepsMessages
  <2>3. Placed' /\ AttachedOnce'
    <3>1. UNCHANGED <<of, buffer, updates, patched>>
      BY <1>4 DEF BallBecomesReady, BallNotReady, BallArrives, cameraVars, vars, shotVars
    <3>2. ASSUME NEW t \in Storers, pc'[t] \in ClubPoints PROVE pc[t] \in ClubPoints /\ job'[t] = job[t]
      <4>1. CASE BallBecomesReady \/ BallNotReady
        BY <3>2, <4>1 DEF BallBecomesReady, BallNotReady, threadVars
      <4>2. CASE \E s \in Shots : BallArrives(s)
        BY <3>2, <4>2 DEF BallArrives, Goto, TypeOK, ClubPoints, vars, threadVars
      <4> QED BY <1>4, <4>1, <4>2
    <3> QED BY <3>1, <3>2, ClubsStay
  <2> QED BY <2>1, <2>2, <2>3
<1>5. CASE Camera
  <2>1. UNCHANGED messageVars
    BY <1>5 DEF Arm, SetEnabled, UpdateMetadata, ShotDetected, ClipSaved, NoClip, messageVars, shotVars,
       threadVars, simVars
  <2> QED BY <1>5, <2>1, MessagesStay, CameraKeepsTypes, CameraKeepsClips
<1>6. CASE Link
  <2>1. UNCHANGED <<of, pc, job, buffer, updates, patched>>
    BY <1>6 DEF Connected, OnConnectedResetsShot, OnConnectedResetsLast, Disconnected, shotVars, threadVars,
       cameraVars
  <2>2. Placed' /\ AttachedOnce'
    BY <2>1, ClubsStay
  <2> QED BY <1>6, <2>2, LinkKeepsMessages, LinkKeepsTypes DEF MessageInv
<1>7. CASE UNCHANGED vars
  <2> USE <1>7 DEF vars, shotVars, threadVars, simVars, cameraVars, cycleVars
  <2>1. TypeOK'
    BY DEF TypeOK
  <2>2. MessageInv'
    BY MessagesStay DEF messageVars
  <2>3. Placed' /\ AttachedOnce'
    BY ClubsStay
  <2> QED BY <2>1, <2>2, <2>3
<1>8. CASE Next
  <2>1. CASE ClubFallsBack
    <3>1. asked \in 1 .. asked /\ "timer" \in Storers /\ StoreClub("timer", asked)
      BY <2>1 DEF ClubFallsBack, TypeOK, Storers
    <3> QED BY <3>1, <1>3
  <2>2. ASSUME NEW s \in Shots, ClubArrives(s) PROVE Inv'
    BY <2>2, <1>3 DEF ClubArrives, Storers
  <2> QED BY <1>1, <1>2, <1>4, <1>5, <1>6, <1>8, <2>1, <2>2 DEF Next
<1> QED BY <1>7, <1>8

LEMMA Invariance == Spec => []Inv
BY InitHolds, Inductive, PTL DEF Spec

\* Every variable keeps its type; no number runs ahead of the shots.
THEOREM TypeCorrect == Spec => []TypeOK
BY Invariance, PTL DEF Inv

\* A shot is sent at most once, although the device repeats its latest frame and however
\* often the connection comes and goes.
THEOREM SentOnce == Spec => []ShotOnce
<1>1. Inv => ShotOnce
  BY DEF Inv, MessageInv, Unsent, ShotOnce
<1> QED BY <1>1, Invariance, PTL

\* A shot's club metrics never reach the simulator before its ball metrics.
THEOREM BallFirst == Spec => []ClubAfterBall
<1>1. Inv => ClubAfterBall
  BY DEF Inv, MessageInv
<1> QED BY <1>1, Invariance, PTL

\* No club metrics are attached to two clips, or twice, whatever the camera's answers race.
THEOREM OneClip == Spec => []AttachedOnce
<1>1. Inv => AttachedOnce
  BY DEF Inv
<1> QED BY <1>1, Invariance, PTL

-----------------------------------------------------------------------------
(* Shots kept apart                                                        *)

\* What shots kept apart give: when the ball is ready no storer is at work and, once Arm
\* has had the lock, the camera remembers nothing; the timer never stores while a ball is
\* passed on; and club metrics on their way are those of the latest shot.
Kept ==
  cycle # "mixed" =>
    /\ cycle = "armed" =>
         /\ \A t \in Storers : pc[t] = "idle"
         /\ \A s \in Shots : snap[s] = "none"
         /\ arms = 0 => filename = 0 /\ buffer = 0
    /\ pc["notification"] \in BallPoints => pc["timer"] = "idle"
    /\ \A t \in Storers : pc[t] \in ClubPoints => of[job[t]] = lastBall

\* From the shot on, all that the camera plugin waits for and remembers is of this shot.
LatestOnly ==
  cycle = "shot" =>
    /\ \A s \in Shots : snap[s] # "none" => s = lastBall
    /\ filename \in {0, lastBall}
    /\ buffer # 0 => of[buffer] = lastBall

\* Club metrics that are in `apart` have gone to the clip of their shot.
Chosen ==
  /\ apart \subseteq 1 .. Len(of) /\ buffer \notin apart
  /\ \A t \in Storers : pc[t] \in ClubPoints => job[t] \notin apart
  /\ \A u \in updates : u[2] \in apart => u[1] = of[u[2]]

\* Without a camera plugin nothing is remembered.
NoCamera ==
  ~camera =>
    /\ ~enabled /\ filename = 0 /\ buffer = 0
    /\ \A t \in Storers : pc[t] # "buffer"
    /\ \A s \in Shots : snap[s] = "none"

ApartInv == Kept /\ LatestOnly /\ Chosen /\ NoCamera /\ RightClip
apartVars == <<lastBall, of, pc, job, cameraVars, cycleVars>>

LEMMA ApartInit == Init => ApartInv
<1> SUFFICES ASSUME Init PROVE ApartInv
  OBVIOUS
<1>1. Kept /\ LatestOnly /\ Chosen
  BY DEF Init, Kept, LatestOnly, Chosen, BallPoints, ClubPoints, Storers
<1>2. NoCamera
  BY DEF Init, NoCamera
<1>3. RightClip
  BY DEF Init, RightClip
<1> QED BY <1>1, <1>2, <1>3 DEF ApartInv

LEMMA ApartStays ==
  ASSUME ApartInv, UNCHANGED apartVars
  PROVE  ApartInv'
BY DEF ApartInv, apartVars, cameraVars, cycleVars, Kept, LatestOnly, Chosen, NoCamera, RightClip

LEMMA BallKeepsApart ==
  ASSUME Inv, ApartInv, NEW t \in Storers, BallCallback(t)
  PROVE  ApartInv'
<1> USE DEF ApartInv
<1>1. /\ t = "notification" /\ pc[t] \in BallPoints /\ job[t] = lastBall /\ lastBall \in Shots
  <2>1. pc[t] \in BallPoints
    BY DEF BallCallback, BallChecksLink, ReadShotNumber, IncrementShotNumber, CopyShotNumber,
       NumberBall, SendBall, AskForClip, BallPoints
  <2> QED BY <2>1 DEF Inv, MessageInv, Passing, TypeOK, Shots
<1>2. UNCHANGED <<cycle, apart, lastBall, of, job, camera, enabled, arms, filename, buffer, updates, patched>>
  BY DEF BallCallback, BallChecksLink, ReadShotNumber, IncrementShotNumber, CopyShotNumber, NumberBall,
     SendBall, AskForClip, shotVars, cameraVars, cycleVars
<1>3. snap' = snap \/ (enabled /\ snap' = [snap EXCEPT ![lastBall] = "started"])
  BY <1>1 DEF BallCallback, BallChecksLink, ReadShotNumber, IncrementShotNumber, CopyShotNumber,
     NumberBall, SendBall, AskForClip, cameraVars
<1>4. PICK p \in BallPoints \cup {"idle"} : pc' = [pc EXCEPT ![t] = p]
  BY DEF BallCallback, BallChecksLink, ReadShotNumber, IncrementShotNumber, CopyShotNumber, NumberBall,
     SendBall, AskForClip, Goto, BallPoints
<1>5. /\ \A u \in Storers : u # t => pc'[u] = pc[u]
      /\ pc'[t] \notin ClubPoints /\ pc[t] # "idle" /\ pc'[t] # "buffer"
  BY <1>1, <1>4 DEF Inv, TypeOK, BallPoints, ClubPoints
<1>6. Kept'
  BY <1>1, <1>2, <1>5 DEF Kept, Storers
<1>7. LatestOnly'
  BY <1>2, <1>3 DEF LatestOnly, Inv, TypeOK
<1>8. Chosen' /\ NoCamera' /\ RightClip'
  BY <1>2, <1>3, <1>5 DEF Chosen, NoCamera, RightClip
<1> QED BY <1>6, <1>7, <1>8

LEMMA ClubKeepsApart ==
  ASSUME Inv, ApartInv, NEW t \in Storers, ClubCallback(t)
  PROVE  ApartInv'
<1> USE DEF ApartInv
<1>1. /\ pc[t] \in ClubPoints
      /\ cycle # "mixed" => of[job[t]] = lastBall
      /\ job[t] \in 1 .. Len(of)
  BY DEF ClubCallback, ClubChecksLink, NumberClub, SendClub, ClubReadsFilename, ClubIsBuffered, ClubPoints,
     Kept, Inv, Placed
<1>2. UNCHANGED <<cycle, lastBall, of, job, camera, enabled, arms, snap, filename, patched>>
  BY DEF ClubCallback, ClubChecksLink, NumberClub, SendClub, ClubReadsFilename, ClubIsBuffered, shotVars,
     cameraVars, cycleVars
<1>3. \/ buffer' = buffer
      \/ buffer' = job[t] /\ pc[t] = "buffer"
  BY DEF ClubCallback, ClubChecksLink, NumberClub, SendClub, ClubReadsFilename, ClubIsBuffered, cameraVars
<1>4. \/ updates' = updates /\ apart' = apart
      \/ Attach(filename, job[t]) /\ filename # 0 /\ pc[t] = "metadata" /\ pc'[t] = "idle"
  BY DEF ClubCallback, ClubChecksLink, NumberClub, SendClub, ClubReadsFilename, ClubIsBuffered, cameraVars,
     cycleVars, Goto, Inv, TypeOK
<1>5. PICK p \in ClubPoints \cup {"idle"} :
        pc' = [pc EXCEPT ![t] = p] /\ (p = "buffer" => enabled)
  BY DEF ClubCallback, ClubChecksLink, NumberClub, SendClub, ClubReadsFilename, ClubIsBuffered, Goto,
     ClubPoints
<1>6. /\ \A u \in Storers : u # t => pc'[u] = pc[u]
      /\ pc'[t] = p /\ pc[t] # "idle" /\ p \notin BallPoints
  BY <1>1, <1>5 DEF Inv, TypeOK, BallPoints, ClubPoints
<1>7. Kept'
  <2> SUFFICES ASSUME cycle # "mixed" PROVE Kept'
    BY <1>2 DEF Kept
  <2>1. cycle # "armed"
    BY <1>6 DEF Kept
  <2>2. pc'["notification"] \in BallPoints => pc["notification"] \in BallPoints /\ t # "notification"
    BY <1>6 DEF Storers
  <2>3. ~(pc'["notification"] \in BallPoints)
    BY <1>6, <2>2 DEF Kept, Storers
  <2>4. \A u \in Storers : pc'[u] \in ClubPoints => of'[job'[u]] = lastBall'
    BY <1>1, <1>2, <1>6 DEF Kept
  <2> QED BY <1>2, <2>1, <2>3, <2>4 DEF Kept
<1>8. LatestOnly'
  BY <1>1, <1>2, <1>3, <1>4 DEF LatestOnly
<1>9. NoCamera'
  BY <1>2, <1>3, <1>5, <1>6 DEF NoCamera
<1>10. Chosen' /\ RightClip'
  <2>1. /\ job[t] \notin apart /\ patched[job[t]] = << >> /\ job[t] # 0
        /\ \A u \in Storers : pc[u] \in ClubPoints /\ job[u] = job[t] => u = t
        /\ \A u \in updates : u[2] # job[t]
        /\ job[t] # buffer
    BY <1>1 DEF Inv, Placed, Chosen
  <2>2. CASE updates' = updates /\ apart' = apart
    <3>1. buffer' \notin apart
      BY <1>3, <2>1 DEF Chosen
    <3>2. \A u \in Storers : pc'[u] \in ClubPoints => job[u] \notin apart
      BY <1>6, <2>1 DEF Chosen
    <3> QED BY <1>2, <2>2, <3>1, <3>2 DEF Chosen, RightClip
  <2>3. CASE Attach(filename, job[t]) /\ filename # 0 /\ pc[t] = "metadata" /\ pc'[t] = "idle"
    <3>1. updates' = updates \cup {<<filename, job[t]>>} /\ buffer' = buffer
      BY <1>3, <2>3 DEF Attach
    <3>2. \A u \in Storers : pc'[u] \in ClubPoints => u # t /\ pc[u] \in ClubPoints
      BY <1>6, <2>3 DEF ClubPoints
    <3>3. CASE cycle = "mixed"
      <4>1. apart' = apart
        BY <2>3, <3>3 DEF Attach
      <4> QED BY <1>2, <2>1, <3>1, <3>2, <4>1 DEF Chosen, RightClip
    <3>4. CASE cycle # "mixed"
      <4>1. apart' = apart \cup {job[t]}
        BY <2>3, <3>4 DEF Attach
      <4>2. filename = of[job[t]]
        <5>1. cycle = "shot"
          BY <3>4, <2>3 DEF Kept, Inv, TypeOK
        <5>2. filename \in {0, lastBall} /\ filename # 0
          BY <5>1, <2>3 DEF LatestOnly
        <5> QED BY <1>1, <3>4, <5>2
      <4>3. Chosen'
        <5>1. apart' \subseteq 1 .. Len(of) /\ buffer' \notin apart'
          BY <1>1, <2>1, <3>1, <4>1 DEF Chosen
        <5>2. \A u \in Storers : pc'[u] \in ClubPoints => job[u] \notin apart'
          BY <2>1, <3>2, <4>1 DEF Chosen
        <5>3. \A u \in updates' : u[2] \in apart' => u[1] = of[u[2]]
          BY <2>1, <3>1, <4>1, <4>2 DEF Chosen
        <5> QED BY <1>2, <5>1, <5>2, <5>3 DEF Chosen
      <4>4. RightClip'
        BY <1>2, <2>1, <4>1 DEF RightClip
      <4> QED BY <4>3, <4>4
    <3> QED BY <3>3, <3>4
  <2> QED BY <1>4, <2>2, <2>3
<1> QED BY <1>7, <1>8, <1>9, <1>10

LEMMA StoreClubKeepsApart ==
  ASSUME Inv, ApartInv, NEW t \in Storers, NEW s \in 1 .. asked, s \in Shots, StoreClub(t, s)
  PROVE  ApartInv'
<1> USE DEF ApartInv
<1> DEFINE n == Len(of) + 1
<1>1. /\ UNCHANGED <<lastBall, camera, enabled, arms, snap, filename, buffer, updates, patched, apart>>
      /\ cycle' # "mixed" => cycle = "shot" /\ cycle' = "shot" /\ s = lastBall
      /\ pc[t] = "idle"
  BY DEF StoreClub, cameraVars, Cycle
<1>2. /\ of' = Append(of, s) /\ Len(of) \in Nat /\ n \in Clubs
      /\ job' = [job EXCEPT ![t] = n]
      /\ \A i \in 1 .. Len(of) : of'[i] = of[i]
      /\ of'[n] = s
  <2>1. of \in Seq(Shots) /\ Len(of) \in Nat /\ n \in Clubs
    BY ShotAssumption DEF StoreClub, Inv, TypeOK, Clubs
  <2>2. of' = Append(of, s) /\ Len(of') = n
    BY <2>1 DEF StoreClub
  <2>3. job' = [job EXCEPT ![t] = n]
    BY <2>2 DEF StoreClub
  <2> QED BY <2>1, <2>2, <2>3
<1>3. /\ \A u \in Storers : u # t => pc'[u] = pc[u] /\ job'[u] = job[u]
      /\ pc'[t] = "club" /\ job'[t] = n
  BY <1>2 DEF StoreClub, Goto, Inv, TypeOK
<1>4. Kept'
  <2> SUFFICES ASSUME cycle' # "mixed" PROVE Kept'
    BY DEF Kept
  <2>1. cycle = "shot" /\ cycle' = "shot" /\ s = lastBall
    BY <1>1
  <2>2. pc["notification"] \notin BallPoints
    BY <2>1 DEF Inv, TypeOK, MessageInv, Passing, Storers
  <2>3. pc'["notification"] \notin BallPoints
    BY <1>3, <2>2 DEF BallPoints, Storers
  <2>4. ASSUME NEW u \in Storers, pc'[u] \in ClubPoints PROVE of'[job'[u]] = lastBall'
    <3>1. CASE u = t
      BY <3>1, <1>1, <1>2, <1>3, <2>1
    <3>2. CASE u # t
      <4>1. pc[u] \in ClubPoints /\ job'[u] = job[u] /\ job[u] \in 1 .. Len(of)
        BY <3>2, <2>4, <1>3 DEF Inv, Placed
      <4> QED BY <4>1, <1>1, <1>2, <2>1 DEF Kept
    <3> QED BY <3>1, <3>2
  <2> QED BY <2>1, <2>3, <2>4 DEF Kept
<1>5. LatestOnly'
  <2>1. /\ buffer # 0 => buffer \in 1 .. Len(of)
        /\ \A u \in updates : u[2] \in 1 .. Len(of)
    BY DEF Inv, TypeOK, Placed
  <2> QED BY <2>1, <1>1, <1>2 DEF LatestOnly
<1>6. RightClip' /\ Chosen'
  <2>1. \A c \in apart : c \in 1 .. Len(of) /\ of'[c] = of[c]
    BY <1>2 DEF Chosen
  <2>2. Len(of') = n /\ n \notin apart /\ apart \subseteq 1 .. n
    BY <1>2, <2>1 DEF Inv, TypeOK
  <2>3. \A u \in Storers : pc'[u] \in ClubPoints => job'[u] \notin apart
    BY <1>3, <2>2 DEF Chosen
  <2> QED BY <2>1, <2>2, <2>3, <1>1 DEF Chosen, RightClip
<1>7. NoCamera'
  BY <1>1, <1>3 DEF NoCamera
<1> QED BY <1>4, <1>5, <1>6, <1>7

LEMMA DeviceKeepsApart ==
  ASSUME Inv, ApartInv, BallBecomesReady \/ BallNotReady \/ \E s \in Shots : BallArrives(s)
  PROVE  ApartInv'
<1> USE DEF ApartInv
<1>1. CASE BallBecomesReady
  <2> USE <1>1 DEF BallBecomesReady
  <2>1. /\ UNCHANGED <<lastBall, of, pc, job, camera, enabled, snap, filename, buffer, updates, patched>>
        /\ pc["notification"] = "idle"
        /\ cycle' \in {"armed", "mixed"} /\ apart' = apart
        /\ cycle' # "mixed" => (camera => enabled) /\ Settled
        /\ enabled => arms' = arms + 1
    BY DEF threadVars, Cycle
  <2>2. Kept'
    <3> SUFFICES ASSUME cycle' # "mixed" PROVE Kept'
      BY DEF Kept
    <3>1. \A t \in Storers : pc[t] = "idle"
      BY <2>1 DEF Settled, Storers
    <3>2. \A s \in Shots : snap[s] = "none"
      BY <2>1 DEF Settled
    <3>3. arms' = 0 => filename = 0 /\ buffer = 0
      BY <2>1 DEF NoCamera, Inv, TypeOK
    <3> QED BY <2>1, <3>1, <3>2, <3>3 DEF Kept, ClubPoints, Storers
  <2> QED BY <2>1, <2>2 DEF LatestOnly, Chosen, NoCamera, RightClip
<1>2. CASE BallNotReady
  BY <1>2, ApartStays DEF BallNotReady, apartVars, threadVars
<1>3. ASSUME NEW s \in Shots, BallArrives(s) PROVE ApartInv'
  <2>a. CASE s = lastBall
    BY <1>3, <2>a, ApartStays DEF BallArrives, vars, shotVars, threadVars, apartVars
  <2> SUFFICES ASSUME s # lastBall PROVE ApartInv'
    BY <2>a
  <2>1. /\ UNCHANGED <<of, camera, enabled, arms, snap, filename, buffer, updates, patched, apart>>
        /\ pc["notification"] = "idle" /\ s = lastBall + 1 /\ lastBall' = s
        /\ cycle' # "mixed" => cycle = "armed" /\ cycle' = "shot" /\ arms = 0
    BY <1>3 DEF BallArrives, Cycle, cameraVars
  <2>2. /\ pc'["notification"] = "ball"
        /\ pc'["timer"] = pc["timer"] /\ job'["timer"] = job["timer"]
    BY <1>3 DEF BallArrives, Goto, Inv, TypeOK, Storers
  <2>3. Kept'
    <3> SUFFICES ASSUME cycle' # "mixed" PROVE Kept'
      BY DEF Kept
    <3>1. pc["timer"] = "idle"
      BY <2>1 DEF Kept, Storers
    <3> QED BY <2>1, <2>2, <3>1 DEF Kept, ClubPoints, Storers
  <2>4. LatestOnly'
    BY <2>1 DEF LatestOnly, Kept
  <2>5. NoCamera' /\ RightClip'
    BY <2>1, <2>2 DEF NoCamera, RightClip, Storers
  <2>6. Chosen'
    BY <2>1, <2>2 DEF Chosen, Storers, ClubPoints
  <2> QED BY <2>3, <2>4, <2>5, <2>6
<1> QED BY <1>1, <1>2, <1>3

LEMMA CameraKeepsApart ==
  ASSUME Inv, ApartInv,
         \/ Arm \/ SetEnabled \/ \E u \in updates : UpdateMetadata(u)
         \/ \E s \in Shots : ShotDetected(s) \/ ClipSaved(s) \/ NoClip(s)
  PROVE  ApartInv'
<1> USE DEF ApartInv, shotVars, threadVars, cycleVars
<1>1. CASE Arm
  <2>1. 0 \notin apart
    BY DEF Chosen
  <2> QED BY <1>1, <2>1 DEF Arm, Kept, LatestOnly, Chosen, NoCamera, RightClip
<1>2. CASE SetEnabled
  BY <1>2 DEF SetEnabled, Kept, LatestOnly, Chosen, NoCamera, RightClip
<1>3. ASSUME NEW u \in updates, UpdateMetadata(u) PROVE ApartInv'
  <2>1. /\ UNCHANGED <<lastBall, of, pc, job, camera, enabled, arms, snap, filename, buffer, cycle, apart>>
        /\ updates' = updates \ {u}
        /\ patched' = patched \/ patched' = [patched EXCEPT ![u[2]] = Append(@, u[1])]
    BY <1>3 DEF UpdateMetadata
  <2>2. Kept' /\ LatestOnly' /\ Chosen' /\ NoCamera'
    BY <2>1 DEF Kept, LatestOnly, Chosen, NoCamera
  <2>3. RightClip'
    <3>1. CASE patched' = patched
      BY <3>1, <2>1 DEF RightClip
    <3>2. CASE patched' = [patched EXCEPT ![u[2]] = Append(@, u[1])]
      <4> SUFFICES ASSUME NEW c \in apart, NEW i \in DOMAIN patched'[c]
                   PROVE  patched'[c][i] = of[c]
        BY <2>1 DEF RightClip
      <4>1. u[2] \in Clubs /\ u[1] \in Shots /\ patched[u[2]] = << >> /\ c \in Clubs
        BY DEF Inv, TypeOK, Placed
      <4>2. CASE c = u[2]
        <5>1. patched'[c] = <<u[1]>>
          BY <3>2, <4>1, <4>2 DEF Inv, TypeOK
        <5>2. u[1] = of[u[2]]
          BY <4>2 DEF Chosen
        <5> QED BY <4>2, <5>1, <5>2
      <4>3. CASE c # u[2]
        <5>1. patched'[c] = patched[c]
          BY <3>2, <4>1, <4>3 DEF Inv, TypeOK
        <5> QED BY <5>1 DEF RightClip
      <4> QED BY <4>2, <4>3
    <3> QED BY <2>1, <3>1, <3>2
  <2> QED BY <2>2, <2>3
<1>4. ASSUME NEW s \in Shots, ShotDetected(s) \/ NoClip(s) PROVE ApartInv'
  <2>1. /\ UNCHANGED <<lastBall, of, pc, job, camera, enabled, arms, filename, buffer, updates, patched, cycle, apart>>
        /\ snap[s] # "none"
        /\ \A r \in Shots : r # s => snap'[r] = snap[r]
    BY <1>4 DEF ShotDetected, NoClip, Inv, TypeOK
  <2> QED BY <2>1 DEF Kept, LatestOnly, Chosen, NoCamera, RightClip
<1>5. ASSUME NEW s \in Shots, ClipSaved(s) PROVE ApartInv'
  <2>1. /\ UNCHANGED <<lastBall, of, pc, job, camera, enabled, arms, patched, cycle>>
        /\ snap[s] = "posted" /\ filename' = s /\ buffer' = 0
        /\ \A r \in Shots : r # s => snap'[r] = snap[r]
        /\ \/ updates' = updates /\ apart' = apart
           \/ buffer # 0 /\ Attach(s, buffer)
    BY <1>5 DEF ClipSaved, Inv, TypeOK
  <2>2. Kept' /\ LatestOnly'
    BY <2>1 DEF Kept, LatestOnly
  <2>3. 0 \notin apart /\ 0 \notin 1 .. Len(of)
    BY DEF Chosen
  <2>4. CASE updates' = updates /\ apart' = apart
    BY <2>1, <2>2, <2>3, <2>4 DEF NoCamera, RightClip, Chosen
  <2>5. CASE buffer # 0 /\ Attach(s, buffer)
    <3>1. /\ updates' = updates \cup {<<s, buffer>>}
          /\ buffer \in 1 .. Len(of) /\ patched[buffer] = << >>
          /\ \A u \in updates : u[2] # buffer
          /\ \A t \in Storers : pc[t] \in ClubPoints => job[t] # buffer
      BY <2>5 DEF Attach, Inv, TypeOK, Placed
    <3>2. CASE cycle = "mixed"
      <4>1. apart' = apart
        BY <2>5, <3>2 DEF Attach
      <4> QED BY <2>1, <2>2, <2>3, <3>1, <4>1 DEF NoCamera, RightClip, Chosen
    <3>3. CASE cycle # "mixed"
      <4>1. apart' = apart \cup {buffer}
        BY <2>5, <3>3 DEF Attach
      <4>2. s = of[buffer]
        <5>1. cycle = "shot"
          BY <2>1, <3>3 DEF Kept, Inv, TypeOK
        <5> QED BY <2>1, <2>5, <5>1 DEF LatestOnly
      <4>3. Chosen'
        BY <2>1, <2>3, <3>1, <4>1, <4>2 DEF Chosen
      <4>4. RightClip'
        BY <2>1, <3>1, <4>1 DEF RightClip
      <4> QED BY <2>1, <2>2, <4>3, <4>4 DEF NoCamera
    <3> QED BY <3>2, <3>3
  <2> QED BY <2>1, <2>4, <2>5
<1> QED BY <1>1, <1>2, <1>3, <1>4, <1>5

-----------------------------------------------------------------------------
(* The numbers of a connection                                             *)

\* Where a shot that is being passed on is before it has been sent.
SendPoints == {"ball", "count", "next", "last", "number", "sendball"}

\* The messages of the connection that the numbers are promised for.
Named == {i \in DOMAIN wire : InTime(wire[i])}

\* There is none before OnConnected is over, nor until the first shot after it.
Opening ==
  /\ early \subseteq 1 .. lastBall
  /\ link \in {"fresh", "half"} \/ lastBall \in early => Named = {}

\* They are of shots that have come; the shot that is being passed on has none yet.
Past ==
  /\ \A i \in Named : wire[i].shot <= lastBall
  /\ pc["notification"] \in SendPoints => \A i \in Named : wire[i].shot < lastBall

\* On an open connection they bear no number above lastShotNumber, which is that of the
\* latest shot and, while this is given its number, moves above theirs.
Numbered ==
  link = "open" =>
    /\ lastShotNumber <= shotNumber
    /\ pc["notification"] = "next" => lastShotNumber <= num["notification"]
    /\ pc["notification"] = "last" /\ lastBall \notin early => lastShotNumber < shotNumber
    /\ \A i \in Named : wire[i].number <= lastShotNumber
    /\ pc["notification"] \in {"number", "sendball"} =>
         \A i \in Named : wire[i].number < lastShotNumber
    /\ pc["notification"] \notin SendPoints =>
         \A i \in Named : wire[i].number = lastShotNumber <=> wire[i].shot = lastBall

\* What a storer is about to send of the latest shot bears lastShotNumber.
Copied ==
  link = "open" /\ lastBall \notin early =>
    /\ pc["notification"] = "sendball" => num["notification"] = lastShotNumber
    /\ \A t \in Storers : pc[t] = "sendclub" /\ of[job[t]] = lastBall => num[t] = lastShotNumber

NumberInv == Opening /\ Past /\ Numbered /\ Copied /\ NumbersNameShots

LEMMA NumberInit == Init => NumberInv
<1> SUFFICES ASSUME Init PROVE NumberInv
  OBVIOUS
<1>1. Named = {}
  BY DEF Init, Named
<1> QED BY <1>1 DEF Init, NumberInv, Opening, Past, Numbered, Copied, NumbersNameShots, SendPoints

LEMMA NumbersStay ==
  ASSUME NumberInv, UNCHANGED <<lastBall, of, pc, job, num, simVars>>
  PROVE  NumberInv'
<1>1. Named' = Named
  BY DEF Named, InTime, simVars
<1>2. \A i \in Named : wire'[i] = wire[i]
  BY DEF simVars
<1>3. Opening' /\ Past' /\ Numbered' /\ Copied'
  BY <1>1, <1>2 DEF NumberInv, simVars, Opening, Past, Numbered, Copied
<1>4. NumbersNameShots'
  BY DEF NumberInv, simVars, NumbersNameShots, InTime
<1> QED BY <1>3, <1>4 DEF NumberInv

LEMMA NumberTypes ==
  ASSUME Inv
  PROVE  /\ lastBall \in Nat /\ shotNumber \in Nat /\ lastShotNumber \in Nat
         /\ num \in [Storers -> Nat]
         /\ wire \in Seq(Messages)
         /\ \A i \in DOMAIN wire : wire[i].number \in Nat /\ wire[i].shot \in Nat
<1>1. \A i \in DOMAIN wire : wire[i] \in Messages
  BY DEF Inv, MessageInv, Asked
<1>2. \A i \in DOMAIN wire : wire[i].number \in Nat /\ wire[i].shot \in Nat
  BY <1>1, ShotAssumption DEF Messages, Shots
<1>3. num \in [Storers -> Nat]
  BY ShotAssumption DEF Inv, TypeOK
<1> QED BY <1>2, <1>3, ShotAssumption DEF Inv, MessageInv, Asked, TypeOK

\* What the steps that send nothing and make no connection leave alone.
LEMMA WireStays ==
  ASSUME NumberInv, UNCHANGED <<wire, early>>
  PROVE  /\ NumbersNameShots'
         /\ Named' = Named /\ \A i \in Named : wire'[i] = wire[i]
BY DEF NumberInv, NumbersNameShots, InTime, Named

LEMMA Appended ==
  ASSUME wire \in Seq(Messages), NEW m \in Messages, wire' = Append(wire, m)
  PROVE  /\ Len(wire) + 1 \in DOMAIN wire' /\ wire'[Len(wire) + 1] = m
         /\ \A i \in DOMAIN wire' : i # Len(wire) + 1 => i \in DOMAIN wire /\ wire'[i] = wire[i]
OBVIOUS

\* Of the messages that the numbers are promised for, SendMessage adds the one it was given,
\* if it is of the latest shot, or none.
LEMMA WriteAdds ==
  ASSUME Inv, NEW m \in Messages, m.last = lastBall, Write(m)
  PROVE  /\ link' = "open" => link = "open" /\ early' = early
         /\ link' \in {"fresh", "half"} => link' = link
         /\ link = "open" => early' = early
         /\ early \subseteq early' /\ early' \subseteq early \cup {m.shot}
         /\ link' = "down" \/ link \in {"fresh", "half", "open"}
         /\ link = "down" => early' = early
         /\ \A i \in Named' :
              \/ i \in Named /\ wire'[i] = wire[i]
              \/ wire'[i] = m /\ m.shot = lastBall /\ link = "open" /\ lastBall \notin early
<1>1. CASE link \in {"open", "down"} /\ wire' = wire /\ link' = "down" /\ early' = early
  BY <1>1 DEF Named, InTime
<1>2. CASE Up /\ wire' = Append(wire, m) /\ link' = link
           /\ early' = early \cup (IF link = "open" THEN {} ELSE {m.shot})
  <2>1. early \subseteq early' /\ (link = "open" => early' = early) /\ (link # "open" => m.shot \in early')
    BY <1>2
  <2>2. link \in {"fresh", "half", "open"}
    BY <1>2 DEF Up, Inv, TypeOK
  <2>3. ASSUME NEW i \in Named'
        PROVE  \/ i \in Named /\ wire'[i] = wire[i]
               \/ wire'[i] = m /\ m.shot = lastBall /\ link = "open" /\ lastBall \notin early
    <3>1. i \in DOMAIN wire' /\ wire'[i].shot = wire'[i].last /\ wire'[i].shot \notin early'
      BY DEF Named, InTime
    <3>2. wire'[i] = m \/ (i \in DOMAIN wire /\ wire'[i] = wire[i])
      BY <1>2, <3>1, NumberTypes, Appended
    <3>3. CASE wire'[i] = m
      BY <2>1, <3>1, <3>3
    <3>4. CASE i \in DOMAIN wire /\ wire'[i] = wire[i]
      BY <2>1, <3>1, <3>4 DEF Named, InTime
    <3> QED BY <3>2, <3>3, <3>4
  <2> QED BY <1>2, <2>1, <2>2, <2>3
<1> QED BY <1>1, <1>2 DEF Write

\* A message of the latest shot with its number, or of another shot.
LEMMA WriteNames ==
  ASSUME Inv, NumberInv, NEW m \in Messages, m.last = lastBall, m.shot \in 1 .. lastBall, Write(m),
         UNCHANGED <<lastBall, shotNumber, lastShotNumber>>,
         m.shot = lastBall /\ link = "open" /\ lastBall \notin early =>
           /\ m.number = lastShotNumber
           /\ \A i \in Named : wire[i].number = lastShotNumber <=> wire[i].shot = lastBall
  PROVE  /\ NumbersNameShots' /\ Opening'
         /\ \A i \in Named' : wire'[i].shot <= lastBall
         /\ link' = "open" => \A i \in Named' : wire'[i].number <= lastShotNumber
         /\ m.shot = lastBall /\ link' = "open" =>
              \A i \in Named' : wire'[i].number = lastShotNumber <=> wire'[i].shot = lastBall
         /\ m.shot # lastBall => Named' \subseteq Named /\ \A i \in Named' : wire'[i] = wire[i]
<1> DEFINE Old(i) == i \in Named /\ wire'[i] = wire[i]
           New(i) == wire'[i] = m /\ m.shot = lastBall /\ link = "open" /\ lastBall \notin early
<1>1. \A i \in Named' : Old(i) \/ New(i)
  BY WriteAdds
<1>2. /\ link' = "open" => link = "open" /\ early' = early
      /\ link' \in {"fresh", "half"} => link' = link
      /\ link \in {"open", "down"} => early' = early
      /\ early \subseteq early' /\ early' \subseteq early \cup {m.shot}
      /\ link \in {"down", "fresh", "half", "open"}
  BY WriteAdds DEF Inv, TypeOK
<1>3. Named \subseteq DOMAIN wire
  BY DEF Named
<1>4. \A i \in Named : wire[i].number \in Nat /\ wire[i].shot \in Nat /\ wire[i].shot <= lastBall
  BY <1>3, NumberTypes DEF NumberInv, Past
<1>5. lastBall \in Nat /\ lastShotNumber \in Nat /\ m.shot \in Nat
  BY NumberTypes DEF Messages
<1>6. Opening'
  <2>1. early' \subseteq 1 .. lastBall'
    BY <1>2 DEF NumberInv, Opening
  <2>2. ASSUME link' \in {"fresh", "half"} \/ lastBall' \in early', NEW i \in Named' PROVE FALSE
    <3>1. CASE New(i)
      BY <1>2, <2>2, <3>1
    <3>2. CASE Old(i)
      BY <1>2, <2>2, <3>2 DEF NumberInv, Opening
    <3> QED BY <1>1, <3>1, <3>2
  <2> QED BY <2>1, <2>2 DEF Opening
<1>7. \A i \in Named' : wire'[i].shot <= lastBall
  BY <1>1, <1>4, <1>5
<1>8. link' = "open" => \A i \in Named' : wire'[i].number <= lastShotNumber
  <2>1. ASSUME link' = "open", NEW i \in Named' PROVE wire'[i].number <= lastShotNumber
    <3>1. CASE New(i)
      BY <1>5, <3>1
    <3>2. CASE Old(i)
      BY <1>2, <2>1, <3>2 DEF NumberInv, Numbered
    <3> QED BY <1>1, <3>1, <3>2
  <2> QED BY <2>1
<1>9. m.shot = lastBall /\ link' = "open" =>
        \A i \in Named' : wire'[i].number = lastShotNumber <=> wire'[i].shot = lastBall
  <2>1. ASSUME m.shot = lastBall, link' = "open", NEW i \in Named'
        PROVE  wire'[i].number = lastShotNumber <=> wire'[i].shot = lastBall
    <3>1. CASE New(i)
      BY <3>1
    <3>2. CASE Old(i)
      <4>1. link = "open" /\ lastBall \notin early
        BY <1>2, <2>1, <3>2 DEF NumberInv, Opening
      <4> QED BY <2>1, <3>2, <4>1
    <3> QED BY <1>1, <3>1, <3>2
  <2> QED BY <2>1
<1>10. NumbersNameShots'
  <2>1. ASSUME NEW i \in Named', NEW j \in Named'
        PROVE  wire'[i].number = wire'[j].number <=> wire'[i].shot = wire'[j].shot
    <3>1. CASE Old(i) /\ Old(j)
      BY <3>1 DEF NumberInv, NumbersNameShots, Named
    <3>2. CASE New(i) /\ New(j)
      BY <3>2
    <3>3. CASE New(i) /\ Old(j)
      BY <3>3
    <3>4. CASE Old(i) /\ New(j)
      BY <3>4
    <3> QED BY <1>1, <3>1, <3>2, <3>3, <3>4
  <2> QED BY <2>1 DEF NumbersNameShots, Named
<1>11. m.shot # lastBall => Named' \subseteq Named /\ \A i \in Named' : wire'[i] = wire[i]
  BY <1>1
<1> QED BY <1>6, <1>7, <1>8, <1>9, <1>10, <1>11

\* While a shot is being passed on, nothing is stored of it.
LEMMA NoClubYet ==
  ASSUME Inv, pc["notification"] \in BallPoints, NEW t \in Storers, pc[t] \in ClubPoints
  PROVE  of[job[t]] # lastBall
<1>1. asked < lastBall /\ asked \in Nat /\ lastBall \in Nat
  BY DEF Inv, MessageInv, Passing, TypeOK, Storers
<1>2. job[t] \in DOMAIN of /\ of[job[t]] <= asked /\ of[job[t]] \in Shots
  BY DEF Inv, MessageInv, Asked, Placed, TypeOK
<1> QED BY <1>1, <1>2 DEF Shots

LEMMA BallKeepsNumbers ==
  ASSUME Inv, NumberInv, NEW t \in Storers, BallCallback(t)
  PROVE  NumberInv'
<1> USE NumberTypes DEF NumberInv, shotVars, simVars
<1>1. /\ t = "notification" /\ pc[t] \in BallPoints /\ job[t] = lastBall /\ lastBall \in Shots
  <2>1. pc[t] \in BallPoints
    BY DEF BallCallback, BallChecksLink, ReadShotNumber, IncrementShotNumber, CopyShotNumber,
       NumberBall, SendBall, AskForClip, BallPoints
  <2> QED BY <2>1 DEF Inv, MessageInv, Passing, TypeOK, Shots
<1>2. UNCHANGED <<lastBall, of, job>>
  BY DEF BallCallback, BallChecksLink, ReadShotNumber, IncrementShotNumber, CopyShotNumber, NumberBall,
     SendBall, AskForClip
<1>3. \A p : Goto(t, p) => pc'[t] = p /\ \A u \in Storers : u # t => pc'[u] = pc[u]
  BY DEF Goto, Inv, TypeOK
<1>4. \A u \in Storers : pc[u] \in ClubPoints => of[job[u]] # lastBall
  BY <1>1, NoClubYet
<1>5. \A u \in Storers : pc'[u] = "sendclub" => u # t /\ pc[u] \in ClubPoints /\ of[job[u]] # lastBall
  <2>1. pc'[t] # "sendclub"
    BY <1>3 DEF BallCallback, BallChecksLink, ReadShotNumber, IncrementShotNumber, CopyShotNumber,
       NumberBall, SendBall, AskForClip
  <2>2. PICK p \in BallPoints \cup {"idle"} : Goto(t, p)
    BY DEF BallCallback, BallChecksLink, ReadShotNumber, IncrementShotNumber, CopyShotNumber, NumberBall,
       SendBall, AskForClip, BallPoints
  <2> QED BY <1>3, <1>4, <2>1, <2>2 DEF ClubPoints
<1>6. CASE SendBall(t)
  <2> DEFINE m == [kind |-> "ball", shot |-> job[t], number |-> num[t], last |-> lastBall]
  <2>1. pc[t] = "sendball" /\ pc'[t] = "clip" /\ Write(m)
    BY <1>3, <1>6 DEF SendBall
  <2>2. m \in Messages /\ m.last = lastBall /\ m.shot = lastBall /\ m.shot \in 1 .. lastBall
    BY <1>1 DEF Messages, Shots
  <2>3. link = "open" /\ lastBall \notin early =>
          /\ m.number = lastShotNumber
          /\ \A i \in Named : wire[i].number = lastShotNumber <=> wire[i].shot = lastBall
    <3>1. link = "open" /\ lastBall \notin early => m.number = lastShotNumber
      BY <1>1, <2>1 DEF Copied
    <3>2. ASSUME link = "open", NEW i \in Named
          PROVE  wire[i].number < lastShotNumber /\ wire[i].shot < lastBall
      BY <1>1, <2>1, <3>2 DEF Numbered, Past, SendPoints
    <3>3. \A i \in Named : wire[i].number \in Nat /\ wire[i].shot \in Nat
      BY DEF Named
    <3> QED BY <3>1, <3>2, <3>3
  <2>4. UNCHANGED <<lastBall, num, shotNumber, lastShotNumber>>
    BY <1>6 DEF SendBall
  <2>5. link' = "open" => link = "open" /\ early' = early
    <3> HIDE DEF m
    <3> QED BY <2>1, <2>2, WriteAdds
  <2>6. /\ NumbersNameShots' /\ Opening'
        /\ \A i \in Named' : wire'[i].shot <= lastBall
        /\ link' = "open" => \A i \in Named' : wire'[i].number <= lastShotNumber
        /\ link' = "open" =>
             \A i \in Named' : wire'[i].number = lastShotNumber <=> wire'[i].shot = lastBall
    <3> HIDE DEF m
    <3> QED BY <2>1, <2>2, <2>3, <2>4, WriteNames
  <2>7. Past'
    BY <1>1, <2>1, <2>4, <2>6 DEF Past, SendPoints
  <2>8. Numbered'
    BY <1>1, <2>1, <2>4, <2>5, <2>6 DEF Numbered, SendPoints
  <2>9. Copied'
    BY <1>1, <1>2, <1>5, <2>1 DEF Copied
  <2> QED BY <2>6, <2>7, <2>8, <2>9
<1>7. CASE ~SendBall(t)
  <2>1. UNCHANGED <<wire, early, link>>
    BY <1>7 DEF BallCallback, BallChecksLink, ReadShotNumber, IncrementShotNumber, CopyShotNumber,
       NumberBall, AskForClip
  <2>2. NumbersNameShots' /\ Named' = Named /\ \A i \in Named : wire'[i] = wire[i]
    BY <2>1, WireStays
  <2>a. \A i \in Named : wire[i].number \in Nat /\ wire[i].shot \in Nat
    BY DEF Named
  <2>3. Opening'
    BY <1>2, <2>1, <2>2 DEF Opening
  <2>b. pc["notification"] \in SendPoints \/ pc'["notification"] \notin SendPoints
    BY <1>1, <1>3, <1>7 DEF BallCallback, BallChecksLink, ReadShotNumber, IncrementShotNumber, CopyShotNumber,
       NumberBall, AskForClip, SendPoints
  <2>c. pc'["notification"] = "sendball" =>
          num'["notification"] = lastShotNumber /\ lastShotNumber' = lastShotNumber
    <3>1. CASE NumberBall(t)
      <4>1. num' = [num EXCEPT !["notification"] = lastShotNumber] /\ lastShotNumber' = lastShotNumber
        BY <1>1, <3>1 DEF NumberBall
      <4> QED BY <4>1, NumberTypes DEF Storers
    <3>2. CASE ~NumberBall(t)
      BY <1>1, <1>3, <1>7, <3>2 DEF BallCallback, BallChecksLink, ReadShotNumber, IncrementShotNumber,
         CopyShotNumber, AskForClip
    <3> QED BY <3>1, <3>2
  <2>d. Past'
    BY <1>2, <2>2, <2>b DEF Past
  <2>e. Copied'
    BY <1>2, <1>5, <2>1, <2>c DEF Copied
  <2>4. CASE BallChecksLink(t)
    <3>1. /\ pc["notification"] = "ball" /\ pc'["notification"] \in {"count", "clip"}
          /\ pc'["notification"] = "clip" => link = "down"
          /\ UNCHANGED <<num, shotNumber, lastShotNumber>>
      BY <1>1, <1>3, <2>4 DEF BallChecksLink, Up
    <3> QED BY <1>1, <1>2, <2>1, <2>2, <2>a, <2>3, <2>d, <2>e, <3>1 DEF Numbered, SendPoints
  <2>5. CASE ReadShotNumber(t)
    <3>1. /\ pc["notification"] = "count" /\ pc'["notification"] = "next"
          /\ num'["notification"] = shotNumber
          /\ UNCHANGED <<shotNumber, lastShotNumber>>
      BY <1>1, <1>3, <2>5 DEF ReadShotNumber, Inv, TypeOK
    <3> QED BY <1>1, <1>2, <2>1, <2>2, <2>a, <2>3, <2>d, <2>e, <3>1 DEF Numbered, SendPoints
  <2>6. CASE IncrementShotNumber(t)
    <3>1. /\ pc["notification"] = "next" /\ pc'["notification"] = "last"
          /\ shotNumber' = num["notification"] + 1
          /\ UNCHANGED <<num, lastShotNumber>>
      BY <1>1, <1>3, <2>6 DEF IncrementShotNumber
    <3> QED BY <1>1, <1>2, <2>1, <2>2, <2>a, <2>3, <2>d, <2>e, <3>1 DEF Numbered, SendPoints
  <2>7. CASE CopyShotNumber(t)
    <3>1. /\ pc["notification"] = "last" /\ pc'["notification"] = "number"
          /\ lastShotNumber' = shotNumber
          /\ UNCHANGED <<num, shotNumber>>
      BY <1>1, <1>3, <2>7 DEF CopyShotNumber
    <3> QED BY <1>1, <1>2, <2>1, <2>2, <2>a, <2>3, <2>d, <2>e, <3>1 DEF Numbered, SendPoints, Opening
  <2>8. CASE NumberBall(t)
    <3>1. /\ pc["notification"] = "number" /\ pc'["notification"] = "sendball"
          /\ UNCHANGED <<shotNumber, lastShotNumber>>
      BY <1>1, <1>3, <2>8 DEF NumberBall
    <3> QED BY <1>1, <1>2, <2>1, <2>2, <2>a, <2>3, <2>d, <2>e, <3>1 DEF Numbered, SendPoints
  <2>9. CASE AskForClip(t)
    <3>1. /\ pc["notification"] = "clip" /\ pc'["notification"] = "idle"
          /\ UNCHANGED <<num, shotNumber, lastShotNumber>>
      BY <1>1, <1>3, <2>9 DEF AskForClip
    <3> QED BY <1>1, <1>2, <2>1, <2>2, <2>a, <2>3, <2>d, <2>e, <3>1 DEF Numbered, SendPoints
  <2> QED BY <1>7, <2>2, <2>3, <2>d, <2>e, <2>4, <2>5, <2>6, <2>7, <2>8, <2>9 DEF BallCallback
<1> QED BY <1>6, <1>7

LEMMA ClubKeepsNumbers ==
  ASSUME Inv, NumberInv, NEW t \in Storers, ClubCallback(t)
  PROVE  NumberInv'
<1> USE NumberTypes DEF NumberInv, shotVars, simVars
<1>1. pc[t] \in ClubPoints
  BY DEF ClubCallback, ClubChecksLink, NumberClub, SendClub, ClubReadsFilename, ClubIsBuffered, ClubPoints
<1>2. UNCHANGED <<lastBall, of, job, shotNumber, lastShotNumber>>
  BY DEF ClubCallback, ClubChecksLink, NumberClub, SendClub, ClubReadsFilename, ClubIsBuffered
<1>3. PICK p \in ClubPoints \cup {"idle"} : Goto(t, p)
  BY DEF ClubCallback, ClubChecksLink, NumberClub, SendClub, ClubReadsFilename, ClubIsBuffered, ClubPoints
<1>4. pc'[t] = p /\ \A u \in Storers : u # t => pc'[u] = pc[u]
  BY <1>3 DEF Goto, Inv, TypeOK
<1>5. \/ pc'["notification"] = pc["notification"]
      \/ /\ t = "notification" /\ pc["notification"] \notin SendPoints
         /\ pc'["notification"] \notin SendPoints
  BY <1>1, <1>4 DEF SendPoints, ClubPoints, Storers
<1>6. CASE SendClub(t)
  <2> DEFINE m == [kind |-> "club", shot |-> of[job[t]], number |-> num[t], last |-> lastBall]
  <2>1. pc[t] = "sendclub" /\ pc'[t] = "metadata" /\ Write(m) /\ num' = num
    BY <1>6, <1>3, <1>4 DEF SendClub, Goto, Inv, TypeOK
  <2>2. m \in Messages /\ m.last = lastBall /\ m.shot \in 1 .. lastBall
    <3>1. job[t] \in DOMAIN of /\ of[job[t]] \in Shots /\ of[job[t]] <= asked
      <4>1. job[t] \in 1 .. Len(of)
        BY <1>1 DEF Inv, Placed
      <4>2. of \in Seq(Shots) /\ \A i \in DOMAIN of : of[i] <= asked
        BY DEF Inv, TypeOK, MessageInv, Asked
      <4> QED BY <4>1, <4>2
    <3>2. asked \in Nat /\ asked <= lastBall
      BY DEF Inv, TypeOK
    <3> QED BY <3>1, <3>2 DEF Messages, Shots
  <2>3. m.shot = lastBall => pc["notification"] \notin SendPoints
    BY <1>1, NoClubYet DEF SendPoints, BallPoints
  <2>4. m.shot = lastBall /\ link = "open" /\ lastBall \notin early =>
          /\ m.number = lastShotNumber
          /\ \A i \in Named : wire[i].number = lastShotNumber <=> wire[i].shot = lastBall
    BY <2>1, <2>3 DEF Copied, Numbered
  <2>5. /\ link' = "open" => link = "open" /\ early' = early
    <3> HIDE DEF m
    <3> QED BY <2>1, <2>2, WriteAdds
  <2>6. /\ NumbersNameShots' /\ Opening'
        /\ \A i \in Named' : wire'[i].shot <= lastBall
        /\ link' = "open" => \A i \in Named' : wire'[i].number <= lastShotNumber
        /\ m.shot = lastBall /\ link' = "open" =>
             \A i \in Named' : wire'[i].number = lastShotNumber <=> wire'[i].shot = lastBall
        /\ m.shot # lastBall => Named' \subseteq Named /\ \A i \in Named' : wire'[i] = wire[i]
    <3> HIDE DEF m
    <3> QED BY <1>2, <2>1, <2>2, <2>4, WriteNames
  <2>7. Past'
    BY <1>2, <1>5, <2>3, <2>6 DEF Past
  <2>8. Numbered'
    <3> SUFFICES ASSUME link' = "open" PROVE Numbered'
      BY DEF Numbered
    <3>1. link = "open" /\ early' = early
      BY <2>5
    <3>2. CASE m.shot = lastBall
      <4>1. pc'["notification"] \notin SendPoints
        BY <1>5, <2>3, <3>2
      <4> QED BY <1>2, <2>6, <3>1, <3>2, <4>1 DEF Numbered, SendPoints
    <3>3. CASE m.shot # lastBall
      BY <1>2, <1>5, <2>1, <2>6, <3>1, <3>3 DEF Numbered, SendPoints
    <3> QED BY <3>2, <3>3
  <2>9. Copied'
    BY <1>2, <1>4, <1>5, <2>1, <2>5 DEF Copied, SendPoints
  <2> QED BY <2>6, <2>7, <2>8, <2>9
<1>7. CASE ~SendClub(t)
  <2>1. UNCHANGED <<wire, early, link>>
    BY <1>7 DEF ClubCallback, ClubChecksLink, NumberClub, ClubReadsFilename, ClubIsBuffered
  <2>2. NumbersNameShots' /\ Named' = Named /\ \A i \in Named : wire'[i] = wire[i]
    BY <2>1, WireStays
  <2>3. Opening'
    BY <1>2, <2>1, <2>2 DEF Opening
  <2>4. /\ \A u \in Storers : u # t => num'[u] = num[u]
        /\ pc'[t] = "sendclub" => num'[t] = lastShotNumber
    BY <1>4, <1>7, <2>1 DEF ClubCallback, ClubChecksLink, NumberClub, ClubReadsFilename, ClubIsBuffered, Goto,
       Inv, TypeOK
  <2>5. Past'
    BY <1>2, <1>5, <2>2 DEF Past
  <2>6. pc'["notification"] \in SendPoints => num'["notification"] = num["notification"]
    BY <1>1, <1>5, <2>4 DEF Storers, SendPoints, ClubPoints
  <2>7. Numbered'
    BY <1>2, <1>5, <2>1, <2>2, <2>6 DEF Numbered, SendPoints
  <2>8. Copied'
    BY <1>2, <1>4, <1>5, <2>1, <2>4, <2>6 DEF Copied, SendPoints
  <2> QED BY <2>2, <2>3, <2>5, <2>7, <2>8
<1> QED BY <1>6, <1>7

LEMMA StoresKeepNumbers ==
  ASSUME Inv, NumberInv,
         \/ \E s \in Shots : BallArrives(s)
         \/ \E t \in Storers : \E s \in Shots : StoreClub(t, s)
  PROVE  NumberInv'
<1> USE NumberTypes DEF NumberInv
<1>1. ASSUME NEW s \in Shots, BallArrives(s), s = lastBall PROVE NumberInv'
  BY <1>1, NumbersStay DEF BallArrives, vars, shotVars, threadVars
<1>2. ASSUME NEW s \in Shots, BallArrives(s), s # lastBall PROVE NumberInv'
  <2>1. /\ pc["notification"] = "idle" /\ pc' = [pc EXCEPT !["notification"] = "ball"]
        /\ job' = [job EXCEPT !["notification"] = s]
        /\ lastBall' = lastBall + 1
        /\ UNCHANGED <<of, num, link, shotNumber, lastShotNumber, wire, early>>
    BY <1>2 DEF BallArrives, Goto, simVars
  <2>2. /\ pc'["notification"] = "ball"
        /\ pc'["timer"] = pc["timer"] /\ job'["timer"] = job["timer"]
    BY <2>1 DEF Inv, TypeOK, Storers
  <2>3. NumbersNameShots' /\ Named' = Named /\ \A i \in Named : wire'[i] = wire[i]
    BY <2>1, WireStays
  <2>4. Named \subseteq DOMAIN wire
    BY DEF Named
  <2>5. Opening'
    BY <2>1, <2>3 DEF Opening
  <2>6. Past'
    BY <2>1, <2>2, <2>3, <2>4 DEF Past
  <2>7. Numbered'
    BY <2>1, <2>2, <2>3 DEF Numbered, SendPoints
  <2>8. Copied'
    <3>1. pc["timer"] = "sendclub" => of[job["timer"]] <= lastBall /\ of[job["timer"]] \in Nat
      <4> SUFFICES ASSUME pc["timer"] = "sendclub"
                   PROVE  of[job["timer"]] <= lastBall /\ of[job["timer"]] \in Nat
        OBVIOUS
      <4>1. job["timer"] \in DOMAIN of
        BY DEF Inv, Placed, ClubPoints, Storers
      <4>2. of[job["timer"]] \in Shots /\ of[job["timer"]] <= asked
        BY <4>1 DEF Inv, MessageInv, Asked, TypeOK
      <4>3. asked \in Nat /\ asked <= lastBall
        BY DEF Inv, TypeOK
      <4> QED BY <4>2, <4>3 DEF Shots
    <3> QED BY <2>1, <2>2, <3>1 DEF Copied, Storers
  <2> QED BY <2>3, <2>5, <2>6, <2>7, <2>8
<1>3. ASSUME NEW t \in Storers, NEW s \in Shots, StoreClub(t, s) PROVE NumberInv'
  <2>1. /\ pc[t] = "idle" /\ pc' = [pc EXCEPT ![t] = "club"]
        /\ UNCHANGED <<lastBall, num, link, shotNumber, lastShotNumber, wire, early>>
        /\ of' = Append(of, s) /\ job' = [job EXCEPT ![t] = Len(of')]
    BY <1>3 DEF StoreClub, Goto, simVars
  <2>2. /\ pc'[t] = "club"
        /\ \A u \in Storers : u # t => pc'[u] = pc[u] /\ job'[u] = job[u]
    BY <2>1 DEF Inv, TypeOK
  <2>3. NumbersNameShots' /\ Named' = Named /\ \A i \in Named : wire'[i] = wire[i]
    BY <2>1, WireStays
  <2>4. \/ pc'["notification"] = pc["notification"]
        \/ pc["notification"] \notin SendPoints /\ pc'["notification"] \notin SendPoints
    BY <2>1, <2>2 DEF SendPoints, Storers
  <2>5. \A u \in Storers : pc'[u] = "sendclub" => pc[u] = "sendclub" /\ of'[job'[u]] = of[job[u]]
    <3>1. \A u \in Storers : pc[u] = "sendclub" => job[u] \in DOMAIN of
      BY DEF Inv, Placed, ClubPoints, TypeOK
    <3>2. \A c \in DOMAIN of : of'[c] = of[c]
      <4>1. of \in Seq(Shots)
        BY DEF Inv, TypeOK
      <4> QED BY <2>1, <4>1
    <3>3. \A u \in Storers : pc'[u] = "sendclub" => u # t /\ pc[u] = "sendclub" /\ job'[u] = job[u]
      BY <2>2
    <3> QED BY <3>1, <3>2, <3>3
  <2>6. Opening' /\ Past'
    BY <2>1, <2>3, <2>4 DEF Opening, Past
  <2>7. Numbered'
    BY <2>1, <2>3, <2>4 DEF Numbered, SendPoints
  <2>8. Copied'
    BY <2>1, <2>4, <2>5 DEF Copied, SendPoints
  <2> QED BY <2>3, <2>6, <2>7, <2>8
<1> QED BY <1>1, <1>2, <1>3

LEMMA LinkKeepsNumbers ==
  ASSUME Inv, NumberInv, Connected \/ OnConnectedResetsShot \/ OnConnectedResetsLast \/ Disconnected
  PROVE  NumberInv'
<1> USE NumberTypes DEF NumberInv, shotVars, threadVars
<1>a. UNCHANGED <<lastBall, of, pc, job, num>>
  BY DEF Connected, OnConnectedResetsShot, OnConnectedResetsLast, Disconnected
<1>b. InFlight \subseteq 1 .. lastBall
  BY InFlightHasCome DEF Inv, MessageInv
<1>1. CASE Connected
  <2>1. Named' = {} /\ link' = "fresh" /\ early' = InFlight /\ wire' = << >>
    BY <1>1 DEF Connected, Named
  <2> QED BY <1>a, <1>b, <2>1 DEF Opening, Past, Numbered, Copied, NumbersNameShots
<1>2. CASE OnConnectedResetsShot \/ OnConnectedResetsLast
  <2>1. Named = {} /\ wire' = wire /\ early' = early \cup InFlight
    BY <1>2 DEF OnConnectedResetsShot, OnConnectedResetsLast, Opening
  <2>2. Named' = {}
    BY <2>1 DEF Named, InTime
  <2>3. Opening' /\ Past' /\ NumbersNameShots'
    <3>1. early' \subseteq 1 .. lastBall'
      BY <1>a, <1>b, <2>1 DEF Opening
    <3>2. NumbersNameShots'
      BY <2>2 DEF NumbersNameShots, Named
    <3> QED BY <2>2, <3>1, <3>2 DEF Opening, Past
  <2>4. CASE OnConnectedResetsShot
    <3>1. link' = "half"
      BY <2>4 DEF OnConnectedResetsShot
    <3> QED BY <2>3, <3>1 DEF Numbered, Copied
  <2>5. CASE OnConnectedResetsLast
    <3>1. lastShotNumber' = 0 /\ shotNumber' = shotNumber
      BY <2>5 DEF OnConnectedResetsLast
    <3>2. pc["notification"] \in {"last", "sendball"} => lastBall \in InFlight
      <4>1. pc["notification"] \in {"last", "sendball"} => job["notification"] = lastBall
        BY DEF Inv, MessageInv, Passing, BallPoints, Storers
      <4> QED BY <4>1 DEF InFlight, Storers
    <3>3. \A t \in Storers : pc[t] = "sendclub" => of[job[t]] \in InFlight
      BY DEF InFlight
    <3>4. Numbered'
      BY <1>a, <2>1, <2>2, <3>1, <3>2 DEF Numbered, Storers
    <3>5. Copied'
      BY <1>a, <2>1, <3>2, <3>3 DEF Copied
    <3> QED BY <2>3, <3>4, <3>5
  <2> QED BY <1>2, <2>4, <2>5
<1>3. CASE Disconnected
  <2>1. link' = "down" /\ UNCHANGED <<wire, early>>
    BY <1>3 DEF Disconnected
  <2>2. NumbersNameShots' /\ Named' = Named /\ \A i \in Named : wire'[i] = wire[i]
    BY <2>1, WireStays
  <2> QED BY <1>a, <2>1, <2>2 DEF Opening, Past, Numbered, Copied
<1> QED BY <1>1, <1>2, <1>3

-----------------------------------------------------------------------------
LEMMA ApartAndNumbersInductive ==
  Inv /\ ApartInv /\ NumberInv /\ [Next]_vars => ApartInv' /\ NumberInv'
<1> SUFFICES ASSUME Inv, ApartInv, NumberInv, [Next]_vars PROVE ApartInv' /\ NumberInv'
  OBVIOUS
<1> DEFINE Camera == \/ Arm \/ SetEnabled \/ \E u \in updates : UpdateMetadata(u)
                     \/ \E s \in Shots : ShotDetected(s) \/ ClipSaved(s) \/ NoClip(s)
           Link == Connected \/ OnConnectedResetsShot \/ OnConnectedResetsLast \/ Disconnected
<1>1. ASSUME NEW t \in Storers, BallCallback(t) PROVE ApartInv' /\ NumberInv'
  BY <1>1, BallKeepsApart, BallKeepsNumbers
<1>2. ASSUME NEW t \in Storers, ClubCallback(t) PROVE ApartInv' /\ NumberInv'
  BY <1>2, ClubKeepsApart, ClubKeepsNumbers
<1>3. ASSUME NEW t \in Storers, NEW s \in 1 .. asked, StoreClub(t, s) PROVE ApartInv' /\ NumberInv'
  <2>1. s \in Shots
    BY ShotAssumption DEF Inv, TypeOK, Shots
  <2> QED BY <1>3, <2>1, StoreClubKeepsApart, StoresKeepNumbers
<1>4. CASE BallBecomesReady \/ BallNotReady \/ \E s \in Shots : BallArrives(s)
  <2>1. ApartInv'
    BY <1>4, DeviceKeepsApart
  <2>2. CASE BallBecomesReady \/ BallNotReady
    <3>1. UNCHANGED <<lastBall, of, pc, job, num, simVars>>
      BY <2>2 DEF BallBecomesReady, BallNotReady, threadVars
    <3> QED BY <2>1, <3>1, NumbersStay
  <2>3. CASE \E s \in Shots : BallArrives(s)
    BY <2>1, <2>3, StoresKeepNumbers
  <2> QED BY <1>4, <2>2, <2>3
<1>5. CASE Camera
  <2>1. UNCHANGED <<lastBall, of, pc, job, num, simVars>>
    BY <1>5 DEF Arm, SetEnabled, UpdateMetadata, ShotDetected, ClipSaved, NoClip, shotVars, threadVars
  <2> QED BY <1>5, <2>1, CameraKeepsApart, NumbersStay
<1>6. CASE Link
  <2>1. UNCHANGED apartVars
    BY <1>6 DEF Connected, OnConnectedResetsShot, OnConnectedResetsLast, Disconnected, shotVars, threadVars,
       apartVars
  <2> QED BY <1>6, <2>1, ApartStays, LinkKeepsNumbers
<1>7. CASE UNCHANGED vars
  <2>1. UNCHANGED apartVars
    BY <1>7 DEF vars, shotVars, threadVars, apartVars
  <2>2. UNCHANGED <<lastBall, of, pc, job, num, simVars>>
    BY <1>7 DEF vars, shotVars, threadVars
  <2> QED BY <2>1, <2>2, ApartStays, NumbersStay
<1>8. CASE Next
  <2>1. CASE ClubFallsBack
    <3>1. asked \in 1 .. asked /\ "timer" \in Storers /\ StoreClub("timer", asked)
      BY <2>1 DEF ClubFallsBack, Inv, TypeOK, Storers
    <3> QED BY <3>1, <1>3
  <2>2. ASSUME NEW s \in Shots, ClubArrives(s) PROVE ApartInv' /\ NumberInv'
    BY <2>2, <1>3 DEF ClubArrives, Storers
  <2> QED BY <1>1, <1>2, <1>4, <1>5, <1>6, <1>8, <2>1, <2>2 DEF Next
<1> QED BY <1>7, <1>8

LEMMA ApartAndNumbers == Spec => [](Inv /\ ApartInv /\ NumberInv)
<1>1. Inv /\ ApartInv /\ NumberInv /\ [Next]_vars => (Inv /\ ApartInv /\ NumberInv)'
  BY Inductive, ApartAndNumbersInductive
<1> QED BY InitHolds, ApartInit, NumberInit, <1>1, PTL DEF Spec

\* Club metrics that go to a clip while their shot is kept apart from the others go to the
\* clip of this shot, in whatever order the clip's answer, the metrics' and the timer come;
\* nothing is claimed of those that go to one after an answer or an Arm has come too late.
THEOREM ClipOfItsShot == Spec => []RightClip
<1>1. ApartInv => RightClip
  BY DEF ApartInv
<1> QED BY <1>1, ApartAndNumbers, PTL

\* On a connection a number names one shot and a shot has one number, but for club metrics
\* sent when a newer shot had come, and for shots under way before OnConnected was over.
THEOREM NumberedOnce == Spec => []NumbersNameShots
<1>1. NumberInv => NumbersNameShots
  BY DEF NumberInv
<1> QED BY <1>1, ApartAndNumbers, PTL

-----------------------------------------------------------------------------
(* The numbers of a shot                                                   *)

\* A value that is not the sensor's "no value", -32768.
Small(v) == v \in Int /\ -32767 <= v /\ v <= 32767

LEMMA Between ==
  ASSUME NEW n \in Nat, NEW x \in 0 .. n
  PROVE  x \in Nat /\ x <= n
OBVIOUS

LEMMA ByteRange ==
  ASSUME NEW x \in Byte
  PROVE  x \in Nat /\ x <= 255
<1>1. 255 \in Nat
  OBVIOUS
<1> QED BY <1>1, Between, Zenon DEF Byte

LEMMA MetricRange ==
  ASSUME NEW low \in Byte, NEW high \in Byte
  PROVE  Small(Metric(low, high).value) /\ DOMAIN Metric(low, high) = {"value", "valid"}
<1>1. low \in Nat /\ low <= 255 /\ high \in Nat /\ high <= 255
  BY ByteRange
<1>2. Int16(low, high) \in Int /\ -32768 <= Int16(low, high) /\ Int16(low, high) <= 32767
  BY <1>1 DEF Int16
<1> QED BY <1>2 DEF Metric, Small

\* The negation of such a value is an int16.
LEMMA NegateSmall ==
  ASSUME NEW v, Small(v)
  PROVE  Negate16(v) = -v
<1>1. v \in Int /\ 0 <= 32768 - v /\ 32768 - v < 65536
  BY DEF Small
<1>2. (32768 - v) % 65536 = 32768 - v
  BY <1>1
<1> QED BY <1>1, <1>2 DEF Negate16

LEMMA KeptValue ==
  ASSUME NEW metric, DOMAIN metric = {"value", "valid"}, NEW condition
  PROVE  Keep(metric, condition).value = metric.value /\ DOMAIN Keep(metric, condition) = {"value", "valid"}
BY DEF Keep

LEMMA FramesBytes ==
  ASSUME NEW b \in Frames
  PROVE  At(b, 15) \in Byte /\ At(b, 16) \in Byte
BY FramesAssumption DEF At

\* Neither mask nor putter touches the value of the side spin.
LEMMA SideSpin ==
  ASSUME NEW b \in Frames, NEW omni \in BOOLEAN, NEW putter \in BOOLEAN
  PROVE  BallMetrics(b, omni, putter).side.value = MetricAt(b, 15).value
<1> DEFINE m == ParseShotBallMetrics(b)
           masked == ApplyOmniBallValidityBitmask(m, At(b, 2))
<1>1. m.side = MetricAt(b, 15) /\ "side" \in DOMAIN m
  BY DEF ParseShotBallMetrics
<1>2. DOMAIN m.side = {"value", "valid"}
  <2>1. MetricAt(b, 15) = Metric(At(b, 15), At(b, 16))
    BY DEF MetricAt
  <2> QED BY <1>1, <2>1, FramesBytes, MetricRange
<1> HIDE DEF m
<1>3. "side" \in DOMAIN masked /\ masked.side = Keep(m.side, Bit(At(b, 2), BallBit.side))
  BY <1>1 DEF ApplyOmniBallValidityBitmask, BallBit
<1>4. PutterBall(masked).side = Keep(masked.side, FALSE)
  <2> HIDE DEF masked
  <2> QED BY <1>3 DEF PutterBall
<1>5. masked.side.value = m.side.value /\ PutterBall(masked).side.value = m.side.value
  <2> HIDE DEF masked
  <2>1. masked.side.value = m.side.value /\ DOMAIN masked.side = {"value", "valid"}
    BY <1>2, <1>3, KeptValue
  <2> QED BY <2>1, <1>4, KeptValue
<1>6. BallMetrics(b, omni, putter) \in {m, masked, PutterBall(masked)}
  BY DEF BallMetrics, m
<1> QED BY <1>1, <1>5, <1>6

LEMMA SignsApart ==
  ASSUME NEW m, Negate16(m.side.value) = -m.side.value
  PROVE  LET clip == ClipBall(m)
         IN  SimBall(m) = [f \in DOMAIN clip |-> IF f \in {"axis", "side"} THEN -clip[f] ELSE clip[f]]
BY DEF SimBall, ClipBall

\* Every notification gives both legs the same numbers, under any mask and with any club.
LEMMA AllLegsAgree == LegsAgree
<1>1. ASSUME NEW b \in Frames, NEW omni \in BOOLEAN, NEW putter \in BOOLEAN
      PROVE  Negate16(BallMetrics(b, omni, putter).side.value) = -BallMetrics(b, omni, putter).side.value
  <2>1. At(b, 15) \in Byte /\ At(b, 16) \in Byte
    BY FramesBytes
  <2>2. Small(MetricAt(b, 15).value)
    BY <2>1, MetricRange DEF MetricAt
  <2> QED BY <2>2, SideSpin, NegateSmall
<1> QED BY <1>1, SignsApart DEF LegsAgree

\* The simulator and the clip are given the same numbers of a shot, whatever its notification.
THEOREM LegsTellTheSame == Spec => []LegsTellOneShot
<1>1. LegsTellOneShot
  BY AllLegsAgree DEF LegsTellOneShot
<1> QED BY <1>1, PTL
=============================================================================
