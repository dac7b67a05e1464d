---------------------------- MODULE Notifications ----------------------------
(***************************************************************************)
(* What LaunchMonitor reads out of a notification, and what the plugins    *)
(* pass on: internal/core/protocol/parse_notifications.go, the profiles of *)
(* device_profile.go, the putter filters of launch_monitor.go and the      *)
(* conversions of the connectapi and camera plugins.                       *)
(*                                                                         *)
(* A notification is the sequence of its bytes; byte i of the code is      *)
(* At(b, i).  A metric is its raw number (hundredths of the code's floats, *)
(* which are exact) and whether it is valid.                               *)
(*                                                                         *)
(* Abstracted: hexadecimal text, which NotificationHandler makes itself    *)
(* and which therefore always decodes; units; the cosine and sine that     *)
(* give a missing spin component its value (only that it is derived is     *)
(* said, and its value is 0 here).                                         *)
(***************************************************************************)
EXTENDS Integers, Sequences

CONSTANT Frames  \* the ball notifications the properties look at

Byte == 0 .. 255
At(b, i) == b[i + 1]

ASSUME FramesAssumption == \A b \in Frames : b \in Seq(Byte) /\ Len(b) >= 17

\* int16(binary.LittleEndian.Uint16(...))
Int16(low, high) ==
  LET u == low + 256 * high IN IF u < 32768 THEN u ELSE u - 65536

\* Mutant: the sensor's "no value" is a value like any other.
MetricWithoutSentinel(low, high) == [value |-> Int16(low, high), valid |-> TRUE]

\* parseInt16Metric and parseScaledInt16Metric; -32768 is "no value".
Metric(low, high) ==
  LET v == Int16(low, high)
  IN  [value |-> IF v = -32768 THEN 0 ELSE v, valid |-> v # -32768]

MetricAt(b, i) == Metric(At(b, i), At(b, i + 1))

\* -x on an int16
Negate16(v) == ((32768 - v) % 65536) - 32768

Bit(mask, weight) == (mask \div weight) % 2 = 1
Keep(metric, condition) == [metric EXCEPT !.valid = @ /\ condition]

\* The validity bits of an Omni, in byte 2.
BallBit == [speed |-> 1, total |-> 2, axis |-> 4, back |-> 16, side |-> 32]

-----------------------------------------------------------------------------
\* A spin component that the sensor lacks is derived from total spin and axis.
Derived(metric, total, axis) == ~metric.valid /\ total.valid /\ axis.valid

ParseShotBallMetrics(b) ==
  LET back  == MetricAt(b, 13)
      side  == MetricAt(b, 15)
      axis  == MetricAt(b, 11)
      total == [MetricAt(b, 9) EXCEPT !.value = IF back.value < 0 THEN Negate16(@) ELSE @]
  IN  [speed |-> MetricAt(b, 3), vertical |-> MetricAt(b, 5), horizontal |-> MetricAt(b, 7),
       total |-> total, axis |-> axis, back |-> back, side |-> side,
       derived |-> {c \in {"back", "side"} :
                      Derived(IF c = "back" THEN back ELSE side, total, axis)}]

ApplyOmniBallValidityBitmask(m, mask) ==
  [f \in DOMAIN m |-> IF f \in DOMAIN BallBit THEN Keep(m[f], Bit(mask, BallBit[f])) ELSE m[f]]

ParseShotClubMetrics(b) ==
  [i \in 1 .. 4 |-> MetricAt(b, 2 * i + 1)]

ParseOmniShotClubMetrics(b) ==
  [i \in 1 .. 8 |-> Keep(MetricAt(b, 2 * i + 1), Bit(At(b, 2), 2 ^ (i - 1)))]

\* The three putter filters: a putter has no spin and no club data.
PutterBall(m) ==
  [f \in DOMAIN m |-> IF f \in {"total", "axis", "back", "side"} THEN Keep(m[f], FALSE) ELSE m[f]]
PutterClub(m) == [i \in DOMAIN m |-> Keep(m[i], FALSE)]

-----------------------------------------------------------------------------
\* HandleShotBallMetrics and HandleShotClubMetrics up to the store.
BallMetrics(b, omni, putter) ==
  LET m == ParseShotBallMetrics(b)
      masked == ApplyOmniBallValidityBitmask(m, At(b, 2))
  IN  CASE ~omni             -> m
        [] omni /\ ~putter   -> masked
        [] omni /\ putter    -> PutterBall(masked)

ClubMetrics(b, omni, putter) ==
  LET m == IF omni THEN ParseOmniShotClubMetrics(b) ELSE ParseShotClubMetrics(b)
  IN  IF putter THEN PutterClub(m) ELSE m

\* convertToShotFormat (connectapi) and convertBallMetrics (camera); the validity
\* flags go no further than here.
SimBall(m) ==
  [speed |-> m.speed.value, vla |-> m.vertical.value, hla |-> m.horizontal.value,
   total |-> m.total.value, back |-> m.back.value,
   axis |-> -m.axis.value, side |-> Negate16(m.side.value)]
ClipBall(m) ==
  [speed |-> m.speed.value, vla |-> m.vertical.value, hla |-> m.horizontal.value,
   total |-> m.total.value, back |-> m.back.value,
   axis |-> m.axis.value, side |-> m.side.value]

-----------------------------------------------------------------------------
\* Whatever the sensor says, the simulator and the clip are given the same numbers, but
\* for the two signs that GSPro has the other way round; and no negation leaves an int16.
LegsAgree ==
  \A b \in Frames, omni, putter \in BOOLEAN :
    LET m == BallMetrics(b, omni, putter)
        clip == ClipBall(m)
    IN  SimBall(m) = [f \in DOMAIN clip |-> IF f \in {"axis", "side"} THEN -clip[f] ELSE clip[f]]
=============================================================================
