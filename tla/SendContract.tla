----------------------------- MODULE SendContract -----------------------------
(***************************************************************************)
(* What LaunchMonitor.SendCommand promises its callers: a command reaches  *)
(* the device at most once, never before it is sent, and an error-free     *)
(* return means that it has.  A call that ends in an error promises        *)
(* nothing: the command may have been written, or may be written yet.      *)
(***************************************************************************)
CONSTANT Commands

VARIABLES
  call,     \* each call: idle, open, or its result
  written   \* how often the device has been sent each command

Init ==
  /\ call = [c \in Commands |-> "idle"]
  /\ written = [c \in Commands |-> 0]

Call(c) ==
  /\ call[c] = "idle"
  /\ call' = [call EXCEPT ![c] = "open"]
  /\ UNCHANGED written

Write(c) ==
  /\ call[c] # "idle"
  /\ written[c] = 0
  /\ written' = [written EXCEPT ![c] = 1]
  /\ UNCHANGED call

Succeed(c) ==
  /\ call[c] = "open"
  /\ written[c] = 1
  /\ call' = [call EXCEPT ![c] = "ok"]
  /\ UNCHANGED written

Fail(c) ==
  /\ call[c] = "open"
  /\ call' = [call EXCEPT ![c] = "error"]
  /\ UNCHANGED written

Next == \E c \in Commands : Call(c) \/ Write(c) \/ Succeed(c) \/ Fail(c)

Spec == Init /\ [][Next]_<<call, written>>
=============================================================================
