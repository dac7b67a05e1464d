------------------------------- MODULE SimLink -------------------------------
(***************************************************************************)
(* What simulator.Base promises those who send messages over it: there is  *)
(* one connection at a time; nothing ends it between the end of the dial   *)
(* and OnConnected; a message is delivered on the connection its write was *)
(* started on, and only while that is the present one; and a message whose *)
(* write fails ends the connection, if there is one, before SendMessage    *)
(* returns.  ShotForwarding has its connection behave like this.           *)
(***************************************************************************)
CONSTANTS Senders, Conns, NoConn

VARIABLES
  line,     \* the present connection, or NoConn
  opening,  \* OnConnected has still to be called for it
  call,     \* each goroutine's SendMessage
  on        \* the connection it writes on, or NoConn

Init ==
  /\ line = NoConn /\ opening = FALSE
  /\ call = [s \in Senders |-> "idle"]
  /\ on = [s \in Senders |-> NoConn]

Becomes(s, from, to) == call[s] = from /\ call' = [call EXCEPT ![s] = to]

Connect(c) ==
  /\ line = NoConn
  /\ line' = c /\ opening' = TRUE
  /\ UNCHANGED <<call, on>>

Opens ==
  /\ opening /\ opening' = FALSE
  /\ UNCHANGED <<line, call, on>>

Drops ==
  /\ line # NoConn /\ ~opening
  /\ line' = NoConn
  /\ UNCHANGED <<opening, call, on>>

SendMessage(s) ==
  /\ Becomes(s, "idle", "called")
  /\ UNCHANGED <<line, opening, on>>

Refuses(s) ==
  /\ Becomes(s, "called", "idle")
  /\ line = NoConn
  /\ UNCHANGED <<line, opening, on>>

Writes(s) ==
  /\ Becomes(s, "called", "writing")
  /\ line # NoConn
  /\ on' = [on EXCEPT ![s] = line]
  /\ UNCHANGED <<line, opening>>

Delivers(s) ==
  /\ Becomes(s, "writing", "idle")
  /\ on[s] = line
  /\ on' = [on EXCEPT ![s] = NoConn]
  /\ UNCHANGED <<line, opening>>

WriteFails(s) ==
  /\ Becomes(s, "writing", "failing")
  /\ on' = [on EXCEPT ![s] = NoConn]
  /\ UNCHANGED <<line, opening>>

FailureEnds(s) ==
  /\ Becomes(s, "failing", "idle")
  /\ ~opening
  /\ line' = NoConn
  /\ UNCHANGED <<opening, on>>

Next ==
  \/ Opens \/ Drops \/ \E c \in Conns : Connect(c)
  \/ \E s \in Senders : SendMessage(s) \/ Refuses(s) \/ Writes(s) \/ Delivers(s)
                        \/ WriteFails(s) \/ FailureEnds(s)

Spec == Init /\ [][Next]_<<line, opening, call, on>>
=============================================================================
