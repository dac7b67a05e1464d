----------------------------- MODULE CommandQueue -----------------------------
(***************************************************************************)
(* LaunchMonitor's command queue (internal/core/launch_monitor.go): every  *)
(* command to the device goes through SendCommand, which hands it to the   *)
(* goroutine that drains the current channel and waits for its answer.     *)
(* A reported disconnect tears the queue down (stopCommandQueue); the next *)
(* SendCommand makes a new channel with a new goroutine.                   *)
(*                                                                         *)
(* A member of Commands is one call of SendCommand.  A member of Queues is *)
(* one channel with its context and its drain goroutine.                   *)
(*                                                                         *)
(* Abstracted: time (a timer may fire while its wait goes on), and the     *)
(* encoding of commands.  The link goes up and down, and a disconnect is   *)
(* reported, whenever BluetoothLink's interleavings allow, that is, at any *)
(* time.                                                                   *)
(***************************************************************************)
EXTENDS Naturals, Sequences

CONSTANTS
  Commands, Queues,
  Depth,              \* 32 in the code
  NoQueue, NoCommand

ASSUME CommandQueueAssumption ==
  /\ NoQueue \notin Queues
  /\ NoCommand \notin Commands
  /\ Depth \in Nat \ {0}

VARIABLES
  connected,  \* the client's IsConnected
  cmdQueue,   \* LaunchMonitor.cmdQueue
  chan,       \* the contents of each channel
  stopped,    \* the channels whose context is cancelled
  drain,      \* where each drain goroutine is
  holding,    \* the entry it has taken
  pc,         \* where each call is
  at,         \* the channel it got
  errCh,      \* the answer in its errCh
  written     \* how often each command reached the device

queueVars == <<cmdQueue, stopped>>
drainVars == <<drain, holding, errCh, written>>
callVars == <<pc, at>>
vars == <<connected, queueVars, chan, drainVars, callVars>>

TypeOK ==
  /\ connected \in BOOLEAN
  /\ cmdQueue \in Queues \cup {NoQueue}
  /\ chan \in [Queues -> Seq(Commands)]
  /\ \A q \in Queues : Len(chan[q]) <= Depth
  /\ stopped \in SUBSET Queues
  /\ drain \in [Queues -> {"none", "select", "check", "write", "gap", "gone"}]
  /\ holding \in [Queues -> Commands \cup {NoCommand}]
  /\ pc \in [Commands -> {"idle", "get", "put", "wait", "ok", "error"}]
  /\ at \in [Commands -> Queues \cup {NoQueue}]
  /\ errCh \in [Commands -> {"none", "ok", "error"}]
  /\ written \in [Commands -> Nat]

Init ==
  /\ connected = FALSE
  /\ cmdQueue = NoQueue
  /\ chan = [q \in Queues |-> <<>>]
  /\ stopped = {}
  /\ drain = [q \in Queues |-> "none"]
  /\ holding = [q \in Queues |-> NoCommand]
  /\ pc = [c \in Commands |-> "idle"]
  /\ at = [c \in Commands |-> NoQueue]
  /\ errCh = [c \in Commands |-> "none"]
  /\ written = [c \in Commands |-> 0]

-----------------------------------------------------------------------------
(* SendCommand.                                                            *)

Call(c) ==
  /\ pc[c] = "idle"
  /\ pc' = [pc EXCEPT ![c] = "get"]
  /\ UNCHANGED <<connected, queueVars, chan, drainVars, at>>

\* getCommandQueue, under cmdQueueMu: the current channel, or a new one.
GetCommandQueue(c) ==
  /\ pc[c] = "get"
  /\ pc' = [pc EXCEPT ![c] = "put"]
  /\ \/ /\ cmdQueue # NoQueue
        /\ at' = [at EXCEPT ![c] = cmdQueue]
        /\ UNCHANGED <<cmdQueue, drain>>
     \/ /\ cmdQueue = NoQueue
        /\ \E q \in Queues :
             /\ drain[q] = "none"
             /\ at' = [at EXCEPT ![c] = q]
             /\ cmdQueue' = q
             /\ drain' = [drain EXCEPT ![q] = "select"]
  /\ UNCHANGED <<connected, stopped, chan, holding, errCh, written>>

Enqueue(c) ==
  /\ pc[c] = "put"
  /\ Len(chan[at[c]]) < Depth
  /\ chan' = [chan EXCEPT ![at[c]] = Append(@, c)]
  /\ pc' = [pc EXCEPT ![c] = "wait"]
  /\ UNCHANGED <<connected, queueVars, drainVars, at>>

\* "command queue full"
QueueFull(c) ==
  /\ pc[c] = "put"
  /\ Len(chan[at[c]]) = Depth
  /\ pc' = [pc EXCEPT ![c] = "error"]
  /\ UNCHANGED <<connected, queueVars, chan, drainVars, at>>

Answered(c) ==
  /\ pc[c] = "wait"
  /\ errCh[c] # "none"
  /\ pc' = [pc EXCEPT ![c] = errCh[c]]
  /\ UNCHANGED <<connected, queueVars, chan, drainVars, at>>

\* "command execution timed out": the entry stays where it is.
TimesOut(c) ==
  /\ pc[c] = "wait"
  /\ errCh[c] = "none"
  /\ pc' = [pc EXCEPT ![c] = "error"]
  /\ UNCHANGED <<connected, queueVars, chan, drainVars, at>>

-----------------------------------------------------------------------------
(* drainCommandQueue and writeCommand.                                     *)

\* Mutant: the drain goroutine reads the next entry without receiving it.
DrainPeeks(q) ==
  /\ drain[q] = "select"
  /\ chan[q] # <<>>
  /\ chan' = chan
  /\ holding' = [holding EXCEPT ![q] = Head(chan[q])]
  /\ drain' = [drain EXCEPT ![q] = "check"]
  /\ UNCHANGED <<connected, queueVars, errCh, written, callVars>>

\* select has no order: an entry may be taken although the context is cancelled.
DrainTakes(q) ==
  /\ drain[q] = "select"
  /\ chan[q] # <<>>
  /\ chan' = [chan EXCEPT ![q] = Tail(@)]
  /\ holding' = [holding EXCEPT ![q] = Head(chan[q])]
  /\ drain' = [drain EXCEPT ![q] = "check"]
  /\ UNCHANGED <<connected, queueVars, errCh, written, callVars>>

\* writeCommand's IsConnected.
DrainChecks(q) ==
  /\ drain[q] = "check"
  /\ \/ /\ connected
        /\ drain' = [drain EXCEPT ![q] = "write"]
        /\ UNCHANGED <<holding, errCh>>
     \/ /\ ~connected
        /\ errCh' = [errCh EXCEPT ![holding[q]] = "error"]
        /\ holding' = [holding EXCEPT ![q] = NoCommand]
        /\ drain' = [drain EXCEPT ![q] = "gap"]
  /\ UNCHANGED <<connected, queueVars, chan, written, callVars>>

\* Mutant: errCh has no buffer, so the answer waits for its reader.
DrainWaitsForReader(q) ==
  /\ drain[q] = "write"
  /\ pc[holding[q]] = "wait"
  /\ \E delivered \in BOOLEAN, verdict \in {"ok", "error"} :
       /\ verdict = "ok" => delivered
       /\ written' = IF delivered THEN [written EXCEPT ![holding[q]] = @ + 1] ELSE written
       /\ errCh' = [errCh EXCEPT ![holding[q]] = verdict]
  /\ holding' = [holding EXCEPT ![q] = NoCommand]
  /\ drain' = [drain EXCEPT ![q] = "gap"]
  /\ UNCHANGED <<connected, queueVars, chan, callVars>>

\* WriteCharacteristic, and the answer.  A write can fail after it was delivered.
DrainWrites(q) ==
  /\ drain[q] = "write"
  /\ \E delivered \in BOOLEAN, verdict \in {"ok", "error"} :
       /\ verdict = "ok" => delivered
       /\ written' = IF delivered THEN [written EXCEPT ![holding[q]] = @ + 1] ELSE written
       /\ errCh' = [errCh EXCEPT ![holding[q]] = verdict]
  /\ holding' = [holding EXCEPT ![q] = NoCommand]
  /\ drain' = [drain EXCEPT ![q] = "gap"]
  /\ UNCHANGED <<connected, queueVars, chan, callVars>>

\* The 150 ms between two commands.
GapElapses(q) ==
  /\ drain[q] = "gap"
  /\ drain' = [drain EXCEPT ![q] = "select"]
  /\ UNCHANGED <<connected, queueVars, chan, holding, errCh, written, callVars>>

DrainQuits(q) ==
  /\ drain[q] \in {"select", "gap"}
  /\ q \in stopped
  /\ drain' = [drain EXCEPT ![q] = "gone"]
  /\ UNCHANGED <<connected, queueVars, chan, holding, errCh, written, callVars>>

-----------------------------------------------------------------------------
(* The link, and HandleBluetoothDisconnect's stopCommandQueue.             *)

\* Mutant: the queue is cancelled and stays current.
StopKeepsQueue ==
  /\ cmdQueue' = cmdQueue
  /\ stopped' = stopped \cup ({cmdQueue} \ {NoQueue})
  /\ UNCHANGED <<connected, chan, drainVars, callVars>>

StopCommandQueue ==
  /\ stopped' = stopped \cup ({cmdQueue} \ {NoQueue})
  /\ cmdQueue' = NoQueue
  /\ UNCHANGED <<connected, chan, drainVars, callVars>>

LinkChanges ==
  /\ connected' = ~connected
  /\ UNCHANGED <<queueVars, chan, drainVars, callVars>>

CallStep(c) == GetCommandQueue(c) \/ Enqueue(c) \/ QueueFull(c) \/ Answered(c)
DrainStep(q) ==
  DrainTakes(q) \/ DrainChecks(q) \/ DrainWrites(q) \/ GapElapses(q) \/ DrainQuits(q)

Next ==
  \/ \E c \in Commands : Call(c) \/ CallStep(c) \/ TimesOut(c)
  \/ \E q \in Queues : DrainStep(q)
  \/ StopCommandQueue
  \/ LinkChanges

Spec == Init /\ [][Next]_vars

\* The goroutines run, and a characteristic write ends; whether a caller's timer
\* fires is left open.
FairSpec ==
  /\ Spec
  /\ \A c \in Commands : WF_vars(CallStep(c))
  /\ \A q \in Queues : WF_vars(DrainStep(q))

-----------------------------------------------------------------------------
\* Whatever is the current queue has a drain goroutine that runs and has not been
\* cancelled, so across any number of disconnects getCommandQueue gives no call a channel
\* already abandoned.  A call that got its channel before a disconnect may still put its
\* command there afterwards (launch_monitor.go:651, 659); it then times out.
QueueIsServed ==
  cmdQueue # NoQueue
    => cmdQueue \notin stopped /\ drain[cmdQueue] \notin {"none", "gone"}

\* A caller that gave up never stops the drain goroutine: a command that is in a
\* channel is answered unless that channel is torn down.
EntryIsAnswered ==
  \A c \in Commands :
    pc[c] = "wait" ~> errCh[c] # "none" \/ at[c] \in stopped

\* SendCommand keeps its contract.
calls == [c \in Commands |-> IF pc[c] \in {"get", "put", "wait"} THEN "open" ELSE pc[c]]
Contract == INSTANCE SendContract WITH call <- calls
ContractSpec == Contract!Spec
=============================================================================
