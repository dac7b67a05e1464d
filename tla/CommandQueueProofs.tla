-------------------------- MODULE CommandQueueProofs --------------------------
(***************************************************************************)
(* For any commands, any channels and any capacity: CommandQueue is well   *)
(* typed, its current channel is always served, and it keeps SendContract. *)
(*                                                                         *)
(* The contract needs to know where a command is: once sent it is in the   *)
(* channel that its caller got (Placed, Distinct), or in the hands of that *)
(* channel's goroutine (Held), or answered (Answers), and never in two of  *)
(* these at a time, which is why no command is written twice.              *)
(***************************************************************************)
EXTENDS CommandQueue, TLAPS

Unanswered(c) ==
  pc[c] \notin {"idle", "get", "put"} /\ errCh[c] = "none" /\ written[c] = 0

Placed == \A q \in Queues : \A i \in 1 .. Len(chan[q]) :
  at[chan[q][i]] = q /\ Unanswered(chan[q][i])

Distinct == \A q \in Queues : \A i, j \in 1 .. Len(chan[q]) :
  chan[q][i] = chan[q][j] => i = j

Held == \A q \in Queues :
  /\ holding[q] # NoCommand <=> drain[q] \in {"check", "write"}
  /\ holding[q] # NoCommand =>
       /\ at[holding[q]] = q /\ Unanswered(holding[q])
       /\ \A i \in 1 .. Len(chan[q]) : chan[q][i] # holding[q]

Answers == \A c \in Commands :
  /\ errCh[c] = "ok" \/ pc[c] = "ok" => written[c] = 1
  /\ pc[c] \in {"idle", "get", "put"} => errCh[c] = "none" /\ written[c] = 0
  /\ pc[c] \in {"put", "wait"} => at[c] \in Queues

Served ==
  /\ QueueIsServed
  /\ \A q \in stopped : drain[q] # "none"

Inv == TypeOK /\ Placed /\ Distinct /\ Held /\ Answers /\ Served

-----------------------------------------------------------------------------
(* Every step keeps Inv.                                                   *)

LEMMA CallStable ==
  ASSUME NEW c \in Commands, Inv, Call(c) PROVE Inv'
<1> USE CommandQueueAssumption DEF Inv
<1>1. TypeOK'
  BY DEF TypeOK, Call, queueVars, drainVars, callVars
<1>2. Placed'
  BY DEF TypeOK, Placed, Held, Answers, Unanswered, Call, queueVars, drainVars, callVars
<1>3. Distinct'
  BY DEF TypeOK, Placed, Distinct, Held, Answers, Unanswered, Call, queueVars, drainVars, callVars
<1>4. Held'
  BY DEF TypeOK, Placed, Distinct, Held, Answers, Unanswered, Call, queueVars, drainVars, callVars
<1>5. Answers'
  BY DEF TypeOK, Placed, Held, Answers, Unanswered, Call, queueVars, drainVars, callVars
<1>6. Served'
  BY DEF TypeOK, Held, Served, QueueIsServed, Call, queueVars, drainVars, callVars
<1> QED BY <1>1, <1>2, <1>3, <1>4, <1>5, <1>6

LEMMA GetStable ==
  ASSUME NEW c \in Commands, Inv, GetCommandQueue(c) PROVE Inv'
<1> USE CommandQueueAssumption DEF Inv
<1>1. TypeOK'
  <2>1. CASE cmdQueue # NoQueue /\ at' = [at EXCEPT ![c] = cmdQueue] /\ UNCHANGED <<cmdQueue, drain>>
    BY <2>1 DEF TypeOK, GetCommandQueue
  <2>2. ASSUME NEW q \in Queues, at' = [at EXCEPT ![c] = q], cmdQueue' = q,
               drain' = [drain EXCEPT ![q] = "select"]
        PROVE TypeOK'
    <3>1. at' \in [Commands -> Queues \cup {NoQueue}]
      BY <2>2 DEF TypeOK
    <3>2. drain' \in [Queues -> {"none", "select", "check", "write", "gap", "gone"}]
      BY <2>2 DEF TypeOK
    <3>3. pc' \in [Commands -> {"idle", "get", "put", "wait", "ok", "error"}]
      BY DEF TypeOK, GetCommandQueue
    <3> QED BY <2>2, <3>1, <3>2, <3>3 DEF TypeOK, GetCommandQueue
  <2> QED BY <2>1, <2>2 DEF GetCommandQueue
<1>2. Placed'
  BY DEF TypeOK, Placed, Held, Answers, Unanswered, GetCommandQueue, queueVars, drainVars, callVars
<1>3. Distinct'
  BY DEF TypeOK, Placed, Distinct, Held, Answers, Unanswered, GetCommandQueue, queueVars, drainVars, callVars
<1>4. Held'
  BY DEF TypeOK, Placed, Distinct, Held, Answers, Unanswered, GetCommandQueue, queueVars, drainVars, callVars
<1>5. Answers'
  BY DEF TypeOK, Placed, Held, Answers, Unanswered, GetCommandQueue, queueVars, drainVars, callVars
<1>6. Served'
  BY DEF TypeOK, Held, Served, QueueIsServed, GetCommandQueue, queueVars, drainVars, callVars
<1> QED BY <1>1, <1>2, <1>3, <1>4, <1>5, <1>6

LEMMA EnqueueStable ==
  ASSUME NEW c \in Commands, Inv, Enqueue(c) PROVE Inv'
<1> USE CommandQueueAssumption DEF Inv
<1>1. TypeOK'
  <2>1. at[c] \in Queues
    BY DEF Answers, Enqueue
  <2>2. chan' \in [Queues -> Seq(Commands)] /\ \A q \in Queues : Len(chan'[q]) <= Depth
    BY <2>1 DEF TypeOK, Enqueue
  <2>3. pc' \in [Commands -> {"idle", "get", "put", "wait", "ok", "error"}]
    BY DEF TypeOK, Enqueue
  <2> QED BY <2>2, <2>3 DEF TypeOK, Enqueue, queueVars, drainVars
<1>2. Placed'
  BY DEF TypeOK, Placed, Held, Answers, Unanswered, Enqueue, queueVars, drainVars, callVars
<1>3. Distinct'
  BY DEF TypeOK, Placed, Distinct, Held, Answers, Unanswered, Enqueue, queueVars, drainVars, callVars
<1>4. Held'
  BY DEF TypeOK, Placed, Distinct, Held, Answers, Unanswered, Enqueue, queueVars, drainVars, callVars
<1>5. Answers'
  BY DEF TypeOK, Placed, Held, Answers, Unanswered, Enqueue, queueVars, drainVars, callVars
<1>6. Served'
  BY DEF TypeOK, Held, Served, QueueIsServed, Enqueue, queueVars, drainVars, callVars
<1> QED BY <1>1, <1>2, <1>3, <1>4, <1>5, <1>6

LEMMA FullStable ==
  ASSUME NEW c \in Commands, Inv, QueueFull(c) PROVE Inv'
<1> USE CommandQueueAssumption DEF Inv
<1>1. TypeOK'
  BY DEF TypeOK, QueueFull, queueVars, drainVars, callVars
<1>2. Placed'
  BY DEF TypeOK, Placed, Held, Answers, Unanswered, QueueFull, queueVars, drainVars, callVars
<1>3. Distinct'
  BY DEF TypeOK, Placed, Distinct, Held, Answers, Unanswered, QueueFull, queueVars, drainVars, callVars
<1>4. Held'
  BY DEF TypeOK, Placed, Distinct, Held, Answers, Unanswered, QueueFull, queueVars, drainVars, callVars
<1>5. Answers'
  BY DEF TypeOK, Placed, Held, Answers, Unanswered, QueueFull, queueVars, drainVars, callVars
<1>6. Served'
  BY DEF TypeOK, Held, Served, QueueIsServed, QueueFull, queueVars, drainVars, callVars
<1> QED BY <1>1, <1>2, <1>3, <1>4, <1>5, <1>6

LEMMA AnsweredStable ==
  ASSUME NEW c \in Commands, Inv, Answered(c) PROVE Inv'
<1> USE CommandQueueAssumption DEF Inv
<1>1. TypeOK'
  BY DEF TypeOK, Answered, queueVars, drainVars, callVars
<1>2. Placed'
  BY DEF TypeOK, Placed, Held, Answers, Unanswered, Answered, queueVars, drainVars, callVars
<1>3. Distinct'
  BY DEF TypeOK, Placed, Distinct, Held, Answers, Unanswered, Answered, queueVars, drainVars, callVars
<1>4. Held'
  BY DEF TypeOK, Placed, Distinct, Held, Answers, Unanswered, Answered, queueVars, drainVars, callVars
<1>5. Answers'
  BY DEF TypeOK, Placed, Held, Answers, Unanswered, Answered, queueVars, drainVars, callVars
<1>6. Served'
  BY DEF TypeOK, Held, Served, QueueIsServed, Answered, queueVars, drainVars, callVars
<1> QED BY <1>1, <1>2, <1>3, <1>4, <1>5, <1>6

LEMMA TimeoutStable ==
  ASSUME NEW c \in Commands, Inv, TimesOut(c) PROVE Inv'
<1> USE CommandQueueAssumption DEF Inv
<1>1. TypeOK'
  BY DEF TypeOK, TimesOut, queueVars, drainVars, callVars
<1>2. Placed'
  BY DEF TypeOK, Placed, Held, Answers, Unanswered, TimesOut, queueVars, drainVars, callVars
<1>3. Distinct'
  BY DEF TypeOK, Placed, Distinct, Held, Answers, Unanswered, TimesOut, queueVars, drainVars, callVars
<1>4. Held'
  BY DEF TypeOK, Placed, Distinct, Held, Answers, Unanswered, TimesOut, queueVars, drainVars, callVars
<1>5. Answers'
  BY DEF TypeOK, Placed, Held, Answers, Unanswered, TimesOut, queueVars, drainVars, callVars
<1>6. Served'
  BY DEF TypeOK, Held, Served, QueueIsServed, TimesOut, queueVars, drainVars, callVars
<1> QED BY <1>1, <1>2, <1>3, <1>4, <1>5, <1>6

LEMMA TakesStable ==
  ASSUME NEW q \in Queues, Inv, DrainTakes(q) PROVE Inv'
<1> USE CommandQueueAssumption DEF Inv
<1>1. TypeOK'
  BY DEF TypeOK, DrainTakes, queueVars, drainVars, callVars
<1>2. Placed'
  BY DEF TypeOK, Placed, Held, Answers, Unanswered, DrainTakes, queueVars, drainVars, callVars
<1>3. Distinct'
  BY DEF TypeOK, Placed, Distinct, Held, Answers, Unanswered, DrainTakes, queueVars, drainVars, callVars
<1>4. Held'
  BY DEF TypeOK, Placed, Distinct, Held, Answers, Unanswered, DrainTakes, queueVars, drainVars, callVars
<1>5. Answers'
  BY DEF TypeOK, Placed, Held, Answers, Unanswered, DrainTakes, queueVars, drainVars, callVars
<1>6. Served'
  BY DEF TypeOK, Held, Served, QueueIsServed, DrainTakes, queueVars, drainVars, callVars
<1> QED BY <1>1, <1>2, <1>3, <1>4, <1>5, <1>6

LEMMA ChecksStable ==
  ASSUME NEW q \in Queues, Inv, DrainChecks(q) PROVE Inv'
<1> USE CommandQueueAssumption DEF Inv
<1>1. TypeOK'
  BY DEF TypeOK, DrainChecks, queueVars, drainVars, callVars
<1>2. Placed'
  BY DEF TypeOK, Placed, Held, Answers, Unanswered, DrainChecks, queueVars, drainVars, callVars
<1>3. Distinct'
  BY DEF TypeOK, Placed, Distinct, Held, Answers, Unanswered, DrainChecks, queueVars, drainVars, callVars
<1>4. Held'
  <2>1. CASE connected /\ drain' = [drain EXCEPT ![q] = "write"] /\ UNCHANGED <<holding, errCh>>
    BY <2>1 DEF TypeOK, Held, Unanswered, DrainChecks, callVars
  <2>2. CASE /\ errCh' = [errCh EXCEPT ![holding[q]] = "error"]
             /\ holding' = [holding EXCEPT ![q] = NoCommand]
             /\ drain' = [drain EXCEPT ![q] = "gap"]
    <3>1. holding[q] # NoCommand /\ at[holding[q]] = q
      BY DEF Held, DrainChecks
    <3>2. \A p \in Queues : p # q => /\ holding'[p] = holding[p] /\ drain'[p] = drain[p]
                                     /\ holding[p] # NoCommand => errCh'[holding[p]] = errCh[holding[p]]
      BY <2>2, <3>1 DEF TypeOK, Held
    <3>3. holding'[q] = NoCommand /\ drain'[q] = "gap"
      BY <2>2 DEF TypeOK
    <3> QED BY <2>2, <3>2, <3>3 DEF TypeOK, Held, Unanswered, DrainChecks, callVars
  <2> QED BY <2>1, <2>2 DEF DrainChecks
<1>5. Answers'
  BY DEF TypeOK, Placed, Held, Answers, Unanswered, DrainChecks, queueVars, drainVars, callVars
<1>6. Served'
  BY DEF TypeOK, Held, Served, QueueIsServed, DrainChecks, queueVars, drainVars, callVars
<1> QED BY <1>1, <1>2, <1>3, <1>4, <1>5, <1>6

LEMMA WritesStable ==
  ASSUME NEW q \in Queues, Inv, DrainWrites(q) PROVE Inv'
<1> USE CommandQueueAssumption DEF Inv
<1>1. TypeOK'
  <2>1. holding[q] \in Commands
    BY DEF TypeOK, Held, DrainWrites
  <2>2. written' \in [Commands -> Nat]
    BY <2>1 DEF TypeOK, DrainWrites
  <2>3. errCh' \in [Commands -> {"none", "ok", "error"}]
    BY <2>1 DEF TypeOK, DrainWrites
  <2>4. /\ holding' \in [Queues -> Commands \cup {NoCommand}]
        /\ drain' \in [Queues -> {"none", "select", "check", "write", "gap", "gone"}]
    BY DEF TypeOK, DrainWrites
  <2> QED BY <2>2, <2>3, <2>4 DEF TypeOK, DrainWrites, queueVars, callVars
<1>2. Placed'
  BY DEF TypeOK, Placed, Held, Answers, Unanswered, DrainWrites, queueVars, drainVars, callVars
<1>3. Distinct'
  BY DEF TypeOK, Placed, Distinct, Held, Answers, Unanswered, DrainWrites, queueVars, drainVars, callVars
<1>4. Held'
  BY DEF TypeOK, Placed, Distinct, Held, Answers, Unanswered, DrainWrites, queueVars, drainVars, callVars
<1>5. Answers'
  BY DEF TypeOK, Placed, Held, Answers, Unanswered, DrainWrites, queueVars, drainVars, callVars
<1>6. Served'
  BY DEF TypeOK, Held, Served, QueueIsServed, DrainWrites, queueVars, drainVars, callVars
<1> QED BY <1>1, <1>2, <1>3, <1>4, <1>5, <1>6

LEMMA GapStable ==
  ASSUME NEW q \in Queues, Inv, GapElapses(q) PROVE Inv'
<1> USE CommandQueueAssumption DEF Inv
<1>1. TypeOK'
  BY DEF TypeOK, GapElapses, queueVars, drainVars, callVars
<1>2. Placed'
  BY DEF TypeOK, Placed, Held, Answers, Unanswered, GapElapses, queueVars, drainVars, callVars
<1>3. Distinct'
  BY DEF TypeOK, Placed, Distinct, Held, Answers, Unanswered, GapElapses, queueVars, drainVars, callVars
<1>4. Held'
  BY DEF TypeOK, Placed, Distinct, Held, Answers, Unanswered, GapElapses, queueVars, drainVars, callVars
<1>5. Answers'
  BY DEF TypeOK, Placed, Held, Answers, Unanswered, GapElapses, queueVars, drainVars, callVars
<1>6. Served'
  BY DEF TypeOK, Held, Served, QueueIsServed, GapElapses, queueVars, drainVars, callVars
<1> QED BY <1>1, <1>2, <1>3, <1>4, <1>5, <1>6

LEMMA QuitsStable ==
  ASSUME NEW q \in Queues, Inv, DrainQuits(q) PROVE Inv'
<1> USE CommandQueueAssumption DEF Inv
<1>1. TypeOK'
  BY DEF TypeOK, DrainQuits, queueVars, drainVars, callVars
<1>2. Placed'
  BY DEF TypeOK, Placed, Held, Answers, Unanswered, DrainQuits, queueVars, drainVars, callVars
<1>3. Distinct'
  BY DEF TypeOK, Placed, Distinct, Held, Answers, Unanswered, DrainQuits, queueVars, drainVars, callVars
<1>4. Held'
  BY DEF TypeOK, Placed, Distinct, Held, Answers, Unanswered, DrainQuits, queueVars, drainVars, callVars
<1>5. Answers'
  BY DEF TypeOK, Placed, Held, Answers, Unanswered, DrainQuits, queueVars, drainVars, callVars
<1>6. Served'
  BY DEF TypeOK, Held, Served, QueueIsServed, DrainQuits, queueVars, drainVars, callVars
<1> QED BY <1>1, <1>2, <1>3, <1>4, <1>5, <1>6

LEMMA StopStable ==
  ASSUME Inv, StopCommandQueue PROVE Inv'
<1> USE CommandQueueAssumption DEF Inv
<1>1. TypeOK'
  BY DEF TypeOK, StopCommandQueue, queueVars, drainVars, callVars
<1>2. Placed'
  BY DEF TypeOK, Placed, Held, Answers, Unanswered, StopCommandQueue, queueVars, drainVars, callVars
<1>3. Distinct'
  BY DEF TypeOK, Placed, Distinct, Held, Answers, Unanswered, StopCommandQueue, queueVars, drainVars, callVars
<1>4. Held'
  BY DEF TypeOK, Placed, Distinct, Held, Answers, Unanswered, StopCommandQueue, queueVars, drainVars, callVars
<1>5. Answers'
  BY DEF TypeOK, Placed, Held, Answers, Unanswered, StopCommandQueue, queueVars, drainVars, callVars
<1>6. Served'
  BY DEF TypeOK, Held, Served, QueueIsServed, StopCommandQueue, queueVars, drainVars, callVars
<1> QED BY <1>1, <1>2, <1>3, <1>4, <1>5, <1>6

LEMMA LinkStable ==
  ASSUME Inv, LinkChanges PROVE Inv'
<1> USE CommandQueueAssumption DEF Inv
<1>1. TypeOK'
  BY DEF TypeOK, LinkChanges, queueVars, drainVars, callVars
<1>2. Placed'
  BY DEF TypeOK, Placed, Held, Answers, Unanswered, LinkChanges, queueVars, drainVars, callVars
<1>3. Distinct'
  BY DEF TypeOK, Placed, Distinct, Held, Answers, Unanswered, LinkChanges, queueVars, drainVars, callVars
<1>4. Held'
  BY DEF TypeOK, Placed, Distinct, Held, Answers, Unanswered, LinkChanges, queueVars, drainVars, callVars
<1>5. Answers'
  BY DEF TypeOK, Placed, Held, Answers, Unanswered, LinkChanges, queueVars, drainVars, callVars
<1>6. Served'
  BY DEF TypeOK, Held, Served, QueueIsServed, LinkChanges, queueVars, drainVars, callVars
<1> QED BY <1>1, <1>2, <1>3, <1>4, <1>5, <1>6

LEMMA InvInit == Init => Inv
<1> SUFFICES ASSUME Init PROVE Inv
  OBVIOUS
<1>1. \A q \in Queues : chan[q] = <<>> /\ Len(chan[q]) = 0
  BY DEF Init
<1>2. TypeOK
  <2>1. chan \in [Queues -> Seq(Commands)]
    BY DEF Init
  <2>2. \A q \in Queues : Len(chan[q]) <= Depth
    BY CommandQueueAssumption, <1>1
  <2> QED BY <2>1, <2>2 DEF Init, TypeOK
<1>3. Placed /\ Distinct
  BY <1>1 DEF Placed, Distinct
<1>4. Held /\ Answers /\ Served
  BY DEF Init, Held, Answers, Served, QueueIsServed
<1> QED BY <1>2, <1>3, <1>4 DEF Inv

LEMMA InvNext == Inv /\ [Next]_vars => Inv'
<1> SUFFICES ASSUME Inv, [Next]_vars PROVE Inv'
  OBVIOUS
<1>1. CASE UNCHANGED vars
  BY <1>1 DEF Inv, TypeOK, Placed, Distinct, Held, Answers, Served, QueueIsServed, Unanswered,
              vars, queueVars, drainVars, callVars
<1>2. ASSUME NEW c \in Commands, Call(c) \/ CallStep(c) \/ TimesOut(c) PROVE Inv'
  BY <1>2, CallStable, GetStable, EnqueueStable, FullStable, AnsweredStable, TimeoutStable
     DEF CallStep
<1>3. ASSUME NEW q \in Queues, DrainStep(q) PROVE Inv'
  BY <1>3, TakesStable, ChecksStable, WritesStable, GapStable, QuitsStable DEF DrainStep
<1> QED BY <1>1, <1>2, <1>3, StopStable, LinkStable DEF Next

LEMMA Invariant == Spec => []Inv
BY InvInit, InvNext, PTL DEF Spec

-----------------------------------------------------------------------------
\* The variables of CommandQueue keep their types.
THEOREM TypeCorrect == Spec => []TypeOK
BY Invariant, PTL DEF Inv

\* However often the device disconnects, the channel that getCommandQueue would give to a
\* call now has a drain goroutine that runs and has not been cancelled.
THEOREM AlwaysServed == Spec => []QueueIsServed
BY Invariant, PTL DEF Inv, Served

-----------------------------------------------------------------------------
(* SendContract.                                                           *)

LEMMA ContractInit == Init => Contract!Init
BY DEF Init, Contract!Init, calls

\* What the calls do, but for the answer, is Call, Fail or nothing.
LEMMA CallRefines ==
  ASSUME NEW c \in Commands, Inv, Call(c) PROVE Contract!Call(c)
BY DEF Inv, TypeOK, Call, drainVars, calls, Contract!Call

LEMMA FailRefines ==
  ASSUME NEW c \in Commands, Inv, QueueFull(c) \/ TimesOut(c) PROVE Contract!Fail(c)
BY DEF Inv, TypeOK, QueueFull, TimesOut, drainVars, calls, Contract!Fail

\* The call returns what it was answered, and "ok" was answered only once written.
LEMMA AnswerRefines ==
  ASSUME NEW c \in Commands, Inv, Answered(c) PROVE Contract!Succeed(c) \/ Contract!Fail(c)
BY DEF Inv, TypeOK, Answers, Answered, drainVars, calls, Contract!Succeed, Contract!Fail

\* What the drain goroutine writes it holds, and what it holds has not been written.
LEMMA WriteRefines ==
  ASSUME NEW q \in Queues, Inv, DrainWrites(q)
  PROVE Contract!Write(holding[q]) \/ written' = written
<1>1. /\ holding[q] \in Commands
      /\ pc[holding[q]] # "idle" /\ written[holding[q]] = 0
  BY DEF Inv, TypeOK, Held, Unanswered, DrainWrites
<1>2. calls' = calls /\ calls[holding[q]] # "idle"
  BY <1>1 DEF calls, DrainWrites, callVars
<1>3. written' = written \/ written' = [written EXCEPT ![holding[q]] = 1]
  BY <1>1 DEF Inv, TypeOK, DrainWrites
<1> QED BY <1>1, <1>2, <1>3 DEF Contract!Write

LEMMA ContractNext ==
  ASSUME Inv, [Next]_vars PROVE [Contract!Next]_<<calls, written>>
<1>1. ASSUME UNCHANGED callVars, UNCHANGED written PROVE UNCHANGED <<calls, written>>
  BY <1>1 DEF calls, callVars
<1>2. CASE UNCHANGED vars
  BY <1>1, <1>2 DEF vars, drainVars
<1>3. ASSUME NEW c \in Commands, Call(c) \/ CallStep(c) \/ TimesOut(c)
      PROVE Contract!Next \/ UNCHANGED <<calls, written>>
  <2>1. CASE GetCommandQueue(c) \/ Enqueue(c)
    BY <2>1 DEF Inv, TypeOK, GetCommandQueue, Enqueue, calls, drainVars
  <2> QED BY <1>3, <2>1, CallRefines, FailRefines, AnswerRefines DEF CallStep, Contract!Next
<1>4. ASSUME NEW q \in Queues, DrainStep(q)
      PROVE Contract!Next \/ UNCHANGED <<calls, written>>
  <2>1. CASE DrainWrites(q)
    <3>1. holding[q] \in Commands
      BY <2>1 DEF Inv, TypeOK, Held, DrainWrites
    <3>2. UNCHANGED calls
      BY <2>1 DEF DrainWrites, callVars, calls
    <3> QED BY <2>1, <3>1, <3>2, WriteRefines DEF Contract!Next
  <2>2. CASE DrainTakes(q) \/ DrainChecks(q) \/ GapElapses(q) \/ DrainQuits(q)
    BY <1>1, <2>2 DEF DrainTakes, DrainChecks, GapElapses, DrainQuits
  <2> QED BY <1>4, <2>1, <2>2 DEF DrainStep
<1>5. CASE StopCommandQueue \/ LinkChanges
  BY <1>1, <1>5 DEF StopCommandQueue, LinkChanges, drainVars
<1> QED BY <1>2, <1>3, <1>4, <1>5 DEF Next

\* CommandQueue implements SendContract.
THEOREM KeepsContract == Spec => ContractSpec
BY ContractInit, Invariant, ContractNext, PTL DEF Spec, ContractSpec, Contract!Spec

=============================================================================
