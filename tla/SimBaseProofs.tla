---------------------------- MODULE SimBaseProofs ----------------------------
(* For any number of callers, reconnect goroutines, connections, senders     *)
(* and endpoints: no socket is leaked, no connection is left without a       *)
(* reader, "connected" is never reported over a dead leg, writes are paced,  *)
(* a Stop is final, and the client implements SimLink.                       *)
EXTENDS SimBase, TLAPS

-----------------------------------------------------------------------------
(* The inductive invariant.  The three properties are not inductive alone:   *)
(* they depend on which fields may differ while ConnectMutex is held.        *)

Holding == {"dial", "settle", "clear", "finish"}
ReaderPoints == {"idle", "begin", "check", "read", "reading", "panicked",
                 "disconnect", "clear", "finish"}
Returns == {"idle", "ended", "wait", "refresh", "unlock"}

\* ConnectMutex is held exactly inside Connect and Disconnect.
MutexInv == \A p \in Procs : pc[p] \in Holding <=> mutex = p

\* Readers stay at reader points and end after their Disconnect; nothing
\* returns into the middle of a critical section.
KindInv ==
  /\ \A c \in Conns : pc[c] \in ReaderPoints /\ ret[c] = "idle"
  /\ \A p \in Procs : ret[p] \in Returns

\* What Connected, Socket and the kernel agree on at each point of a critical
\* section.
LinkInv ==
  /\ Unlocked => (connected <=> socket # NoConn)
  /\ \A p \in Procs :
       /\ pc[p] = "dial" => ~connected /\ socket = NoConn
       /\ pc[p] = "settle" => connected /\ socket # NoConn
       /\ pc[p] = "clear" => connected /\ socket # NoConn /\ tcp[socket] = "closed"
       /\ pc[p] = "finish" => connected /\ socket = NoConn
  /\ \A c \in Conns : tcp[c] # "closed" => c = socket

\* The reader of the current socket has not ended.
WatchInv == socket # NoConn => pc[socket] # "idle"

StatusInv == status = "Connected" => connected

LinkParts == MutexInv /\ KindInv /\ LinkInv /\ WatchInv /\ StatusInv
IInv == TypeOK /\ LinkParts

-----------------------------------------------------------------------------
\* The type invariant in two halves, each within the provers' reach.
ScalarTypes ==
  /\ connected \in BOOLEAN /\ running \in BOOLEAN /\ autoReconnect \in BOOLEAN
  /\ socket \in Conns \cup {NoConn}
  /\ host \in Endpoints
  /\ attempts \in Nat
  /\ due \in BOOLEAN /\ gap \in BOOLEAN
  /\ status \in Statuses
  /\ mutex \in Procs \cup {NoProc}
  /\ sendMutex \in Senders \cup {NoProc}

FunctionTypes ==
  /\ expired \in [Loops -> BOOLEAN]
  /\ tcp \in [Conns -> TcpStates]
  /\ using \in [Conns \cup Senders -> Conns \cup {NoConn}]
  /\ pc \in [Procs -> Points] /\ ret \in [Procs -> Points]
  /\ target \in [Procs -> Endpoints]
  /\ seen \in [Loops -> [connected: BOOLEAN, autoReconnect: BOOLEAN,
                         attempts: Nat, due: BOOLEAN]]

LEMMA TypeInit == Init => TypeOK
  <1> SUFFICES ASSUME Init PROVE TypeOK
    OBVIOUS
  <1> USE SimBaseAssumption DEF Init, Statuses, TcpStates, Points, Home, NothingSeen
  <1>1. ScalarTypes
    BY DEF ScalarTypes
  <1>2. expired \in [Loops -> BOOLEAN] /\ tcp \in [Conns -> TcpStates]
    OBVIOUS
  <1>3. using \in [Conns \cup Senders -> Conns \cup {NoConn}]
    OBVIOUS
  <1>4. pc \in [Procs -> Points] /\ ret \in [Procs -> Points]
    OBVIOUS
  <1>5. target \in [Procs -> Endpoints]
    OBVIOUS
  <1>6. seen \in [Loops -> [connected: BOOLEAN, autoReconnect: BOOLEAN,
                            attempts: Nat, due: BOOLEAN]]
    OBVIOUS
  <1> QED
    BY <1>1, <1>2, <1>3, <1>4, <1>5, <1>6 DEF TypeOK, ScalarTypes

LEMMA InvInit == Init => IInv
  <1> SUFFICES ASSUME Init PROVE IInv
    OBVIOUS
  <1>1. TypeOK
    BY TypeInit
  <1>2. MutexInv
    BY SimBaseAssumption DEF Init, MutexInv, Holding, Procs
  <1>3. KindInv /\ LinkInv /\ WatchInv /\ StatusInv
    BY SimBaseAssumption DEF Init, KindInv, LinkInv, WatchInv, StatusInv, ReaderPoints,
       Returns, Home, Procs, Unlocked
  <1> QED
    BY <1>1, <1>2, <1>3 DEF IInv, LinkParts

LEMMA TypeStep ==
  ASSUME TypeOK, [Next]_vars
  PROVE  TypeOK'
  <1> USE SimBaseAssumption
      DEF TypeOK, Points, base, clocks, Goto, Statuses, TcpStates, ScalarTypes, FunctionTypes
  <1>1. ASSUME NEW p \in Procs, ConnectEnter(p) PROVE ScalarTypes' /\ FunctionTypes'
    <2>1. connected' \in BOOLEAN /\ running' \in BOOLEAN /\ autoReconnect' \in BOOLEAN
            /\ due' \in BOOLEAN /\ gap' \in BOOLEAN
      BY <1>1 DEF ConnectEnter
    <2>2. socket' \in Conns \cup {NoConn} /\ host' \in Endpoints /\ attempts' \in Nat
            /\ status' \in Statuses
      BY <1>1 DEF ConnectEnter
    <2>3. mutex' \in Procs \cup {NoProc} /\ sendMutex' \in Senders \cup {NoProc}
      BY <1>1 DEF ConnectEnter
    <2>4. pc' \in [Procs -> Points]
      BY <1>1 DEF ConnectEnter
    <2>5. tcp' \in [Conns -> TcpStates]
      BY <1>1 DEF ConnectEnter
    <2>6. target' \in [Procs -> Endpoints]
      BY <1>1 DEF ConnectEnter
    <2> QED
      BY <1>1, <2>1, <2>2, <2>3, <2>4, <2>5, <2>6 DEF ConnectEnter
  <1>2. ASSUME NEW p \in Procs, DialFails(p) PROVE ScalarTypes' /\ FunctionTypes'
    <2>1. attempts' \in Nat
      BY <1>2 DEF DialFails
    <2>2. status' \in Statuses /\ mutex' \in Procs \cup {NoProc} /\ due' \in BOOLEAN
      BY <1>2 DEF DialFails
    <2>3. FunctionTypes'
      BY <1>2 DEF DialFails, Procs
    <2> QED
      BY <1>2, <2>1, <2>2, <2>3 DEF DialFails
  <1>3. ASSUME NEW p \in Procs, NEW c \in Conns, DialSucceeds(p, c) PROVE ScalarTypes' /\ FunctionTypes'
    <2>1. ScalarTypes'
      BY <1>3 DEF DialSucceeds
    <2>2. FunctionTypes'
      BY <1>3 DEF DialSucceeds, Procs
    <2> QED
      BY <2>1, <2>2
  <1>4. ASSUME NEW p \in Procs, ConnectSettles(p) PROVE ScalarTypes' /\ FunctionTypes'
    <2>1. ScalarTypes'
      BY <1>4 DEF ConnectSettles
    <2>2. FunctionTypes'
      BY <1>4 DEF ConnectSettles, Procs
    <2> QED
      BY <2>1, <2>2
  <1>5. ASSUME NEW p \in Procs, DisconnectEnter(p) PROVE ScalarTypes' /\ FunctionTypes'
    <2>1. ScalarTypes'
      BY <1>5 DEF DisconnectEnter, NotConnected
    <2>2. FunctionTypes'
      BY <1>5 DEF DisconnectEnter, NotConnected, Procs
    <2> QED
      BY <2>1, <2>2
  <1>6. ASSUME NEW p \in Procs, DisconnectClear(p) PROVE ScalarTypes' /\ FunctionTypes'
    <2>1. ScalarTypes'
      BY <1>6 DEF DisconnectClear
    <2>2. FunctionTypes'
      BY <1>6 DEF DisconnectClear, Procs
    <2> QED
      BY <2>1, <2>2
  <1>7. ASSUME NEW p \in Procs, DisconnectFinish(p) PROVE ScalarTypes' /\ FunctionTypes'
    <2>1. ScalarTypes'
      BY <1>7 DEF DisconnectFinish
    <2>2. FunctionTypes'
      BY <1>7 DEF DisconnectFinish, Procs
    <2> QED
      BY <2>1, <2>2
  <1>8. ASSUME NEW u \in Callers, NEW e \in Endpoints, BeginConnect(u, e) PROVE ScalarTypes' /\ FunctionTypes'
    <2>1. ScalarTypes'
      BY <1>8 DEF BeginConnect
    <2>2. FunctionTypes'
      BY <1>8 DEF BeginConnect, Procs
    <2> QED
      BY <2>1, <2>2
  <1>9. ASSUME NEW u \in Callers, EnableAutoReconnect(u) PROVE ScalarTypes' /\ FunctionTypes'
    <2>1. ScalarTypes'
      BY <1>9 DEF EnableAutoReconnect
    <2>2. FunctionTypes'
      BY <1>9 DEF EnableAutoReconnect, Procs
    <2> QED
      BY <2>1, <2>2
  <1>10. ASSUME NEW u \in Callers, Start(u) PROVE ScalarTypes' /\ FunctionTypes'
    <2>1. ScalarTypes'
      BY <1>10 DEF Start
    <2>2. FunctionTypes'
      BY <1>10 DEF Start, Procs
    <2> QED
      BY <2>1, <2>2
  <1>11. ASSUME NEW u \in Callers, EndConnect(u) PROVE ScalarTypes' /\ FunctionTypes'
    <2>1. ScalarTypes'
      BY <1>11 DEF EndConnect
    <2>2. FunctionTypes'
      BY <1>11 DEF EndConnect, Procs
    <2> QED
      BY <2>1, <2>2
  <1>12. ASSUME NEW u \in Callers, EndConnectReturns(u) PROVE ScalarTypes' /\ FunctionTypes'
    <2>1. ScalarTypes'
      BY <1>12 DEF EndConnectReturns, Home
    <2>2. FunctionTypes'
      BY <1>12 DEF EndConnectReturns, Home, Procs
    <2> QED
      BY <2>1, <2>2
  <1>13. ASSUME NEW u \in Callers, Stop(u) PROVE ScalarTypes' /\ FunctionTypes'
    <2>1. ScalarTypes'
      BY <1>13 DEF Stop
    <2>2. FunctionTypes'
      BY <1>13 DEF Stop, Procs
    <2> QED
      BY <2>1, <2>2
  <1>14. ASSUME NEW u \in Callers, StopReturns(u) PROVE ScalarTypes' /\ FunctionTypes'
    <2>1. ScalarTypes'
      BY <1>14 DEF StopReturns, Home
    <2>2. FunctionTypes'
      BY <1>14 DEF StopReturns, Home, Procs
    <2> QED
      BY <2>1, <2>2
  <1>15. ASSUME NEW l \in Loops, LoopTop(l) PROVE ScalarTypes' /\ FunctionTypes'
    <2>1. ScalarTypes'
      BY <1>15 DEF LoopTop
    <2>2. FunctionTypes'
      BY <1>15 DEF LoopTop, Procs
    <2> QED
      BY <2>1, <2>2
  <1>16. ASSUME NEW l \in Loops, LoopSnapshot(l) PROVE ScalarTypes' /\ FunctionTypes'
    <2>1. ScalarTypes'
      BY <1>16 DEF LoopSnapshot
    <2>2. FunctionTypes'
      BY <1>16 DEF LoopSnapshot, Procs
    <2> QED
      BY <2>1, <2>2
  <1>17. ASSUME NEW l \in Loops, LoopDecide(l) PROVE ScalarTypes' /\ FunctionTypes'
    <2>1. pc' \in [Procs -> Points]
      BY <1>17 DEF LoopDecide, Procs
    <2>2. expired' \in [Loops -> BOOLEAN]
      BY <1>17 DEF LoopDecide, Procs
    <2>3. target' \in [Procs -> Endpoints]
      BY <1>17 DEF LoopDecide, Procs
    <2>4. seen' \in [Loops -> [connected: BOOLEAN, autoReconnect: BOOLEAN,
                              attempts: Nat, due: BOOLEAN]]
      BY <1>17 DEF LoopDecide, NothingSeen
    <2>5. ScalarTypes'
      BY <1>17 DEF LoopDecide
    <2> QED
      BY <1>17, <2>1, <2>2, <2>3, <2>4, <2>5 DEF LoopDecide
  <1>18. ASSUME NEW l \in Loops, LoopRefresh(l) PROVE ScalarTypes' /\ FunctionTypes'
    <2>1. ScalarTypes'
      BY <1>18 DEF LoopRefresh
    <2>2. FunctionTypes'
      BY <1>18 DEF LoopRefresh, Procs
    <2> QED
      BY <2>1, <2>2
  <1>19. ASSUME NEW l \in Loops, LoopGivesUp(l) PROVE ScalarTypes' /\ FunctionTypes'
    <2>1. ScalarTypes'
      BY <1>19 DEF LoopGivesUp
    <2>2. FunctionTypes'
      BY <1>19 DEF LoopGivesUp, Procs
    <2> QED
      BY <2>1, <2>2
  <1>20. ASSUME NEW l \in Loops, LoopReports(l) PROVE ScalarTypes' /\ FunctionTypes'
    <2>1. ScalarTypes'
      BY <1>20 DEF LoopReports
    <2>2. FunctionTypes'
      BY <1>20 DEF LoopReports, Procs
    <2> QED
      BY <2>1, <2>2
  <1>21. ASSUME NEW c \in Conns, ReaderBegins(c) PROVE ScalarTypes' /\ FunctionTypes'
    <2>1. ScalarTypes'
      BY <1>21 DEF ReaderBegins
    <2>2. FunctionTypes'
      BY <1>21 DEF ReaderBegins, Procs
    <2> QED
      BY <2>1, <2>2
  <1>22. ASSUME NEW c \in Conns, ReaderChecks(c) PROVE ScalarTypes' /\ FunctionTypes'
    <2>1. ScalarTypes'
      BY <1>22 DEF ReaderChecks
    <2>2. FunctionTypes'
      BY <1>22 DEF ReaderChecks, Procs
    <2> QED
      BY <2>1, <2>2
  <1>23. ASSUME NEW c \in Conns, ReaderReads(c) PROVE ScalarTypes' /\ FunctionTypes'
    <2>1. ScalarTypes'
      BY <1>23 DEF ReaderReads
    <2>2. FunctionTypes'
      BY <1>23 DEF ReaderReads, Procs
    <2> QED
      BY <2>1, <2>2
  <1>24. ASSUME NEW c \in Conns, ReadReturns(c) PROVE ScalarTypes' /\ FunctionTypes'
    <2>1. ScalarTypes'
      BY <1>24 DEF ReadReturns
    <2>2. FunctionTypes'
      BY <1>24 DEF ReadReturns, Procs
    <2> QED
      BY <2>1, <2>2
  <1>25. ASSUME NEW c \in Conns, ReadFails(c) PROVE ScalarTypes' /\ FunctionTypes'
    <2>1. ScalarTypes'
      BY <1>25 DEF ReadFails
    <2>2. FunctionTypes'
      BY <1>25 DEF ReadFails, Procs
    <2> QED
      BY <2>1, <2>2
  <1>26. ASSUME NEW c \in Conns, PeerCloses(c) PROVE ScalarTypes' /\ FunctionTypes'
    <2>1. ScalarTypes'
      BY <1>26 DEF PeerCloses
    <2>2. FunctionTypes'
      BY <1>26 DEF PeerCloses, Procs
    <2> QED
      BY <2>1, <2>2
  <1>27. ASSUME NEW s \in Senders, SendEnter(s) PROVE ScalarTypes' /\ FunctionTypes'
    <2>1. ScalarTypes'
      BY <1>27 DEF SendEnter
    <2>2. FunctionTypes'
      BY <1>27 DEF SendEnter, Procs
    <2> QED
      BY <2>1, <2>2
  <1>28. ASSUME NEW s \in Senders, SendPaced(s) PROVE ScalarTypes' /\ FunctionTypes'
    <2>1. ScalarTypes'
      BY <1>28 DEF SendPaced
    <2>2. FunctionTypes'
      BY <1>28 DEF SendPaced, Procs
    <2> QED
      BY <2>1, <2>2
  <1>29. ASSUME NEW s \in Senders, SendWrites(s) PROVE ScalarTypes' /\ FunctionTypes'
    <2>1. ScalarTypes'
      BY <1>29 DEF SendWrites
    <2>2. FunctionTypes'
      BY <1>29 DEF SendWrites, Procs
    <2> QED
      BY <2>1, <2>2
  <1>30. ASSUME NEW s \in Senders, SendReturns(s) PROVE ScalarTypes' /\ FunctionTypes'
    <2>1. ScalarTypes'
      BY <1>30 DEF SendReturns
    <2>2. FunctionTypes'
      BY <1>30 DEF SendReturns, Procs
    <2> QED
      BY <2>1, <2>2
  <1>31. ASSUME NEW s \in Senders, SendUnlocks(s) PROVE ScalarTypes' /\ FunctionTypes'
    <2>1. ScalarTypes'
      BY <1>31 DEF SendUnlocks
    <2>2. FunctionTypes'
      BY <1>31 DEF SendUnlocks, Procs
    <2> QED
      BY <2>1, <2>2
  <1>32. ASSUME BackoffElapses \/ GapElapses \/ LongWait PROVE ScalarTypes' /\ FunctionTypes'
    <2>1. ScalarTypes'
      BY <1>32 DEF BackoffElapses, GapElapses, LongWait
    <2>2. expired' \in [Loops -> BOOLEAN]
      <3>1. CASE LongWait
        <4>1. expired' = [l \in Loops |-> pc[l] = "top"]
          BY <3>1 DEF LongWait
        <4>2. \A l \in Loops : (pc[l] = "top") \in BOOLEAN
          OBVIOUS
        <4> QED
          BY <4>1, <4>2, Zenon
      <3>2. CASE BackoffElapses \/ GapElapses
        BY <3>2 DEF BackoffElapses, GapElapses
      <3> QED
        BY <1>32, <3>1, <3>2
    <2> QED
      BY <1>32, <2>1, <2>2 DEF BackoffElapses, GapElapses, LongWait
  <1>33. ASSUME UNCHANGED vars PROVE ScalarTypes' /\ FunctionTypes'
    BY <1>33 DEF vars
  <1> HIDE DEF ScalarTypes, FunctionTypes, Points, base, clocks, Goto, Statuses, TcpStates, TypeOK
  <1>34. ASSUME NEW p \in Procs, ConnectStep(p) \/ DisconnectStep(p) PROVE ScalarTypes' /\ FunctionTypes'
    BY <1>34, <1>1, <1>2, <1>3, <1>4, <1>5, <1>6, <1>7 DEF ConnectStep, DisconnectStep
  <1>35. ASSUME NEW u \in Callers, CallerStep(u) PROVE ScalarTypes' /\ FunctionTypes'
    BY <1>35, <1>9, <1>10, <1>12, <1>14 DEF CallerStep
  <1>36. ASSUME NEW l \in Loops, LoopStep(l) PROVE ScalarTypes' /\ FunctionTypes'
    BY <1>36, <1>15, <1>16, <1>17, <1>18, <1>19, <1>20 DEF LoopStep
  <1>37. ASSUME NEW c \in Conns, ReaderStep(c) PROVE ScalarTypes' /\ FunctionTypes'
    BY <1>37, <1>21, <1>22, <1>23, <1>24, <1>25 DEF ReaderStep
  <1>38. ASSUME NEW s \in Senders, SenderStep(s) PROVE ScalarTypes' /\ FunctionTypes'
    BY <1>38, <1>28, <1>29, <1>30, <1>31 DEF SenderStep
  <1>39. ScalarTypes' /\ FunctionTypes'
    BY <1>8, <1>11, <1>13, <1>26, <1>27, <1>32, <1>33, <1>34, <1>35, <1>36, <1>37, <1>38
       DEF Next, Step
  <1> QED
    BY <1>39 DEF TypeOK, ScalarTypes, FunctionTypes

\* Type correctness of the client, for every value of the constants.
THEOREM TypeCorrect == Spec => []TypeOK
  BY TypeInit, TypeStep, PTL DEF Spec
-----------------------------------------------------------------------------
\* A step that stays outside Connect and Disconnect, moves one goroutine and
\* leaves the connection alone keeps the invariant: most steps are of this kind.
LEMMA QuietStep ==
  ASSUME IInv, NEW p \in Procs, NEW l \in Points, Goto(p, l),
         pc[p] \notin Holding, l \notin Holding,
         UNCHANGED <<connected, socket, mutex, tcp>>,
         status' \in {status, "Disconnected", "Error"},
         p \in Conns => l \in ReaderPoints /\ (l = "idle" => socket # p),
         \A q \in Procs : ret'[q] \in Returns,
         \A c \in Conns : ret'[c] = ret[c]
  PROVE  LinkParts'
  <1> USE DEF IInv, LinkParts, TypeOK
  <1>1. pc' = [pc EXCEPT ![p] = l]
    BY DEF Goto
  <1>2. \A q \in Procs : pc'[q] = IF q = p THEN l ELSE pc[q]
    BY <1>1
  <1>3. MutexInv'
    BY <1>2 DEF MutexInv
  <1>4. KindInv'
    BY <1>2 DEF KindInv, Procs
  <1>5. LinkInv'
    BY <1>2 DEF LinkInv, Unlocked, Holding
  <1>6. WatchInv'
    BY <1>2 DEF WatchInv, Procs
  <1>7. StatusInv'
    BY DEF StatusInv
  <1> QED
    BY <1>3, <1>4, <1>5, <1>6, <1>7

\* The steps inside Connect and Disconnect, one lemma each.
LEMMA ConnectEnterStep ==
  ASSUME IInv, NEW p \in Procs, ConnectEnter(p)
  PROVE  LinkParts'
  <1> USE SimBaseAssumption DEF IInv, TypeOK
  <1>1. CASE connected
    <2>1. Goto(p, ret[p]) /\ UNCHANGED <<connected, socket, mutex, tcp, status, ret>>
      BY <1>1 DEF ConnectEnter
    <2>2. ret[p] \in Returns /\ pc[p] = "connect" /\ p \notin Conns
      BY DEF ConnectEnter, LinkParts, KindInv, ReaderPoints
    <2>3. \A q \in Procs : ret'[q] \in Returns
      BY <2>1 DEF LinkParts, KindInv
    <2> QED
      BY <2>1, <2>2, <2>3, QuietStep DEF Returns, Holding
  <1>2. CASE ~connected
    <2> USE DEF LinkParts
    <2>1. /\ pc[p] = "connect" /\ mutex = NoProc /\ mutex' = p
          /\ pc' = [pc EXCEPT ![p] = "dial"]
          /\ socket' = NoConn /\ status' = "Connecting"
          /\ UNCHANGED <<connected, ret>>
      BY <1>2 DEF ConnectEnter, Goto, Unlocked
    <2>2. tcp' = [c \in Conns |-> IF c = socket THEN "closed" ELSE tcp[c]]
      BY <1>2 DEF ConnectEnter
    <2>3. \A q \in Procs : pc'[q] = IF q = p THEN "dial" ELSE pc[q]
      BY <2>1
    <2>4. p \notin Conns
      BY <2>1 DEF KindInv, ReaderPoints
    <2>5. MutexInv'
      BY <2>1, <2>3 DEF MutexInv, Holding
    <2>6. KindInv'
      BY <2>1, <2>3, <2>4 DEF KindInv, Procs
    <2>7. \A q \in Procs : q # p => pc'[q] \notin Holding
      BY <2>1, <2>3 DEF MutexInv
    <2>8. \A c \in Conns : tcp'[c] = "closed"
      BY <2>2 DEF LinkInv
    <2>9. LinkInv'
      BY <1>2, <2>1, <2>3, <2>7, <2>8 DEF LinkInv, Unlocked, Holding
    <2>10. WatchInv' /\ StatusInv'
      BY <2>1 DEF WatchInv, StatusInv
    <2> QED
      BY <2>5, <2>6, <2>9, <2>10
  <1> QED
    BY <1>1, <1>2

LEMMA DialFailsStep ==
  ASSUME IInv, NEW p \in Procs, DialFails(p)
  PROVE  LinkParts'
  <1> USE SimBaseAssumption DEF IInv, TypeOK, LinkParts
  <1>1. /\ pc[p] = "dial" /\ mutex' = NoProc /\ status' = "Error"
        /\ pc' = [pc EXCEPT ![p] = ret[p]]
        /\ UNCHANGED <<connected, socket, tcp, ret>>
    BY DEF DialFails, Goto
  <1>2. \A q \in Procs : pc'[q] = IF q = p THEN ret[p] ELSE pc[q]
    BY <1>1
  <1>3. ret[p] \in Returns /\ p \notin Conns
    BY <1>1 DEF KindInv, ReaderPoints
  <1>4. \A q \in Procs : pc'[q] \notin Holding
    BY <1>1, <1>2, <1>3 DEF MutexInv, Holding, Returns
  <1>5. MutexInv'
    BY <1>1, <1>4 DEF MutexInv
  <1>6. KindInv'
    BY <1>1, <1>2, <1>3 DEF KindInv, Procs
  <1>7. ~connected /\ socket = NoConn
    BY <1>1 DEF LinkInv
  <1>8. LinkInv'
    BY <1>1, <1>4, <1>7 DEF LinkInv, Holding
  <1>9. WatchInv' /\ StatusInv'
    BY <1>1, <1>7 DEF WatchInv, StatusInv
  <1> QED
    BY <1>5, <1>6, <1>8, <1>9

LEMMA DialSucceedsStep ==
  ASSUME IInv, NEW p \in Procs, NEW c \in Conns, DialSucceeds(p, c)
  PROVE  LinkParts'
  <1> USE SimBaseAssumption DEF IInv, TypeOK, LinkParts
  <1>1. /\ pc[p] = "dial" /\ pc[c] = "idle"
        /\ pc' = [pc EXCEPT ![p] = "settle", ![c] = "begin"]
        /\ connected' = TRUE /\ socket' = c
        /\ UNCHANGED <<mutex, status, ret>>
    BY DEF DialSucceeds, FreeConn
  <1>2. tcp' = [tcp EXCEPT ![c] = "open"]
    BY DEF DialSucceeds
  <1>3. c \in Procs /\ c # NoConn /\ p # c
    BY <1>1 DEF Procs
  <1>4. \A q \in Procs : pc'[q] = IF q = p THEN "settle" ELSE IF q = c THEN "begin" ELSE pc[q]
    BY <1>1, <1>3
  <1>5. p \notin Conns
    BY <1>1 DEF KindInv, ReaderPoints
  <1>6. MutexInv'
    BY <1>1, <1>4 DEF MutexInv, Holding
  <1>7. KindInv'
    BY <1>1, <1>4, <1>5 DEF KindInv, ReaderPoints, Procs
  <1>8. \A q \in Procs : pc'[q] \in Holding => q = p
    BY <1>1, <1>4 DEF MutexInv, Holding
  <1>9. \A d \in Conns : tcp[d] = "closed"
    BY <1>1 DEF LinkInv
  <1>10. \A d \in Conns : tcp'[d] # "closed" => d = c
    BY <1>2, <1>9
  <1>11. LinkInv'
    <2>1. \A q \in Procs : q # p => pc'[q] \notin {"dial", "settle", "clear", "finish"}
      BY <1>8 DEF Holding
    <2>2. pc'[p] = "settle"
      BY <1>4
    <2> QED
      BY <1>1, <1>3, <1>10, <2>1, <2>2 DEF LinkInv, Unlocked
  <1>12. WatchInv' /\ StatusInv'
    BY <1>1, <1>3, <1>4 DEF WatchInv, StatusInv
  <1> QED
    BY <1>6, <1>7, <1>11, <1>12

LEMMA ConnectSettlesStep ==
  ASSUME IInv, NEW p \in Procs, ConnectSettles(p)
  PROVE  LinkParts'
  <1> USE SimBaseAssumption DEF IInv, TypeOK, LinkParts
  <1>1. /\ pc[p] = "settle" /\ mutex' = NoProc
        /\ pc' = [pc EXCEPT ![p] = ret[p]]
        /\ UNCHANGED <<connected, socket, tcp, ret>>
    BY DEF ConnectSettles, Goto, base
  <1>2. \A q \in Procs : pc'[q] = IF q = p THEN ret[p] ELSE pc[q]
    BY <1>1
  <1>3. ret[p] \in Returns /\ p \notin Conns
    BY <1>1 DEF KindInv, ReaderPoints
  <1>4. \A q \in Procs : pc'[q] \notin Holding
    BY <1>1, <1>2, <1>3 DEF MutexInv, Holding, Returns
  <1>5. MutexInv'
    BY <1>1, <1>4 DEF MutexInv
  <1>6. KindInv'
    BY <1>1, <1>2, <1>3 DEF KindInv, Procs
  <1>7. connected /\ socket # NoConn
    BY <1>1 DEF LinkInv
  <1>8. LinkInv'
    BY <1>1, <1>4, <1>7 DEF LinkInv, Holding
  <1>9. WatchInv' /\ StatusInv'
    BY <1>1, <1>2, <1>3, <1>7 DEF WatchInv, StatusInv, Procs
  <1> QED
    BY <1>5, <1>6, <1>8, <1>9

LEMMA DisconnectEnterStep ==
  ASSUME IInv, NEW p \in Procs, DisconnectEnter(p)
  PROVE  LinkParts'
  <1> USE SimBaseAssumption DEF IInv, TypeOK, LinkParts
  <1>1. pc[p] = "disconnect" /\ mutex = NoProc /\ ret' = ret /\ socket' = socket
    BY DEF DisconnectEnter, Unlocked
  <1>2. connected <=> socket # NoConn
    BY <1>1 DEF LinkInv, Unlocked
  <1>3. ret[p] \in Returns /\ (p \in Conns => ret[p] = "idle")
    BY DEF KindInv
  <1>4. CASE NotConnected
    <2>1. ~connected /\ socket = NoConn
      BY <1>2, <1>4 DEF NotConnected
    <2>2. Goto(p, ret[p]) /\ UNCHANGED <<connected, mutex, tcp>> /\ status' = "Disconnected"
      BY <1>4, <2>1 DEF DisconnectEnter
    <2>3. \A q \in Procs : ret'[q] \in Returns
      BY <1>1 DEF KindInv
    <2> HIDE DEF LinkParts
    <2> QED
      BY <1>1, <1>3, <2>1, <2>2, <2>3, QuietStep DEF Returns, Holding, ReaderPoints
  <1>5. CASE ~NotConnected
    <2>1. connected /\ socket \in Conns
      BY <1>5 DEF NotConnected
    <2>2. /\ mutex' = p /\ pc' = [pc EXCEPT ![p] = "clear"]
          /\ tcp' = [tcp EXCEPT ![socket] = "closed"]
          /\ UNCHANGED <<connected, status>>
      BY <1>5 DEF DisconnectEnter, Goto
    <2>3. \A q \in Procs : pc'[q] = IF q = p THEN "clear" ELSE pc[q]
      BY <2>2
    <2>4. MutexInv'
      BY <1>1, <2>2, <2>3 DEF MutexInv, Holding
    <2>5. KindInv'
      BY <1>1, <2>3 DEF KindInv, ReaderPoints, Procs
    <2>6. \A q \in Procs : q # p => pc'[q] \notin Holding
      BY <1>1, <2>3 DEF MutexInv
    <2>7. \A c \in Conns : tcp'[c] = "closed"
      BY <2>1, <2>2 DEF LinkInv, TcpStates
    <2>8. LinkInv'
      BY <1>1, <2>1, <2>2, <2>3, <2>6, <2>7 DEF LinkInv, Unlocked, Holding
    <2>9. WatchInv' /\ StatusInv'
      BY <1>1, <2>1, <2>2, <2>3 DEF WatchInv, StatusInv, Procs
    <2> QED
      BY <2>4, <2>5, <2>8, <2>9
  <1> QED
    BY <1>4, <1>5

LEMMA DisconnectClearStep ==
  ASSUME IInv, NEW p \in Procs, DisconnectClear(p)
  PROVE  LinkParts'
  <1> USE SimBaseAssumption DEF IInv, TypeOK, LinkParts
  <1>1. /\ pc[p] = "clear" /\ mutex' = mutex
        /\ pc' = [pc EXCEPT ![p] = "finish"]
        /\ socket' = NoConn /\ UNCHANGED <<connected, tcp, status, ret>>
    BY DEF DisconnectClear, Goto
  <1>2. \A q \in Procs : pc'[q] = IF q = p THEN "finish" ELSE pc[q]
    BY <1>1
  <1>3. MutexInv'
    BY <1>1, <1>2 DEF MutexInv, Holding
  <1>4. KindInv'
    BY <1>1, <1>2 DEF KindInv, ReaderPoints, Procs
  <1>5. mutex = p /\ connected
    BY <1>1 DEF MutexInv, Holding, LinkInv
  <1>6. \A q \in Procs : q # p => pc'[q] \notin Holding
    BY <1>2, <1>5 DEF MutexInv
  <1>7. \A c \in Conns : tcp[c] = "closed"
    BY <1>1 DEF LinkInv
  <1>8. LinkInv'
    BY <1>1, <1>2, <1>5, <1>6, <1>7 DEF LinkInv, Unlocked, Holding
  <1>9. WatchInv' /\ StatusInv'
    BY <1>1, <1>5 DEF WatchInv, StatusInv
  <1> QED
    BY <1>3, <1>4, <1>8, <1>9

LEMMA DisconnectFinishStep ==
  ASSUME IInv, NEW p \in Procs, DisconnectFinish(p)
  PROVE  LinkParts'
  <1> USE SimBaseAssumption DEF IInv, TypeOK, LinkParts
  <1>1. /\ pc[p] = "finish" /\ mutex' = NoProc /\ connected' = FALSE
        /\ status' = "Disconnected"
        /\ pc' = [pc EXCEPT ![p] = ret[p]]
        /\ UNCHANGED <<socket, tcp, ret>>
    BY DEF DisconnectFinish, Goto
  <1>2. \A q \in Procs : pc'[q] = IF q = p THEN ret[p] ELSE pc[q]
    BY <1>1
  <1>3. ret[p] \in Returns /\ (p \in Conns => ret[p] = "idle")
    BY DEF KindInv
  <1>4. \A q \in Procs : pc'[q] \notin Holding
    BY <1>1, <1>2, <1>3 DEF MutexInv, Holding, Returns
  <1>5. MutexInv'
    BY <1>1, <1>4 DEF MutexInv
  <1>6. KindInv'
    BY <1>1, <1>2, <1>3 DEF KindInv, ReaderPoints, Procs
  <1>7. socket = NoConn
    BY <1>1 DEF LinkInv
  <1>8. LinkInv'
    BY <1>1, <1>4, <1>7 DEF LinkInv, Holding
  <1>9. WatchInv' /\ StatusInv'
    BY <1>1, <1>7 DEF WatchInv, StatusInv
  <1> QED
    BY <1>5, <1>6, <1>8, <1>9

\* Start moves two goroutines: the caller and the one it spawns.
LEMMA StartStep ==
  ASSUME IInv, NEW u \in Callers, Start(u)
  PROVE  LinkParts'
  <1> USE SimBaseAssumption DEF IInv, TypeOK, LinkParts
  <1>1. PICK l \in Loops \cup {u} :
          /\ pc[u] = "start" /\ (l # u => pc[l] = "idle")
          /\ pc' = [pc EXCEPT ![u] = "connect", ![l] = IF l = u THEN "connect" ELSE "top"]
    <2>1. CASE running
      <3>1. pc[u] = "start" /\ pc' = [pc EXCEPT ![u] = "connect"]
        BY <2>1 DEF Start, Goto
      <3> QED
        BY <3>1
    <2>2. CASE ~running
      <3>1. PICK l \in Loops : pc[l] = "idle" /\ pc' = [pc EXCEPT ![u] = "connect", ![l] = "top"]
        BY <2>2 DEF Start
      <3>2. l # u /\ pc[u] = "start"
        BY DEF Start
      <3> QED
        BY <3>1, <3>2
    <2> QED
      BY <2>1, <2>2
  <1>2. UNCHANGED <<connected, socket, mutex, tcp, status, ret>>
    BY DEF Start
  <1>3. u \in Procs /\ l \in Procs /\ u \notin Conns /\ l \notin Conns
    BY DEF Procs
  <1>4. \A q \in Procs : \/ pc'[q] = pc[q]
                         \/ /\ q \notin Conns /\ pc[q] \notin Holding
                            /\ pc'[q] \in {"connect", "top"}
    BY <1>1, <1>3 DEF Holding
  <1>5. MutexInv'
    BY <1>2, <1>4 DEF MutexInv, Holding
  <1>6. KindInv'
    BY <1>2, <1>4 DEF KindInv, Procs
  <1>7. LinkInv'
    BY <1>2, <1>4 DEF LinkInv, Unlocked
  <1>8. WatchInv' /\ StatusInv'
    BY <1>2, <1>4 DEF WatchInv, StatusInv, Procs
  <1> QED
    BY <1>5, <1>6, <1>7, <1>8

\* The steps that move no goroutine.
LEMMA EnvironmentStep ==
  ASSUME IInv,
         UNCHANGED vars \/ BackoffElapses \/ GapElapses \/ LongWait
           \/ \E c \in Conns : PeerCloses(c)
  PROVE  LinkParts'
  <1> USE DEF IInv, TypeOK, LinkParts
  <1>1. UNCHANGED <<connected, socket, mutex, status, ret, pc>>
    BY DEF vars, base, BackoffElapses, GapElapses, LongWait, PeerCloses
  <1>2. \A c \in Conns : tcp'[c] # "closed" => tcp[c] # "closed"
    BY DEF vars, BackoffElapses, GapElapses, LongWait, PeerCloses
  <1>3. MutexInv' /\ KindInv' /\ WatchInv' /\ StatusInv'
    BY <1>1 DEF MutexInv, KindInv, WatchInv, StatusInv
  <1>4. LinkInv'
    BY <1>1, <1>2 DEF LinkInv, Unlocked
  <1> QED
    BY <1>3, <1>4

\* The steps of callers outside the critical sections.
LEMMA CallerQuiet ==
  ASSUME IInv, NEW u \in Callers, EnableAutoReconnect(u) \/ EndConnect(u) \/ EndConnectReturns(u) \/ Stop(u) \/ StopReturns(u)
  PROVE  LinkParts'
  <1> USE SimBaseAssumption DEF IInv, TypeOK
  <1>0. u \in Procs /\ u \notin Conns
    BY DEF Procs
  <1>1. CASE EnableAutoReconnect(u)
    <2>1. pc[u] = "enable" /\ UNCHANGED <<connected, socket, mutex, tcp>>
      BY <1>1 DEF EnableAutoReconnect, base
    <2>2. status' \in {status, "Disconnected", "Error"}
      BY <1>1 DEF EnableAutoReconnect
    <2>3. \A q \in Procs : ret'[q] \in Returns
      BY <1>1, <1>0 DEF EnableAutoReconnect, LinkParts, KindInv, Returns
    <2>4. \A c \in Conns : ret'[c] = ret[c]
      BY <1>1, <1>0 DEF EnableAutoReconnect, Procs
    <2>5. PICK x \in {"start"} : Goto(u, x)
      BY <1>1 DEF EnableAutoReconnect
    <2> QED
      BY <1>0, <2>1, <2>2, <2>3, <2>4, <2>5, QuietStep DEF Points, Holding, ReaderPoints
  <1>2. CASE EndConnect(u)
    <2>1. pc[u] = "idle" /\ UNCHANGED <<connected, socket, mutex, tcp>>
      BY <1>2 DEF EndConnect, base
    <2>2. status' \in {status, "Disconnected", "Error"}
      BY <1>2 DEF EndConnect
    <2>3. \A q \in Procs : ret'[q] \in Returns
      BY <1>2, <1>0 DEF EndConnect, LinkParts, KindInv, Returns, Home
    <2>4. \A c \in Conns : ret'[c] = ret[c]
      BY <1>2, <1>0 DEF EndConnect, Procs
    <2>5. PICK x \in {"disconnect"} : Goto(u, x)
      BY <1>2 DEF EndConnect
    <2> QED
      BY <1>0, <2>1, <2>2, <2>3, <2>4, <2>5, QuietStep DEF Points, Holding, ReaderPoints
  <1>3. CASE EndConnectReturns(u)
    <2>1. pc[u] = "ended" /\ UNCHANGED <<connected, socket, mutex, tcp>>
      BY <1>3 DEF EndConnectReturns, base
    <2>2. status' \in {status, "Disconnected", "Error"}
      BY <1>3 DEF EndConnectReturns
    <2>3. \A q \in Procs : ret'[q] \in Returns
      BY <1>3, <1>0 DEF EndConnectReturns, LinkParts, KindInv, Returns, Home
    <2>4. \A c \in Conns : ret'[c] = ret[c]
      BY <1>3, <1>0 DEF EndConnectReturns, Procs
    <2>5. PICK x \in {"idle"} : Goto(u, x)
      BY <1>3 DEF EndConnectReturns
    <2> QED
      BY <1>0, <2>1, <2>2, <2>3, <2>4, <2>5, QuietStep DEF Points, Holding, ReaderPoints
  <1>4. CASE Stop(u)
    <2>1. pc[u] = "idle" /\ UNCHANGED <<connected, socket, mutex, tcp>>
      BY <1>4 DEF Stop, base
    <2>2. status' \in {status, "Disconnected", "Error"}
      BY <1>4 DEF Stop
    <2>3. \A q \in Procs : ret'[q] \in Returns
      BY <1>4, <1>0 DEF Stop, LinkParts, KindInv, Returns, Home
    <2>4. \A c \in Conns : ret'[c] = ret[c]
      BY <1>4, <1>0 DEF Stop, Procs
    <2>5. PICK x \in {"disconnect"} : Goto(u, x)
      BY <1>4 DEF Stop
    <2> QED
      BY <1>0, <2>1, <2>2, <2>3, <2>4, <2>5, QuietStep DEF Points, Holding, ReaderPoints
  <1>5. CASE StopReturns(u)
    <2>1. pc[u] = "wait" /\ UNCHANGED <<connected, socket, mutex, tcp>>
      BY <1>5 DEF StopReturns, base
    <2>2. status' \in {status, "Disconnected", "Error"}
      BY <1>5 DEF StopReturns
    <2>3. \A q \in Procs : ret'[q] \in Returns
      BY <1>5, <1>0 DEF StopReturns, LinkParts, KindInv, Returns, Home
    <2>4. \A c \in Conns : ret'[c] = ret[c]
      BY <1>5, <1>0 DEF StopReturns, Procs
    <2>5. PICK x \in {"idle"} : Goto(u, x)
      BY <1>5 DEF StopReturns
    <2> QED
      BY <1>0, <2>1, <2>2, <2>3, <2>4, <2>5, QuietStep DEF Points, Holding, ReaderPoints
  <1> QED
    BY <1>1, <1>2, <1>3, <1>4, <1>5

LEMMA LoopQuiet ==
  ASSUME IInv, NEW l \in Loops, LoopTop(l) \/ LoopSnapshot(l) \/ LoopDecide(l) \/ LoopRefresh(l) \/ LoopGivesUp(l) \/ LoopReports(l)
  PROVE  LinkParts'
  <1> USE SimBaseAssumption DEF IInv, TypeOK
  <1>0. l \in Procs /\ l \notin Conns
    BY DEF Procs
  <1>1. CASE LoopTop(l)
    <2>1. pc[l] = "top" /\ UNCHANGED <<connected, socket, mutex, tcp>>
      BY <1>1 DEF LoopTop, base
    <2>2. status' \in {status, "Disconnected", "Error"}
      BY <1>1 DEF LoopTop
    <2>3. \A q \in Procs : ret'[q] \in Returns
      BY <1>1, <1>0 DEF LoopTop, LinkParts, KindInv, Returns
    <2>4. \A c \in Conns : ret'[c] = ret[c]
      BY <1>1, <1>0 DEF LoopTop, Procs
    <2>5. PICK x \in {"snap", "idle"} : Goto(l, x)
      BY <1>1 DEF LoopTop
    <2> QED
      BY <1>0, <2>1, <2>2, <2>3, <2>4, <2>5, QuietStep DEF Points, Holding, ReaderPoints
  <1>2. CASE LoopSnapshot(l)
    <2>1. pc[l] = "snap" /\ UNCHANGED <<connected, socket, mutex, tcp>>
      BY <1>2 DEF LoopSnapshot, base
    <2>2. status' \in {status, "Disconnected", "Error"}
      BY <1>2 DEF LoopSnapshot
    <2>3. \A q \in Procs : ret'[q] \in Returns
      BY <1>2, <1>0 DEF LoopSnapshot, LinkParts, KindInv, Returns
    <2>4. \A c \in Conns : ret'[c] = ret[c]
      BY <1>2, <1>0 DEF LoopSnapshot, Procs
    <2>5. PICK x \in {"decide"} : Goto(l, x)
      BY <1>2 DEF LoopSnapshot
    <2> QED
      BY <1>0, <2>1, <2>2, <2>3, <2>4, <2>5, QuietStep DEF Points, Holding, ReaderPoints
  <1>3. CASE LoopDecide(l)
    <2>1. pc[l] = "decide" /\ UNCHANGED <<connected, socket, mutex, tcp>>
      BY <1>3 DEF LoopDecide, base
    <2>2. status' \in {status, "Disconnected", "Error"}
      BY <1>3 DEF LoopDecide
    <2>3. \A q \in Procs : ret'[q] \in Returns
      BY <1>3, <1>0 DEF LoopDecide, LinkParts, KindInv, Returns
    <2>4. \A c \in Conns : ret'[c] = ret[c]
      BY <1>3, <1>0 DEF LoopDecide, Procs
    <2>5. PICK x \in {"top", "giveup", "connect"} : Goto(l, x)
      BY <1>3 DEF LoopDecide
    <2> QED
      BY <1>0, <2>1, <2>2, <2>3, <2>4, <2>5, QuietStep DEF Points, Holding, ReaderPoints
  <1>4. CASE LoopRefresh(l)
    <2>1. pc[l] = "refresh" /\ UNCHANGED <<connected, socket, mutex, tcp>>
      BY <1>4 DEF LoopRefresh, base
    <2>2. status' \in {status, "Disconnected", "Error"}
      BY <1>4 DEF LoopRefresh
    <2>3. \A q \in Procs : ret'[q] \in Returns
      BY <1>4, <1>0 DEF LoopRefresh, LinkParts, KindInv, Returns
    <2>4. \A c \in Conns : ret'[c] = ret[c]
      BY <1>4, <1>0 DEF LoopRefresh, Procs
    <2>5. PICK x \in {"top"} : Goto(l, x)
      BY <1>4 DEF LoopRefresh
    <2> QED
      BY <1>0, <2>1, <2>2, <2>3, <2>4, <2>5, QuietStep DEF Points, Holding, ReaderPoints
  <1>5. CASE LoopGivesUp(l)
    <2>1. pc[l] = "giveup" /\ UNCHANGED <<connected, socket, mutex, tcp>>
      BY <1>5 DEF LoopGivesUp, base
    <2>2. status' \in {status, "Disconnected", "Error"}
      BY <1>5 DEF LoopGivesUp
    <2>3. \A q \in Procs : ret'[q] \in Returns
      BY <1>5, <1>0 DEF LoopGivesUp, LinkParts, KindInv, Returns
    <2>4. \A c \in Conns : ret'[c] = ret[c]
      BY <1>5, <1>0 DEF LoopGivesUp, Procs
    <2>5. PICK x \in {"report"} : Goto(l, x)
      BY <1>5 DEF LoopGivesUp
    <2> QED
      BY <1>0, <2>1, <2>2, <2>3, <2>4, <2>5, QuietStep DEF Points, Holding, ReaderPoints
  <1>6. CASE LoopReports(l)
    <2>1. pc[l] = "report" /\ UNCHANGED <<connected, socket, mutex, tcp>>
      BY <1>6 DEF LoopReports, base
    <2>2. status' \in {status, "Disconnected", "Error"}
      BY <1>6 DEF LoopReports
    <2>3. \A q \in Procs : ret'[q] \in Returns
      BY <1>6, <1>0 DEF LoopReports, LinkParts, KindInv, Returns
    <2>4. \A c \in Conns : ret'[c] = ret[c]
      BY <1>6, <1>0 DEF LoopReports, Procs
    <2>5. PICK x \in {"top"} : Goto(l, x)
      BY <1>6 DEF LoopReports
    <2> QED
      BY <1>0, <2>1, <2>2, <2>3, <2>4, <2>5, QuietStep DEF Points, Holding, ReaderPoints
  <1> QED
    BY <1>1, <1>2, <1>3, <1>4, <1>5, <1>6

\* A reader ends only over a nil Socket or after its Disconnect.
LEMMA ReaderQuiet ==
  ASSUME IInv, NEW r \in Conns, ReaderBegins(r) \/ ReaderChecks(r) \/ ReaderReads(r) \/ ReadReturns(r) \/ ReadFails(r)
  PROVE  LinkParts'
  <1> USE SimBaseAssumption DEF IInv, TypeOK
  <1>0. r \in Procs /\ r \in Conns
    BY DEF Procs
  <1>1. CASE ReaderBegins(r)
    <2>1. pc[r] = "begin" /\ UNCHANGED <<connected, socket, mutex, tcp>>
      BY <1>1 DEF ReaderBegins, base
    <2>2. status' \in {status, "Disconnected", "Error"}
      BY <1>1 DEF ReaderBegins
    <2>3. \A q \in Procs : ret'[q] \in Returns
      BY <1>1, <1>0 DEF ReaderBegins, LinkParts, KindInv, Returns
    <2>4. \A c \in Conns : ret'[c] = ret[c]
      BY <1>1, <1>0 DEF ReaderBegins, Procs
    <2>5. PICK x \in {"idle", "check"} : Goto(r, x) /\ (x = "idle" => socket # r)
      BY <1>1 DEF ReaderBegins
    <2> QED
      BY <1>0, <2>1, <2>2, <2>3, <2>4, <2>5, QuietStep DEF Points, Holding, ReaderPoints
  <1>2. CASE ReaderChecks(r)
    <2>1. pc[r] = "check" /\ UNCHANGED <<connected, socket, mutex, tcp>>
      BY <1>2 DEF ReaderChecks, base
    <2>2. status' \in {status, "Disconnected", "Error"}
      BY <1>2 DEF ReaderChecks
    <2>3. \A q \in Procs : ret'[q] \in Returns
      BY <1>2, <1>0 DEF ReaderChecks, LinkParts, KindInv, Returns
    <2>4. \A c \in Conns : ret'[c] = ret[c]
      BY <1>2, <1>0 DEF ReaderChecks, Procs
    <2>5. PICK x \in {"read", "disconnect"} : Goto(r, x)
      BY <1>2 DEF ReaderChecks
    <2> QED
      BY <1>0, <2>1, <2>2, <2>3, <2>4, <2>5, QuietStep DEF Points, Holding, ReaderPoints
  <1>3. CASE ReaderReads(r)
    <2>1. pc[r] = "read" /\ UNCHANGED <<connected, socket, mutex, tcp>>
      BY <1>3 DEF ReaderReads, base
    <2>2. status' \in {status, "Disconnected", "Error"}
      BY <1>3 DEF ReaderReads
    <2>3. \A q \in Procs : ret'[q] \in Returns
      BY <1>3, <1>0 DEF ReaderReads, LinkParts, KindInv, Returns
    <2>4. \A c \in Conns : ret'[c] = ret[c]
      BY <1>3, <1>0 DEF ReaderReads, Procs
    <2>5. PICK x \in {"panicked", "reading"} : Goto(r, x)
      BY <1>3 DEF ReaderReads
    <2> QED
      BY <1>0, <2>1, <2>2, <2>3, <2>4, <2>5, QuietStep DEF Points, Holding, ReaderPoints
  <1>4. CASE ReadReturns(r)
    <2>1. pc[r] = "reading" /\ UNCHANGED <<connected, socket, mutex, tcp>>
      BY <1>4 DEF ReadReturns, base
    <2>2. status' \in {status, "Disconnected", "Error"}
      BY <1>4 DEF ReadReturns
    <2>3. \A q \in Procs : ret'[q] \in Returns
      BY <1>4, <1>0 DEF ReadReturns, LinkParts, KindInv, Returns
    <2>4. \A c \in Conns : ret'[c] = ret[c]
      BY <1>4, <1>0 DEF ReadReturns, Procs
    <2>5. PICK x \in {"check"} : Goto(r, x)
      BY <1>4 DEF ReadReturns
    <2> QED
      BY <1>0, <2>1, <2>2, <2>3, <2>4, <2>5, QuietStep DEF Points, Holding, ReaderPoints
  <1>5. CASE ReadFails(r)
    <2>1. pc[r] = "reading" /\ UNCHANGED <<connected, socket, mutex, tcp>>
      BY <1>5 DEF ReadFails, base
    <2>2. status' \in {status, "Disconnected", "Error"}
      BY <1>5 DEF ReadFails
    <2>3. \A q \in Procs : ret'[q] \in Returns
      BY <1>5, <1>0 DEF ReadFails, LinkParts, KindInv, Returns
    <2>4. \A c \in Conns : ret'[c] = ret[c]
      BY <1>5, <1>0 DEF ReadFails, Procs
    <2>5. PICK x \in {"disconnect"} : Goto(r, x)
      BY <1>5 DEF ReadFails
    <2> QED
      BY <1>0, <2>1, <2>2, <2>3, <2>4, <2>5, QuietStep DEF Points, Holding, ReaderPoints
  <1> QED
    BY <1>1, <1>2, <1>3, <1>4, <1>5

LEMMA SenderQuiet ==
  ASSUME IInv, NEW s \in Senders, SendEnter(s) \/ SendPaced(s) \/ SendWrites(s) \/ SendReturns(s) \/ SendUnlocks(s)
  PROVE  LinkParts'
  <1> USE SimBaseAssumption DEF IInv, TypeOK
  <1>0. s \in Procs /\ s \notin Conns
    BY DEF Procs
  <1>1. CASE SendEnter(s)
    <2>1. pc[s] = "idle" /\ UNCHANGED <<connected, socket, mutex, tcp>>
      BY <1>1 DEF SendEnter, base
    <2>2. status' \in {status, "Disconnected", "Error"}
      BY <1>1 DEF SendEnter
    <2>3. \A q \in Procs : ret'[q] \in Returns
      BY <1>1, <1>0 DEF SendEnter, LinkParts, KindInv, Returns
    <2>4. \A c \in Conns : ret'[c] = ret[c]
      BY <1>1, <1>0 DEF SendEnter, Procs
    <2>5. PICK x \in {"write", "pace"} : Goto(s, x)
      BY <1>1 DEF SendEnter
    <2> QED
      BY <1>0, <2>1, <2>2, <2>3, <2>4, <2>5, QuietStep DEF Points, Holding, ReaderPoints
  <1>2. CASE SendPaced(s)
    <2>1. pc[s] = "pace" /\ UNCHANGED <<connected, socket, mutex, tcp>>
      BY <1>2 DEF SendPaced, base
    <2>2. status' \in {status, "Disconnected", "Error"}
      BY <1>2 DEF SendPaced
    <2>3. \A q \in Procs : ret'[q] \in Returns
      BY <1>2, <1>0 DEF SendPaced, LinkParts, KindInv, Returns
    <2>4. \A c \in Conns : ret'[c] = ret[c]
      BY <1>2, <1>0 DEF SendPaced, Procs
    <2>5. PICK x \in {"idle", "write"} : Goto(s, x)
      BY <1>2 DEF SendPaced
    <2> QED
      BY <1>0, <2>1, <2>2, <2>3, <2>4, <2>5, QuietStep DEF Points, Holding, ReaderPoints
  <1>3. CASE SendWrites(s)
    <2>1. pc[s] = "write" /\ UNCHANGED <<connected, socket, mutex, tcp>>
      BY <1>3 DEF SendWrites, base
    <2>2. status' \in {status, "Disconnected", "Error"}
      BY <1>3 DEF SendWrites
    <2>3. \A q \in Procs : ret'[q] \in Returns
      BY <1>3, <1>0 DEF SendWrites, LinkParts, KindInv, Returns
    <2>4. \A c \in Conns : ret'[c] = ret[c]
      BY <1>3, <1>0 DEF SendWrites, Procs
    <2>5. PICK x \in {"idle", "writing"} : Goto(s, x)
      BY <1>3 DEF SendWrites
    <2> QED
      BY <1>0, <2>1, <2>2, <2>3, <2>4, <2>5, QuietStep DEF Points, Holding, ReaderPoints
  <1>4. CASE SendReturns(s)
    <2>1. pc[s] = "writing" /\ UNCHANGED <<connected, socket, mutex, tcp>>
      BY <1>4 DEF SendReturns, base
    <2>2. status' \in {status, "Disconnected", "Error"}
      BY <1>4 DEF SendReturns
    <2>3. \A q \in Procs : ret'[q] \in Returns
      BY <1>4, <1>0 DEF SendReturns, LinkParts, KindInv, Returns
    <2>4. \A c \in Conns : ret'[c] = ret[c]
      BY <1>4, <1>0 DEF SendReturns, Procs
    <2>5. PICK x \in {"idle", "disconnect"} : Goto(s, x)
      BY <1>4 DEF SendReturns
    <2> QED
      BY <1>0, <2>1, <2>2, <2>3, <2>4, <2>5, QuietStep DEF Points, Holding, ReaderPoints
  <1>5. CASE SendUnlocks(s)
    <2>1. pc[s] = "unlock" /\ UNCHANGED <<connected, socket, mutex, tcp>>
      BY <1>5 DEF SendUnlocks, base
    <2>2. status' \in {status, "Disconnected", "Error"}
      BY <1>5 DEF SendUnlocks
    <2>3. \A q \in Procs : ret'[q] \in Returns
      BY <1>5, <1>0 DEF SendUnlocks, LinkParts, KindInv, Returns
    <2>4. \A c \in Conns : ret'[c] = ret[c]
      BY <1>5, <1>0 DEF SendUnlocks, Procs
    <2>5. PICK x \in {"idle"} : Goto(s, x)
      BY <1>5 DEF SendUnlocks
    <2> QED
      BY <1>0, <2>1, <2>2, <2>3, <2>4, <2>5, QuietStep DEF Points, Holding, ReaderPoints
  <1> QED
    BY <1>1, <1>2, <1>3, <1>4, <1>5

LEMMA BeginConnectQuiet ==
  ASSUME IInv, NEW u \in Callers, NEW e \in Endpoints, BeginConnect(u, e)
  PROVE  LinkParts'
  <1> USE SimBaseAssumption DEF IInv, TypeOK
  <1>1. /\ pc[u] = "idle" /\ Goto(u, "enable")
        /\ UNCHANGED <<connected, socket, mutex, tcp, status, ret>>
    BY DEF BeginConnect
  <1>2. u \in Procs /\ u \notin Conns
    BY DEF Procs
  <1>3. \A q \in Procs : ret'[q] \in Returns
    BY <1>1 DEF LinkParts, KindInv
  <1> QED
    BY <1>1, <1>2, <1>3, QuietStep DEF Points, Holding

\* Every step keeps the invariant.
LEMMA InvStep ==
  ASSUME IInv, [Next]_vars
  PROVE  IInv'
  <1>1. TypeOK'
    BY TypeStep DEF IInv
  <1>2. ASSUME NEW p \in Procs, ConnectStep(p) PROVE LinkParts'
    BY <1>2, ConnectEnterStep, DialFailsStep, DialSucceedsStep, ConnectSettlesStep DEF ConnectStep
  <1>3. ASSUME NEW p \in Procs, DisconnectStep(p) PROVE LinkParts'
    BY <1>3, DisconnectEnterStep, DisconnectClearStep, DisconnectFinishStep DEF DisconnectStep
  <1>4. ASSUME NEW u \in Callers, EndConnect(u) \/ Stop(u) \/ CallerStep(u) PROVE LinkParts'
    BY <1>4, CallerQuiet, StartStep DEF CallerStep
  <1>5. ASSUME NEW l \in Loops, LoopStep(l) PROVE LinkParts'
    BY <1>5, LoopQuiet DEF LoopStep
  <1>6. ASSUME NEW c \in Conns, ReaderStep(c) PROVE LinkParts'
    BY <1>6, ReaderQuiet DEF ReaderStep
  <1>7. ASSUME NEW s \in Senders, SendEnter(s) \/ SenderStep(s) PROVE LinkParts'
    BY <1>7, SenderQuiet DEF SenderStep
  <1>8. LinkParts'
    BY <1>2, <1>3, <1>4, <1>5, <1>6, <1>7, BeginConnectQuiet, EnvironmentStep DEF Next, Step
  <1> QED
    BY <1>1, <1>8 DEF IInv

LEMMA Invariant == Spec => []IInv
  BY InvInit, InvStep, PTL DEF Spec

\* Between Connects and Disconnects, Connected and Socket agree and the kernel
\* holds no other socket, whatever the callers, readers and senders do.
THEOREM NoLeak == Spec => []NoSocketLeak
  <1>1. IInv => NoSocketLeak
    BY DEF IInv, LinkParts, LinkInv, NoSocketLeak
  <1> QED
    BY <1>1, Invariant, PTL

\* A standing connection always has a reader that has not ended.
THEOREM Watched == Spec => []LinkIsWatched
  <1>1. IInv => LinkIsWatched
    BY DEF IInv, LinkParts, WatchInv, LinkIsWatched
  <1> QED
    BY <1>1, Invariant, PTL

\* "Connected" is never reported over a dead leg.
THEOREM StatusIsHonest == Spec => []NoFalseConnected
  <1>1. IInv => NoFalseConnected
    BY DEF IInv, LinkParts, StatusInv, NoFalseConnected
  <1> QED
    BY <1>1, Invariant, PTL

-----------------------------------------------------------------------------
(* What the goroutines owe outside ConnectMutex: a sender that has begun has *)
(* sendMutex, and writes after the gap; and a leg that is running has a      *)
(* reconnect goroutine, which ends only when it is not.                      *)

SendersHold == \A s \in Senders : (pc[s] # "idle" => sendMutex = s) /\ (pc[s] = "write" => gap)
LoopsReturn == \A l \in Loops : ret[l] = "refresh"
LoopRuns == running => \E l \in Loops : pc[l] # "idle"
DutyInv == SendersHold /\ LoopsReturn /\ LoopRuns

\* What the two action properties need of a step: who goes on to write, and
\* whose wait is over.
Orderly ==
  /\ \A s \in Senders : pc[s] = "write" /\ pc'[s] = "writing" => gap /\ sendMutex = s
  /\ \A u \in Callers : pc[u] = "wait" /\ pc'[u] = "idle" => WgIsZero

LEMMA DutyInit == Init => DutyInv
  BY SimBaseAssumption DEF Init, DutyInv, SendersHold, LoopsReturn, LoopRuns, Home, Procs

\* A step inside Connect or Disconnect, which may also start a reader.
LEMMA LockDuty ==
  ASSUME IInv, DutyInv, NEW p \in Procs, ConnectStep(p) \/ DisconnectStep(p)
  PROVE  DutyInv' /\ Orderly
  <1> USE SimBaseAssumption DEF IInv, TypeOK
  <1>1. UNCHANGED <<sendMutex, gap, ret, running>>
    BY DEF ConnectStep, DisconnectStep, ConnectEnter, DialFails, DialSucceeds, ConnectSettles,
           DisconnectEnter, DisconnectClear, DisconnectFinish, base, clocks
  <1>2. pc[p] \in {"connect", "dial", "settle", "disconnect", "clear", "finish"}
    BY DEF ConnectStep, DisconnectStep, ConnectEnter, DialFails, DialSucceeds, ConnectSettles,
           DisconnectEnter, DisconnectClear, DisconnectFinish
  <1>3. pc'[p] \in {"dial", "settle", "clear", "finish", "begin", ret[p]}
    BY DEF ConnectStep, DisconnectStep, ConnectEnter, DialFails, DialSucceeds, ConnectSettles,
           DisconnectEnter, DisconnectClear, DisconnectFinish, Goto
  <1>4. \A q \in Procs : q # p /\ q \notin Conns => pc'[q] = pc[q]
    BY DEF ConnectStep, DisconnectStep, ConnectEnter, DialFails, DialSucceeds, ConnectSettles,
           DisconnectEnter, DisconnectClear, DisconnectFinish, Goto
  <1>5. ret[p] \in Returns
    BY DEF LinkParts, KindInv
  <1>6. SendersHold'
    BY <1>1, <1>2, <1>3, <1>4, <1>5 DEF DutyInv, SendersHold, Procs, Returns
  <1>7. LoopsReturn' /\ LoopRuns'
    BY <1>1, <1>2, <1>3, <1>4 DEF DutyInv, LoopsReturn, LoopRuns, Procs
  <1>8. Orderly
    BY <1>2, <1>4 DEF Orderly, Procs
  <1> QED
    BY <1>6, <1>7, <1>8 DEF DutyInv

LEMMA CallerDuty ==
  ASSUME IInv, DutyInv, NEW u \in Callers,
         (\E e \in Endpoints : BeginConnect(u, e)) \/ EndConnect(u) \/ Stop(u) \/ CallerStep(u)
  PROVE  DutyInv' /\ Orderly
  <1> USE SimBaseAssumption DEF IInv, TypeOK
  <1>1. UNCHANGED <<sendMutex, gap>>
    BY DEF BeginConnect, EndConnect, Stop, CallerStep, EnableAutoReconnect, Start,
           EndConnectReturns, StopReturns, clocks
  <1>2. \A s \in Senders : pc'[s] = pc[s]
    BY DEF BeginConnect, EndConnect, Stop, CallerStep, EnableAutoReconnect, Start,
           EndConnectReturns, StopReturns, Goto, Procs
  <1>3. SendersHold'
    BY <1>1, <1>2 DEF DutyInv, SendersHold
  <1>4. LoopsReturn'
    BY DEF BeginConnect, EndConnect, Stop, CallerStep, EnableAutoReconnect, Start,
           EndConnectReturns, StopReturns, DutyInv, LoopsReturn, Procs
  <1>5. LoopRuns'
    <2>1. CASE Start(u)
      BY <2>1 DEF Start, Goto, DutyInv, LoopRuns, Procs
    <2>2. CASE ~Start(u)
      <3>1. running' => running
        BY <2>2 DEF BeginConnect, EndConnect, Stop, CallerStep, EnableAutoReconnect,
                    EndConnectReturns, StopReturns, base
      <3>2. \A l \in Loops : pc'[l] = pc[l]
        BY <2>2 DEF BeginConnect, EndConnect, Stop, CallerStep, EnableAutoReconnect,
                    EndConnectReturns, StopReturns, Goto, Procs
      <3> QED
        BY <3>1, <3>2 DEF DutyInv, LoopRuns
    <2> QED
      BY <2>1, <2>2
  <1>6. ASSUME NEW v \in Callers, pc[v] = "wait", pc'[v] = "idle" PROVE WgIsZero
    <2>1. StopReturns(u)
      BY <1>6 DEF BeginConnect, EndConnect, Stop, CallerStep, EnableAutoReconnect, Start,
                  EndConnectReturns, Goto, Procs
    <2> QED
      BY <2>1 DEF StopReturns
  <1> QED
    BY <1>2, <1>3, <1>4, <1>5, <1>6 DEF DutyInv, Orderly

LEMMA LoopDuty ==
  ASSUME IInv, DutyInv, NEW l \in Loops, LoopStep(l)
  PROVE  DutyInv' /\ Orderly
  <1> USE SimBaseAssumption DEF IInv, TypeOK
  <1>1. UNCHANGED <<sendMutex, gap, ret, running>>
    BY DEF LoopStep, LoopTop, LoopSnapshot, LoopDecide, LoopRefresh, LoopGivesUp, LoopReports,
           base, clocks
  <1>2. \A q \in Procs : q # l => pc'[q] = pc[q]
    BY DEF LoopStep, LoopTop, LoopSnapshot, LoopDecide, LoopRefresh, LoopGivesUp, LoopReports, Goto
  <1>3. running => pc'[l] # "idle"
    BY DEF LoopStep, LoopTop, LoopSnapshot, LoopDecide, LoopRefresh, LoopGivesUp, LoopReports,
           Goto, Procs
  <1>4. LoopsReturn' /\ LoopRuns'
    BY <1>1, <1>3 DEF DutyInv, LoopsReturn, LoopRuns
  <1>5. SendersHold' /\ Orderly
    BY <1>1, <1>2 DEF DutyInv, SendersHold, Orderly, Procs
  <1> QED
    BY <1>4, <1>5 DEF DutyInv

LEMMA ReaderDuty ==
  ASSUME IInv, DutyInv, NEW c \in Conns, ReaderStep(c)
  PROVE  DutyInv' /\ Orderly
  <1> USE SimBaseAssumption DEF IInv, TypeOK
  <1>1. UNCHANGED <<sendMutex, gap, ret, running>>
    BY DEF ReaderStep, ReaderBegins, ReaderChecks, ReaderReads, ReadReturns, ReadFails, base, clocks
  <1>2. \A q \in Procs : q # c => pc'[q] = pc[q]
    BY DEF ReaderStep, ReaderBegins, ReaderChecks, ReaderReads, ReadReturns, ReadFails, Goto
  <1> QED
    BY <1>1, <1>2 DEF DutyInv, SendersHold, LoopsReturn, LoopRuns, Orderly, Procs

\* Only the goroutine that has sendMutex can be about to write, so the gap that
\* a write closes is its own.
LEMMA SenderDuty ==
  ASSUME IInv, DutyInv, NEW s \in Senders, SendEnter(s) \/ SenderStep(s)
  PROVE  DutyInv' /\ Orderly
  <1> USE SimBaseAssumption DEF IInv, TypeOK
  <1>1. UNCHANGED <<ret, running>>
    BY DEF SendEnter, SenderStep, SendPaced, SendWrites, SendReturns, SendUnlocks, base
  <1>2. \A q \in Procs : q # s => pc'[q] = pc[q]
    BY DEF SendEnter, SenderStep, SendPaced, SendWrites, SendReturns, SendUnlocks, Goto
  <1>3. LoopsReturn' /\ LoopRuns'
    BY <1>1, <1>2 DEF DutyInv, LoopsReturn, LoopRuns, Procs
  <1>4. \A t \in Senders : t # s => pc[t] = "idle"
    <2>1. sendMutex = NoProc \/ sendMutex = s
      <3>1. CASE SendEnter(s)
        BY <3>1 DEF SendEnter
      <3>2. CASE SenderStep(s)
        <4>1. pc[s] # "idle"
          BY <3>2 DEF SenderStep, SendPaced, SendWrites, SendReturns, SendUnlocks
        <4> QED
          BY <4>1 DEF DutyInv, SendersHold
      <3> QED
        BY <3>1, <3>2
    <2>2. NoProc \notin Senders
      BY DEF Procs
    <2> QED
      BY <2>1, <2>2 DEF DutyInv, SendersHold
  <1>5. pc'[s] # "idle" => sendMutex' = s
    BY DEF DutyInv, SendersHold, SendEnter, SenderStep, SendPaced, SendWrites, SendReturns,
           SendUnlocks, Goto, Procs
  <1>6. pc'[s] = "write" => gap'
    BY DEF SendEnter, SenderStep, SendPaced, SendWrites, SendReturns, SendUnlocks, Goto, Procs, clocks
  <1>7. SendersHold'
    BY <1>2, <1>4, <1>5, <1>6 DEF SendersHold, Procs
  <1>8. Orderly
    BY <1>2 DEF Orderly, DutyInv, SendersHold, Procs
  <1> QED
    BY <1>3, <1>7, <1>8 DEF DutyInv

LEMMA DutyStep ==
  ASSUME IInv, DutyInv, [Next]_vars
  PROVE  DutyInv' /\ Orderly
  <1>1. CASE UNCHANGED vars
    BY <1>1 DEF vars, base, clocks, DutyInv, SendersHold, LoopsReturn, LoopRuns, Orderly
  <1>2. CASE \E c \in Conns : PeerCloses(c)
    BY <1>2 DEF PeerCloses, base, clocks, DutyInv, SendersHold, LoopsReturn, LoopRuns, Orderly
  <1>3. CASE BackoffElapses \/ GapElapses \/ LongWait
    BY <1>3 DEF BackoffElapses, GapElapses, LongWait, base,
                DutyInv, SendersHold, LoopsReturn, LoopRuns, Orderly
  <1> QED
    BY <1>1, <1>2, <1>3, LockDuty, CallerDuty, LoopDuty, ReaderDuty, SenderDuty DEF Next, Step

\* Writes are serialised and minSendGap apart, for any number of senders, of
\* which each may fail and go through its Disconnect before it unlocks.
THEOREM Paced == Spec => PacedWrites
  <1>1. IInv /\ DutyInv /\ [Next]_vars => DutyInv'
    BY DutyStep
  <1>2. IInv /\ DutyInv /\ [Next]_vars =>
          [\A s \in Senders : pc[s] = "write" /\ pc'[s] = "writing"
             => /\ gap
                /\ \A t \in Senders : pc[t] # "writing"]_vars
    <2> SUFFICES ASSUME IInv, DutyInv, [Next]_vars, NEW s \in Senders,
                        pc[s] = "write", pc'[s] = "writing"
                 PROVE  gap /\ \A t \in Senders : pc[t] # "writing"
      OBVIOUS
    <2>1. gap /\ sendMutex = s
      BY DutyStep DEF Orderly
    <2> QED
      BY <2>1 DEF DutyInv, SendersHold
  <1> QED
    BY DutyInit, Invariant, <1>1, <1>2, PTL DEF Spec, PacedWrites

\* When a Stop returns, the leg is parked, for any number of callers: no loop runs, no
\* reader and therefore no socket is left, and Running can only have been
\* set again together with a new loop, for which Stop waits.
THEOREM StopIsFinal == Spec => StopParks
  <1>1. IInv /\ DutyInv /\ [Next]_vars => DutyInv'
    BY DutyStep
  <1>2. IInv /\ DutyInv /\ [Next]_vars =>
          [\A u \in Callers : pc[u] = "wait" /\ pc'[u] = "idle"
             => /\ ~running
                /\ Unlocked => ~connected
                /\ \A c \in Conns : tcp[c] = "closed"
                /\ \A l \in Loops : pc[l] = "idle"]_vars
    <2> SUFFICES ASSUME IInv, DutyInv, [Next]_vars, NEW u \in Callers,
                        pc[u] = "wait", pc'[u] = "idle"
                 PROVE  /\ ~running
                        /\ Unlocked => ~connected
                        /\ \A c \in Conns : tcp[c] = "closed"
                        /\ \A l \in Loops : pc[l] = "idle"
      OBVIOUS
    <2>1. WgIsZero
      BY DutyStep DEF Orderly
    <2>2. ~running /\ \A l \in Loops : pc[l] = "idle"
      BY <2>1 DEF WgIsZero, DutyInv, LoopRuns
    <2>3. socket = NoConn
      BY <2>1 DEF WgIsZero, IInv, TypeOK, LinkParts, WatchInv
    <2>4. (Unlocked => ~connected) /\ \A c \in Conns : tcp[c] = "closed"
      BY <2>3, SimBaseAssumption DEF IInv, LinkParts, LinkInv
    <2> QED
      BY <2>2, <2>4
  <1> QED
    BY DutyInit, Invariant, <1>1, <1>2, PTL DEF Spec, StopParks

-----------------------------------------------------------------------------
(* SimLink.                                                                  *)

\* A write that is under way was started on a connection.
WritesSomewhere == \A s \in Senders : pc[s] = "writing" => using[s] \in Conns

\* Connected says no less than Socket: no step finds a socket that SendMessage's test
\* would refuse.
LEMMA SocketIsConnected ==
  ASSUME IInv
  PROVE  /\ NotConnected <=> socket = NoConn
         /\ \A c \in Conns : tcp[c] # "closed" => c = socket
         /\ Opening => socket # NoConn /\ \A p \in Procs : pc[p] \notin {"dial", "clear", "finish"}
  <1> USE SimBaseAssumption DEF IInv, TypeOK, LinkParts
  <1>1. socket # NoConn => connected
    <2>1. CASE Unlocked
      BY <2>1 DEF LinkInv
    <2>2. CASE ~Unlocked
      <3>1. mutex \in Procs /\ pc[mutex] \in Holding
        BY <2>2 DEF Unlocked, MutexInv
      <3> QED
        BY <3>1 DEF LinkInv, Holding
    <2> QED
      BY <2>1, <2>2
  <1>2. Opening => socket # NoConn /\ \A p \in Procs : pc[p] \notin {"dial", "clear", "finish"}
    BY DEF Opening, LinkInv, MutexInv, Holding
  <1> QED
    BY <1>1, <1>2 DEF NotConnected, LinkInv

LEMMA LinkInit == Init => Link!Init /\ WritesSomewhere
  BY SimBaseAssumption
     DEF Init, Link!Init, calls, writesOn, Opening, Sending, WritesSomewhere, Procs

\* What is not a sender's step leaves the messages under way alone.
LEMMA SendersStay ==
  ASSUME WritesSomewhere, \A s \in Senders : Sending(pc'[s]) = Sending(pc[s]) /\ using'[s] = using[s],
         \A s \in Senders : pc'[s] = "writing" => pc[s] = "writing"
  PROVE  UNCHANGED <<calls, writesOn>> /\ WritesSomewhere'
  BY DEF calls, writesOn, WritesSomewhere

\* Connect: the dial is Connect, the end of the settling time Opens, the rest nothing.
LEMMA ConnectKeepsLink ==
  ASSUME IInv, WritesSomewhere, NEW p \in Procs, ConnectStep(p)
  PROVE  [Link!Next]_<<socket, Opening, calls, writesOn>> /\ WritesSomewhere'
  <1> USE SimBaseAssumption DEF IInv, TypeOK
  <1>1. ret[p] \in Returns
    BY DEF LinkParts, KindInv
  <1>2. using' = using
    BY DEF ConnectStep, ConnectEnter, DialFails, DialSucceeds, ConnectSettles
  <1>3. \A s \in Senders : pc'[s] # pc[s] => s = p
    BY DEF ConnectStep, ConnectEnter, DialFails, DialSucceeds, ConnectSettles, Goto, Procs
  <1>4. pc[p] \in {"connect", "dial", "settle"}
    BY DEF ConnectStep, ConnectEnter, DialFails, DialSucceeds, ConnectSettles
  <1>5. pc'[p] \in {"dial", "settle"} \cup Returns
    BY <1>1 DEF ConnectStep, ConnectEnter, DialFails, DialSucceeds, ConnectSettles, Goto
  <1>6. UNCHANGED <<calls, writesOn>> /\ WritesSomewhere'
    <2>1. \A s \in Senders : Sending(pc'[s]) = Sending(pc[s])
      BY <1>3, <1>4, <1>5 DEF Sending, Returns
    <2>2. \A s \in Senders : pc'[s] = "writing" => pc[s] = "writing"
      BY <1>3, <1>5 DEF Returns
    <2> QED
      BY <1>2, <2>1, <2>2, SendersStay
  <1>7. CASE ConnectEnter(p) \/ DialFails(p)
    <2>1. socket' = socket
      BY <1>7, SocketIsConnected DEF ConnectEnter, DialFails, NotConnected
    <2>2. \A q \in Procs : pc'[q] = "settle" <=> pc[q] = "settle"
      BY <1>1, <1>7 DEF ConnectEnter, DialFails, Goto, Returns
    <2>3. Opening' <=> Opening
      BY <2>2 DEF Opening
    <2> QED
      BY <1>6, <2>1, <2>3
  <1>8. ASSUME NEW c \in Conns, DialSucceeds(p, c)
        PROVE  Link!Connect(c)
    <2>1. socket = NoConn /\ ~Opening
      BY <1>8, SocketIsConnected DEF DialSucceeds, LinkParts, LinkInv
    <2>2. socket' = c /\ Opening'
      BY <1>8 DEF DialSucceeds, Opening, Procs
    <2> QED
      BY <1>6, <2>1, <2>2 DEF Link!Connect
  <1>9. CASE ConnectSettles(p)
    <2>1. Opening /\ socket' = socket
      BY <1>9 DEF ConnectSettles, Opening, base
    <2>2. ~Opening'
      BY <1>9, <1>1 DEF ConnectSettles, Opening, Goto, LinkParts, MutexInv, Holding, Returns
    <2>3. Link!Opens
      BY <1>6, <2>1, <2>2 DEF Link!Opens
    <2> QED
      BY <1>6, <2>3 DEF Link!Next
  <1> QED
    BY <1>6, <1>7, <1>8, <1>9 DEF ConnectStep, Link!Next

\* Disconnect: a sender's is the end of its failure, another's is Drops; nothing
\* happens before the socket is cleared.
LEMMA DisconnectKeepsLink ==
  ASSUME IInv, WritesSomewhere, NEW p \in Procs, DisconnectStep(p)
  PROVE  [Link!Next]_<<socket, Opening, calls, writesOn>> /\ WritesSomewhere'
  <1> USE SimBaseAssumption DEF IInv, TypeOK
  <1>1. ret[p] \in Returns
    BY DEF LinkParts, KindInv
  <1>2. using' = using /\ writesOn' = writesOn
    BY DEF DisconnectStep, DisconnectEnter, DisconnectClear, DisconnectFinish, writesOn
  <1>3. \A q \in Procs : q # p => pc'[q] = pc[q]
    BY DEF DisconnectStep, DisconnectEnter, DisconnectClear, DisconnectFinish, Goto
  <1>4. pc[p] \in {"disconnect", "clear", "finish"} /\ pc'[p] \in {"clear", "finish"} \cup Returns
    BY <1>1 DEF DisconnectStep, DisconnectEnter, DisconnectClear, DisconnectFinish, Goto
  <1>5. Opening' <=> Opening
    BY <1>3, <1>4 DEF Opening, Returns
  <1>6. WritesSomewhere'
    BY <1>2, <1>3, <1>4 DEF WritesSomewhere, Returns, Procs
  <1>7. Sending(pc'[p]) = Sending(pc[p]) => calls' = calls
    BY <1>3 DEF calls, Procs
  <1>8. p \notin Senders => calls' = calls
    BY <1>3 DEF calls, Procs
  <1>9. ASSUME p \in Senders, pc[p] \in {"disconnect", "clear"}, Sending(pc'[p]) = "idle",
               ~Opening, socket' = NoConn
        PROVE  Link!FailureEnds(p)
    <2>1. calls[p] = "failing" /\ calls' = [calls EXCEPT ![p] = "idle"]
      BY <1>3, <1>9 DEF calls, Sending, Procs
    <2> QED
      BY <1>2, <1>5, <1>9, <2>1 DEF Link!FailureEnds, Link!Becomes
  <1>10. CASE DisconnectEnter(p) /\ NotConnected
    <2>1. socket = NoConn /\ socket' = NoConn /\ ~Opening
      BY <1>10, SocketIsConnected DEF DisconnectEnter
    <2>2. pc[p] = "disconnect" /\ Sending(pc'[p]) = "idle"
      BY <1>1, <1>10 DEF DisconnectEnter, Goto, Sending, Returns
    <2> QED
      BY <1>2, <1>5, <1>6, <1>8, <1>9, <2>1, <2>2 DEF Link!Next
  <1>11. CASE DisconnectEnter(p) /\ ~NotConnected
    <2>1. socket' = socket
      BY <1>11 DEF DisconnectEnter
    <2>2. Sending(pc'[p]) = Sending(pc[p])
      BY <1>11 DEF DisconnectEnter, Goto, Sending
    <2> QED
      BY <1>2, <1>5, <1>6, <1>7, <2>1, <2>2
  <1>12. CASE DisconnectClear(p)
    <2>1. socket # NoConn /\ socket' = NoConn /\ ~Opening
      BY <1>12, SocketIsConnected DEF DisconnectClear, LinkParts, LinkInv
    <2>2. pc[p] = "clear" /\ Sending(pc'[p]) = "idle"
      BY <1>12 DEF DisconnectClear, Goto, Sending
    <2> QED
      BY <1>2, <1>5, <1>6, <1>8, <1>9, <2>1, <2>2 DEF Link!Next, Link!Drops
  <1>13. CASE DisconnectFinish(p)
    <2>1. socket' = socket
      BY <1>13 DEF DisconnectFinish
    <2>2. Sending(pc'[p]) = Sending(pc[p])
      BY <1>1, <1>13 DEF DisconnectFinish, Goto, Sending, Returns
    <2> QED
      BY <1>2, <1>5, <1>6, <1>7, <2>1, <2>2
  <1> QED
    BY <1>10, <1>11, <1>12, <1>13 DEF DisconnectStep

\* The sender's own steps.
LEMMA SenderKeepsLink ==
  ASSUME IInv, WritesSomewhere, NEW s \in Senders, SendEnter(s) \/ SenderStep(s)
  PROVE  [Link!Next]_<<socket, Opening, calls, writesOn>> /\ WritesSomewhere'
  <1> USE SimBaseAssumption DEF IInv, TypeOK
  <1>1. socket' = socket
    BY DEF SendEnter, SenderStep, SendPaced, SendWrites, SendReturns, SendUnlocks, base
  <1>2. \A q \in Procs : q # s => pc'[q] = pc[q]
    BY DEF SendEnter, SenderStep, SendPaced, SendWrites, SendReturns, SendUnlocks, Goto
  <1>3. pc[s] \in {"idle", "pace", "write", "writing", "unlock"}
        /\ pc'[s] \in {"idle", "pace", "write", "writing", "disconnect"}
    BY DEF SendEnter, SenderStep, SendPaced, SendWrites, SendReturns, SendUnlocks, Goto, Procs
  <1>4. Opening' <=> Opening
    BY <1>2, <1>3 DEF Opening, Procs
  <1>5. calls' = [calls EXCEPT ![s] = Sending(pc'[s])]
    BY <1>2 DEF calls, Procs
  <1>6. calls[s] = Sending(pc[s]) /\ writesOn[s] = using[s]
    BY DEF calls, writesOn
  <1>7. CASE SendEnter(s)
    <2>1. Sending(pc[s]) = "idle" /\ Sending(pc'[s]) = "called" /\ pc'[s] # "writing"
      BY <1>7 DEF SendEnter, Goto, Sending, Procs
    <2>2. using' = using /\ writesOn' = writesOn
      BY <1>7 DEF SendEnter, writesOn
    <2>3. WritesSomewhere'
      BY <1>2, <2>1, <2>2 DEF WritesSomewhere, Procs
    <2>4. Link!SendMessage(s)
      BY <1>1, <1>4, <1>5, <1>6, <2>1, <2>2 DEF Link!SendMessage, Link!Becomes
    <2> QED
      BY <2>3, <2>4 DEF Link!Next
  <1>8. CASE SendPaced(s) \/ SendUnlocks(s)
    <2>1. using' = using /\ writesOn' = writesOn
      BY <1>8 DEF SendPaced, SendUnlocks, writesOn
    <2>2. pc'[s] \in {"idle", "write"}
      BY <1>8 DEF SendPaced, SendUnlocks, Goto, Procs
    <2>3. WritesSomewhere'
      BY <1>2, <2>1, <2>2 DEF WritesSomewhere, Procs
    <2>4. CASE Sending(pc'[s]) = Sending(pc[s])
      BY <1>1, <1>4, <1>5, <1>6, <2>1, <2>3, <2>4 DEF calls
    <2>5. CASE Sending(pc'[s]) # Sending(pc[s])
      <3>1. socket = NoConn /\ Sending(pc[s]) = "called" /\ Sending(pc'[s]) = "idle"
        BY <1>8, <2>5, SocketIsConnected DEF SendPaced, SendUnlocks, Goto, Sending, Procs
      <3>2. Link!Refuses(s)
        BY <1>1, <1>4, <1>5, <1>6, <2>1, <3>1 DEF Link!Refuses, Link!Becomes
      <3> QED
        BY <2>3, <3>2 DEF Link!Next
    <2> QED
      BY <2>4, <2>5
  <1>9. CASE SendWrites(s)
    <2>1. Sending(pc[s]) = "called"
      BY <1>9 DEF SendWrites, Sending
    <2>2. CASE socket # NoConn
      <3>1. pc'[s] = "writing" /\ using' = [using EXCEPT ![s] = socket]
        BY <1>9, <2>2 DEF SendWrites, Goto, Procs
      <3>2. writesOn' = [writesOn EXCEPT ![s] = socket]
        BY <3>1 DEF writesOn
      <3>3. WritesSomewhere'
        BY <1>2, <2>2, <3>1 DEF WritesSomewhere, Procs
      <3>4. Link!Writes(s)
        BY <1>1, <1>4, <1>5, <1>6, <2>1, <2>2, <3>1, <3>2 DEF Link!Writes, Link!Becomes, Sending
      <3> QED
        BY <3>3, <3>4 DEF Link!Next
    <2>3. CASE socket = NoConn
      <3>1. pc'[s] = "idle" /\ using' = using /\ writesOn' = writesOn
        BY <1>9, <2>3 DEF SendWrites, Goto, Procs, writesOn
      <3>2. WritesSomewhere'
        BY <1>2, <3>1 DEF WritesSomewhere, Procs
      <3>3. Link!Refuses(s)
        BY <1>1, <1>4, <1>5, <1>6, <2>1, <2>3, <3>1 DEF Link!Refuses, Link!Becomes, Sending
      <3> QED
        BY <3>2, <3>3 DEF Link!Next
    <2> QED
      BY <2>2, <2>3
  <1>10. CASE SendReturns(s)
    <2>1. Sending(pc[s]) = "writing" /\ using[s] \in Conns
      BY <1>10 DEF SendReturns, Sending, WritesSomewhere
    <2>2. using' = [using EXCEPT ![s] = NoConn]
      BY <1>10 DEF SendReturns
    <2>3. writesOn' = [writesOn EXCEPT ![s] = NoConn]
      BY <2>2 DEF writesOn
    <2>4. pc'[s] \in {"idle", "disconnect"}
      BY <1>10 DEF SendReturns, Goto, Procs
    <2>5. WritesSomewhere'
      BY <1>2, <2>2, <2>4 DEF WritesSomewhere, Procs
    <2>6. CASE pc'[s] = "idle"
      <3>1. tcp[using[s]] # "closed"
        BY <1>10, <2>6 DEF SendReturns, Goto, Procs
      <3>2. using[s] = socket
        BY <2>1, <3>1, SocketIsConnected
      <3>3. Link!Delivers(s)
        BY <1>1, <1>4, <1>5, <1>6, <2>1, <2>3, <2>6, <3>2 DEF Link!Delivers, Link!Becomes, Sending
      <3> QED
        BY <2>5, <3>3 DEF Link!Next
    <2>7. CASE pc'[s] = "disconnect"
      <3>1. Link!WriteFails(s)
        BY <1>1, <1>4, <1>5, <1>6, <2>1, <2>3, <2>7 DEF Link!WriteFails, Link!Becomes, Sending
      <3> QED
        BY <2>5, <3>1 DEF Link!Next
    <2> QED
      BY <2>4, <2>6, <2>7
  <1> QED
    BY <1>7, <1>8, <1>9, <1>10 DEF SenderStep

\* Callers, reconnect goroutines and readers reach the connection by Connect and
\* Disconnect only.
LEMMA OthersKeepLink ==
  ASSUME IInv, WritesSomewhere, [Next]_vars,
         ~ \E p \in Procs : ConnectStep(p) \/ DisconnectStep(p),
         ~ \E s \in Senders : SendEnter(s) \/ SenderStep(s)
  PROVE  UNCHANGED <<socket, Opening, calls, writesOn>> /\ WritesSomewhere'
  <1> USE SimBaseAssumption DEF IInv, TypeOK
  <1> DEFINE Stays == /\ socket' = socket
                      /\ \A s \in Senders : pc'[s] = pc[s] /\ using'[s] = using[s]
                      /\ \A q \in Procs : pc'[q] = "settle" <=> pc[q] = "settle"
  <1>1. ASSUME NEW u \in Callers,
               (\E e \in Endpoints : BeginConnect(u, e)) \/ EndConnect(u) \/ Stop(u) \/ CallerStep(u)
        PROVE  Stays
    BY <1>1 DEF BeginConnect, EndConnect, Stop, CallerStep, EnableAutoReconnect, Start,
                EndConnectReturns, StopReturns, Goto, Procs, base
  <1>2. ASSUME NEW l \in Loops, LoopStep(l) PROVE Stays
    BY <1>2 DEF LoopStep, LoopTop, LoopSnapshot, LoopDecide, LoopRefresh, LoopGivesUp, LoopReports,
                Goto, Procs, base
  <1>3. ASSUME NEW c \in Conns, ReaderStep(c) PROVE Stays
    BY <1>3 DEF ReaderStep, ReaderBegins, ReaderChecks, ReaderReads, ReadReturns, ReadFails,
                Goto, Procs, base
  <1>4. ASSUME UNCHANGED vars \/ BackoffElapses \/ GapElapses \/ LongWait
               \/ \E c \in Conns : PeerCloses(c)
        PROVE  Stays
    BY <1>4 DEF vars, base, BackoffElapses, GapElapses, LongWait, PeerCloses
  <1>5. Stays
    BY <1>1, <1>2, <1>3, <1>4 DEF Next, Step
  <1>6. Opening' <=> Opening
    BY <1>5 DEF Opening
  <1>7. UNCHANGED <<calls, writesOn>> /\ WritesSomewhere'
    BY <1>5, SendersStay
  <1> QED
    BY <1>5, <1>6, <1>7

\* simulator.Base implements SimLink, for any number of callers, reconnect goroutines,
\* readers and senders: the connection is never ended under OnConnected, and no message
\* is delivered but on the present connection, though SendMessage does not lock it.
THEOREM KeepsLink == Spec => LinkSpec
  <1>1. IInv /\ WritesSomewhere /\ [Next]_vars => WritesSomewhere'
    BY ConnectKeepsLink, DisconnectKeepsLink, SenderKeepsLink, OthersKeepLink
  <1>2. IInv /\ WritesSomewhere /\ [Next]_vars => [Link!Next]_<<socket, Opening, calls, writesOn>>
    BY ConnectKeepsLink, DisconnectKeepsLink, SenderKeepsLink, OthersKeepLink
  <1> QED
    BY LinkInit, Invariant, <1>1, <1>2, PTL DEF Spec, LinkSpec, Link!Spec
=============================================================================
