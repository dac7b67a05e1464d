------------------------------ MODULE SimBase ------------------------------
(***************************************************************************)
(* The TCP client of the simulator plugins: simulator.Base                 *)
(* (internal/core/simulator/connection.go) as connectapi.Integration       *)
(* drives it (internal/plugins/connectapi/integration.go).                 *)
(*                                                                         *)
(* Every goroutine that touches a Base is a process with a program         *)
(* counter: the callers of BeginConnect, EndConnect and Stop, the          *)
(* reconnect goroutines that Start spawns, one reader per connection, and  *)
(* the goroutines inside SendMessage.  ConnectMutex and sendMutex are      *)
(* variables, because the code reads Running, Connected, Socket and Host   *)
(* outside ConnectMutex and those reads see the middle of another          *)
(* goroutine's Connect or Disconnect.                                      *)
(*                                                                         *)
(* Abstracted: message contents, error values, the port (an endpoint is a  *)
(* host and a port), and the clock.  Time shows in three facts only:       *)
(* whether the backoff since LastConnectAttempt has elapsed (due), whether *)
(* minSendGap since lastSendAt has (gap), and whether MaxReconnectTime     *)
(* since a reconnect goroutine's firstAttemptTime has (expired).           *)
(***************************************************************************)
EXTENDS Naturals

CONSTANTS
  Callers,            \* goroutines running BeginConnect, EndConnect or Stop
  Loops,              \* slots for connectionThread goroutines (bounds them)
  Conns,              \* slots for TCP connections and their readers (a slot is reused)
  Senders,            \* goroutines inside SendMessage
  Endpoints,          \* the servers a caller may ask for
  DefaultEndpoint,    \* the endpoint NewBase was given
  MaxFailedAttempts,  \* 20 in the code
  NoConn, NoProc

Procs == Callers \cup Loops \cup Conns \cup Senders

ASSUME SimBaseAssumption ==
  /\ Callers \cap (Loops \cup Conns \cup Senders) = {}
  /\ Loops \cap (Conns \cup Senders) = {}
  /\ Conns \cap Senders = {}
  /\ NoConn \notin Conns
  /\ NoProc \notin Procs
  /\ DefaultEndpoint \in Endpoints
  /\ MaxFailedAttempts \in Nat \ {0}

VARIABLES
  connected, socket, running, autoReconnect, host, attempts,  \* Base's fields
  due,        \* LastConnectAttempt is zero or backoff.Current() ago
  gap,        \* lastSendAt is at least minSendGap ago
  status,     \* the last ConnectionStatus given to Protocol.SetStatus
  mutex,      \* the holder of ConnectMutex, or NoProc
  sendMutex,  \* the holder of sendMutex, or NoProc
  tcp,        \* what the kernel knows of each connection
  using,      \* the connection a blocked Read or Write was started on
  pc, ret,    \* where each goroutine is, and where its Connect/Disconnect returns
  target,     \* the endpoint argument of a pending Connect
  seen,       \* the fields connectionThread copied under the lock
  expired     \* MaxReconnectTime has passed since firstAttemptTime

base == <<connected, socket, running, autoReconnect, host, attempts>>
clocks == <<due, gap, expired>>
vars == <<base, clocks, status, mutex, sendMutex, tcp, using, pc, ret, target, seen>>

Statuses == {"Disconnected", "Connecting", "Connected", "Error"}
TcpStates == {"closed", "open", "reset"}
Points == {"idle", "enable", "start", "ended", "wait",
           "connect", "dial", "settle", "disconnect", "clear", "finish",
           "top", "snap", "decide", "refresh", "giveup", "report",
           "begin", "check", "read", "reading",
           "pace", "write", "writing", "unlock", "panicked"}

TypeOK ==
  /\ connected \in BOOLEAN /\ running \in BOOLEAN /\ autoReconnect \in BOOLEAN
  /\ socket \in Conns \cup {NoConn}
  /\ host \in Endpoints
  /\ attempts \in Nat
  /\ due \in BOOLEAN /\ gap \in BOOLEAN
  /\ expired \in [Loops -> BOOLEAN]
  /\ status \in Statuses
  /\ mutex \in Procs \cup {NoProc}
  /\ sendMutex \in Senders \cup {NoProc}
  /\ tcp \in [Conns -> TcpStates]
  /\ using \in [Conns \cup Senders -> Conns \cup {NoConn}]
  /\ pc \in [Procs -> Points] /\ ret \in [Procs -> Points]
  /\ target \in [Procs -> Endpoints]
  /\ seen \in [Loops -> [connected: BOOLEAN, autoReconnect: BOOLEAN,
                         attempts: Nat, due: BOOLEAN]]

\* Where a Connect or Disconnect returns to; only a caller's varies.
Home(p) == IF p \in Loops THEN "refresh" ELSE IF p \in Senders THEN "unlock" ELSE "idle"
NothingSeen == [connected |-> FALSE, autoReconnect |-> FALSE, attempts |-> 0, due |-> FALSE]

Init ==
  /\ connected = FALSE /\ running = FALSE /\ autoReconnect = TRUE
  /\ socket = NoConn
  /\ host = DefaultEndpoint
  /\ attempts = 0
  /\ due = TRUE /\ gap = TRUE
  /\ expired = [l \in Loops |-> FALSE]
  /\ status = "Disconnected"
  /\ mutex = NoProc /\ sendMutex = NoProc
  /\ tcp = [c \in Conns |-> "closed"]
  /\ using = [p \in Conns \cup Senders |-> NoConn]
  /\ pc = [p \in Procs |-> "idle"] /\ ret = [p \in Procs |-> Home(p)]
  /\ target = [p \in Procs |-> DefaultEndpoint]
  /\ seen = [l \in Loops |-> NothingSeen]

Goto(p, l) == pc' = [pc EXCEPT ![p] = l]
Unlocked == mutex = NoProc
NotConnected == ~connected \/ socket = NoConn   \* the test of SendMessage and Disconnect

-----------------------------------------------------------------------------
(* Connect(host, port), run by a caller or a reconnect goroutine.          *)
(* ConnectMutex is held from the test of Connected to the return, across   *)
(* the dial (up to 5 s) and the 500 ms settling sleep.                     *)

ConnectEnter(p) ==
  /\ pc[p] = "connect"
  /\ Unlocked
  /\ \/ /\ connected
        /\ Goto(p, ret[p])
        /\ UNCHANGED <<socket, host, tcp, status, due, mutex>>
     \/ /\ ~connected
        /\ host' = target[p]
        /\ tcp' = [c \in Conns |-> IF c = socket THEN "closed" ELSE tcp[c]]
        /\ socket' = NoConn
        /\ status' = "Connecting"
        /\ due' = FALSE
        /\ mutex' = p
        /\ Goto(p, "dial")
  /\ target' = [target EXCEPT ![p] = DefaultEndpoint]   \* the argument is consumed
  /\ UNCHANGED <<connected, running, autoReconnect, attempts, gap, expired,
                 sendMutex, using, ret, seen>>

\* Mutant: a failed attempt is not counted.
DialFailsUncounted(p) ==
  /\ pc[p] = "dial"
  /\ attempts' = attempts
  /\ status' = "Error"
  /\ due' = FALSE
  /\ mutex' = NoProc
  /\ Goto(p, ret[p])
  /\ UNCHANGED <<connected, socket, running, autoReconnect, host, gap, expired,
                 sendMutex, tcp, using, ret, target, seen>>

\* A dial takes at most 5 s and backoff.Next() leaves at least 10 s.
DialFails(p) ==
  /\ pc[p] = "dial"
  /\ attempts' = attempts + 1
  /\ status' = "Error"
  /\ due' = FALSE
  /\ mutex' = NoProc
  /\ Goto(p, ret[p])
  /\ UNCHANGED <<connected, socket, running, autoReconnect, host, gap, expired,
                 sendMutex, tcp, using, ret, target, seen>>

FreeConn(c) ==
  /\ tcp[c] = "closed" /\ pc[c] = "idle" /\ socket # c
  /\ \A q \in Conns \cup Senders : using[q] # c

\* The connection slots bound how many sockets exist at a time, not how many
\* connections are ever made.
DialSucceeds(p, c) ==
  /\ pc[p] = "dial"
  /\ FreeConn(c)
  /\ tcp' = [tcp EXCEPT ![c] = "open"]
  /\ socket' = c
  /\ connected' = TRUE
  /\ attempts' = 0
  /\ pc' = [pc EXCEPT ![p] = "settle", ![c] = "begin"]
  /\ UNCHANGED <<running, autoReconnect, host, clocks, status, mutex,
                 sendMutex, using, ret, target, seen>>

ConnectSettles(p) ==
  /\ pc[p] = "settle"
  /\ status' = "Connected"
  /\ mutex' = NoProc
  /\ Goto(p, ret[p])
  /\ UNCHANGED <<base, clocks, sendMutex, tcp, using, ret, target, seen>>

-----------------------------------------------------------------------------
(* Disconnect(), run by a caller, a reader that ends, or a failed sender.  *)

\* Mutant: the field is cleared but the socket is never closed.
DisconnectEnterKeepsSocketOpen(p) ==
  /\ pc[p] = "disconnect"
  /\ Unlocked
  /\ \/ /\ NotConnected
        /\ connected' = FALSE
        /\ status' = "Disconnected"
        /\ Goto(p, ret[p])
        /\ UNCHANGED <<tcp, mutex>>
     \/ /\ ~NotConnected
        /\ tcp' = tcp
        /\ mutex' = p
        /\ Goto(p, "clear")
        /\ UNCHANGED <<connected, status>>
  /\ UNCHANGED <<socket, running, autoReconnect, host, attempts, clocks,
                 sendMutex, using, ret, target, seen>>

\* Mutant: Disconnect does not wait for ConnectMutex.
DisconnectEnterUnlocked(p) ==
  /\ pc[p] = "disconnect"
  /\ \/ /\ NotConnected
        /\ connected' = FALSE
        /\ status' = "Disconnected"
        /\ Goto(p, ret[p])
        /\ UNCHANGED <<tcp, mutex>>
     \/ /\ ~NotConnected
        /\ tcp' = [tcp EXCEPT ![socket] = "closed"]
        /\ mutex' = p
        /\ Goto(p, "clear")
        /\ UNCHANGED <<connected, status>>
  /\ UNCHANGED <<socket, running, autoReconnect, host, attempts, clocks,
                 sendMutex, using, ret, target, seen>>

DisconnectEnter(p) ==
  /\ pc[p] = "disconnect"
  /\ Unlocked
  /\ \/ /\ NotConnected
        /\ connected' = FALSE
        /\ status' = "Disconnected"
        /\ Goto(p, ret[p])
        /\ UNCHANGED <<tcp, mutex>>
     \/ /\ ~NotConnected
        /\ tcp' = [tcp EXCEPT ![socket] = "closed"]
        /\ mutex' = p
        /\ Goto(p, "clear")
        /\ UNCHANGED <<connected, status>>
  /\ UNCHANGED <<socket, running, autoReconnect, host, attempts, clocks,
                 sendMutex, using, ret, target, seen>>

DisconnectClear(p) ==
  /\ pc[p] = "clear"
  /\ socket' = NoConn
  /\ Goto(p, "finish")
  /\ UNCHANGED <<connected, running, autoReconnect, host, attempts, clocks, status,
                 mutex, sendMutex, tcp, using, ret, target, seen>>

\* Mutant: the status is not reported.
DisconnectFinishSilent(p) ==
  /\ pc[p] = "finish"
  /\ connected' = FALSE
  /\ status' = status
  /\ mutex' = NoProc
  /\ Goto(p, ret[p])
  /\ UNCHANGED <<socket, running, autoReconnect, host, attempts, clocks,
                 sendMutex, tcp, using, ret, target, seen>>

DisconnectFinish(p) ==
  /\ pc[p] = "finish"
  /\ connected' = FALSE
  /\ status' = "Disconnected"
  /\ mutex' = NoProc
  /\ Goto(p, ret[p])
  /\ UNCHANGED <<socket, running, autoReconnect, host, attempts, clocks,
                 sendMutex, tcp, using, ret, target, seen>>

-----------------------------------------------------------------------------
(* BeginConnect, EndConnect and Stop.  Each lock acquisition is a step.    *)

\* ResetReconnectionState: a zero LastConnectAttempt makes the loop due.
BeginConnect(u, e) ==
  /\ pc[u] = "idle"
  /\ Unlocked
  /\ attempts' = 0
  /\ due' = TRUE
  /\ target' = [target EXCEPT ![u] = e]
  /\ Goto(u, "enable")
  /\ UNCHANGED <<connected, socket, running, autoReconnect, host, gap, expired,
                 status, mutex, sendMutex, tcp, using, ret, seen>>

EnableAutoReconnect(u) ==
  /\ pc[u] = "enable"
  /\ Unlocked
  /\ autoReconnect' = TRUE
  /\ attempts' = 0
  /\ Goto(u, "start")
  /\ UNCHANGED <<connected, socket, running, host, clocks, status, mutex,
                 sendMutex, tcp, using, ret, target, seen>>

Start(u) ==
  /\ pc[u] = "start"
  /\ Unlocked
  /\ \/ /\ running
        /\ Goto(u, "connect")
        /\ UNCHANGED <<running, expired>>
     \/ /\ ~running
        /\ running' = TRUE
        /\ \E l \in Loops :
             /\ pc[l] = "idle"
             /\ pc' = [pc EXCEPT ![u] = "connect", ![l] = "top"]
             /\ expired' = [expired EXCEPT ![l] = FALSE]
  /\ UNCHANGED <<connected, socket, autoReconnect, host, attempts, due, gap, status,
                 mutex, sendMutex, tcp, using, ret, target, seen>>

EndConnect(u) ==
  /\ pc[u] = "idle"
  /\ Unlocked
  /\ autoReconnect' = FALSE
  /\ ret' = [ret EXCEPT ![u] = "ended"]
  /\ Goto(u, "disconnect")
  /\ UNCHANGED <<connected, socket, running, host, attempts, clocks, status, mutex,
                 sendMutex, tcp, using, target, seen>>

EndConnectReturns(u) ==
  /\ pc[u] = "ended"
  /\ ret' = [ret EXCEPT ![u] = Home(u)]
  /\ Goto(u, "idle")
  /\ UNCHANGED <<base, clocks, status, mutex, sendMutex, tcp, using, target, seen>>

Stop(u) ==
  /\ pc[u] = "idle"
  /\ Unlocked
  /\ running
  /\ running' = FALSE
  /\ ret' = [ret EXCEPT ![u] = "wait"]
  /\ Goto(u, "disconnect")
  /\ UNCHANGED <<connected, socket, autoReconnect, host, attempts, clocks, status,
                 mutex, sendMutex, tcp, using, target, seen>>

\* Mutant: Connect does not count the reader it spawns.
WgIsZeroLoopsOnly == \A l \in Loops : pc[l] = "idle"

\* Wg counts the reconnect goroutines and the readers.
WgIsZero == \A p \in Loops \cup Conns : pc[p] = "idle"

StopReturns(u) ==
  /\ pc[u] = "wait"
  /\ WgIsZero
  /\ ret' = [ret EXCEPT ![u] = Home(u)]
  /\ Goto(u, "idle")
  /\ UNCHANGED <<base, clocks, status, mutex, sendMutex, tcp, using, target, seen>>

-----------------------------------------------------------------------------
(* connectionThread: one iteration per second.                             *)

LoopTop(l) ==
  /\ pc[l] = "top"
  /\ Goto(l, IF running THEN "snap" ELSE "idle")
  /\ UNCHANGED <<base, clocks, status, mutex, sendMutex, tcp, using, ret, target,
                 seen>>

LoopSnapshot(l) ==
  /\ pc[l] = "snap"
  /\ Unlocked
  /\ seen' = [seen EXCEPT ![l] = [connected |-> connected, autoReconnect |-> autoReconnect,
                                  attempts |-> attempts, due |-> due]]
  /\ Goto(l, "decide")
  /\ UNCHANGED <<base, clocks, status, mutex, sendMutex, tcp, using, ret, target>>

Exhausted(l) == expired[l] \/ seen[l].attempts >= MaxFailedAttempts

\* The branch is taken on the copies; Host is read here, without the lock.
LoopDecide(l) ==
  /\ pc[l] = "decide"
  /\ \/ /\ seen[l].connected
        /\ expired' = [expired EXCEPT ![l] = FALSE]
        /\ Goto(l, "top")
        /\ UNCHANGED target
     \/ /\ ~seen[l].connected
        /\ \/ /\ ~seen[l].autoReconnect
              /\ Goto(l, "top")
              /\ UNCHANGED target
           \/ /\ seen[l].autoReconnect /\ Exhausted(l)
              /\ Goto(l, "giveup")
              /\ UNCHANGED target
           \/ /\ seen[l].autoReconnect /\ ~Exhausted(l) /\ ~seen[l].due
              /\ Goto(l, "top")
              /\ UNCHANGED target
           \/ /\ seen[l].autoReconnect /\ ~Exhausted(l) /\ seen[l].due
              /\ target' = [target EXCEPT ![l] = host]
              /\ Goto(l, "connect")
        /\ UNCHANGED expired
  /\ seen' = [seen EXCEPT ![l] = NothingSeen]
  /\ UNCHANGED <<base, due, gap, status, mutex, sendMutex, tcp, using, ret>>

LoopRefresh(l) ==
  /\ pc[l] = "refresh"
  /\ Unlocked
  /\ expired' = [expired EXCEPT ![l] = @ /\ ~connected]
  /\ Goto(l, "top")
  /\ UNCHANGED <<base, due, gap, status, mutex, sendMutex, tcp, using, ret, target,
                 seen>>

LoopGivesUp(l) ==
  /\ pc[l] = "giveup"
  /\ Unlocked
  /\ autoReconnect' = FALSE
  /\ Goto(l, "report")
  /\ UNCHANGED <<connected, socket, running, host, attempts, clocks, status, mutex,
                 sendMutex, tcp, using, ret, target, seen>>

\* SetError and SetStatus without the lock.
LoopReports(l) ==
  /\ pc[l] = "report"
  /\ status' = "Disconnected"
  /\ Goto(l, "top")
  /\ UNCHANGED <<base, clocks, mutex, sendMutex, tcp, using, ret, target, seen>>

-----------------------------------------------------------------------------
(* receiveMessages: the reader of connection c.  It never takes the lock   *)
(* before its final Disconnect, and it reads whatever Socket holds.        *)

ReaderBegins(c) ==
  /\ pc[c] = "begin"
  /\ Goto(c, IF socket = NoConn THEN "idle" ELSE "check")
  /\ UNCHANGED <<base, clocks, status, mutex, sendMutex, tcp, using, ret, target,
                 seen>>

\* Mutant: the reader does not look at Running.
ReaderChecksConnectedOnly(c) ==
  /\ pc[c] = "check"
  /\ Goto(c, IF connected THEN "read" ELSE "disconnect")
  /\ UNCHANGED <<base, clocks, status, mutex, sendMutex, tcp, using, ret, target, seen>>

ReaderChecks(c) ==
  /\ pc[c] = "check"
  /\ Goto(c, IF running /\ connected THEN "read" ELSE "disconnect")
  /\ UNCHANGED <<base, clocks, status, mutex, sendMutex, tcp, using, ret, target,
                 seen>>

\* A nil Socket is dereferenced and the program dies.
ReaderReads(c) ==
  /\ pc[c] = "read"
  /\ using' = [using EXCEPT ![c] = socket]
  /\ Goto(c, IF socket = NoConn THEN "panicked" ELSE "reading")
  /\ UNCHANGED <<base, clocks, status, mutex, sendMutex, tcp, ret, target, seen>>

\* The 10 s read deadline, or a message handed to ProcessMessage.
ReadReturns(c) ==
  /\ pc[c] = "reading"
  /\ tcp[using[c]] = "open"
  /\ using' = [using EXCEPT ![c] = NoConn]
  /\ Goto(c, "check")
  /\ UNCHANGED <<base, clocks, status, mutex, sendMutex, tcp, ret, target, seen>>

\* Mutant: a read error ends the reader without its Disconnect.
ReadFailsAndReturns(c) ==
  /\ pc[c] = "reading"
  /\ tcp[using[c]] # "open"
  /\ using' = [using EXCEPT ![c] = NoConn]
  /\ status' = "Error"
  /\ Goto(c, "idle")
  /\ UNCHANGED <<base, clocks, mutex, sendMutex, tcp, ret, target, seen>>

\* Mutant: every read error is taken for a timeout.
ReadFailsAndRetries(c) ==
  /\ pc[c] = "reading"
  /\ tcp[using[c]] # "open"
  /\ using' = [using EXCEPT ![c] = NoConn]
  /\ status' = status
  /\ Goto(c, "check")
  /\ UNCHANGED <<base, clocks, mutex, sendMutex, tcp, ret, target, seen>>

ReadFails(c) ==
  /\ pc[c] = "reading"
  /\ tcp[using[c]] # "open"
  /\ using' = [using EXCEPT ![c] = NoConn]
  /\ status' = "Error"
  /\ Goto(c, "disconnect")
  /\ UNCHANGED <<base, clocks, mutex, sendMutex, tcp, ret, target, seen>>

-----------------------------------------------------------------------------
(* SendMessage.  Connected and Socket are read without ConnectMutex.       *)

\* Mutant: writers are paced but not serialised.
SendEnterUnserialised(s) ==
  /\ pc[s] = "idle"
  /\ ~NotConnected
  /\ sendMutex' = s
  /\ Goto(s, IF gap THEN "write" ELSE "pace")
  /\ UNCHANGED <<base, clocks, status, mutex, tcp, using, ret, target, seen>>

SendEnter(s) ==
  /\ pc[s] = "idle"
  /\ sendMutex = NoProc
  /\ ~NotConnected
  /\ sendMutex' = s
  /\ Goto(s, IF gap THEN "write" ELSE "pace")
  /\ UNCHANGED <<base, clocks, status, mutex, tcp, using, ret, target, seen>>

SendPaced(s) ==
  /\ pc[s] = "pace"
  /\ gap
  /\ \/ /\ NotConnected
        /\ sendMutex' = NoProc
        /\ Goto(s, "idle")
     \/ /\ ~NotConnected
        /\ Goto(s, "write")
        /\ UNCHANGED sendMutex
  /\ UNCHANGED <<base, clocks, status, mutex, tcp, using, ret, target, seen>>

\* Socket is read once more, and may be nil by now.  The panic is recovered by
\* notifyCallbacks, which every sender runs under; the deferred Unlock still runs.
SendWrites(s) ==
  /\ pc[s] = "write"
  /\ \/ /\ socket # NoConn
        /\ using' = [using EXCEPT ![s] = socket]
        /\ Goto(s, "writing")
        /\ UNCHANGED sendMutex
     \/ /\ socket = NoConn
        /\ sendMutex' = NoProc
        /\ Goto(s, "idle")
        /\ UNCHANGED using
  /\ UNCHANGED <<base, clocks, status, mutex, tcp, ret, target, seen>>

\* A write on a connection the peer has dropped may still be accepted.
SendReturns(s) ==
  /\ pc[s] = "writing"
  /\ gap' = FALSE
  /\ using' = [using EXCEPT ![s] = NoConn]
  /\ \/ /\ tcp[using[s]] # "closed"
        /\ sendMutex' = NoProc
        /\ Goto(s, "idle")
     \/ /\ tcp[using[s]] # "open"
        /\ Goto(s, "disconnect")
        /\ UNCHANGED sendMutex
  /\ UNCHANGED <<base, due, expired, status, mutex, tcp, ret, target, seen>>

SendUnlocks(s) ==
  /\ pc[s] = "unlock"
  /\ sendMutex' = NoProc
  /\ Goto(s, "idle")
  /\ UNCHANGED <<base, clocks, status, mutex, tcp, using, ret, target, seen>>

-----------------------------------------------------------------------------
(* The environment.                                                        *)

PeerCloses(c) ==
  /\ tcp[c] = "open"
  /\ tcp' = [tcp EXCEPT ![c] = "reset"]
  /\ UNCHANGED <<base, clocks, status, mutex, sendMutex, using, pc, ret, target,
                 seen>>

BackoffElapses ==
  /\ ~due
  /\ due' = TRUE
  /\ UNCHANGED <<base, gap, expired, status, mutex, sendMutex, tcp, using, pc, ret,
                 target, seen>>

GapElapses ==
  /\ ~gap
  /\ gap' = TRUE
  /\ UNCHANGED <<base, due, expired, status, mutex, sendMutex, tcp, using, pc, ret,
                 target, seen>>

\* More than MaxReconnectTime passes without a connection: every operation
\* has long returned, the reconnect goroutines sleep between iterations.
LongWait ==
  /\ ~connected /\ Unlocked
  /\ \A p \in Procs : pc[p] \in {"idle", "top"}
  /\ expired' = [l \in Loops |-> pc[l] = "top"]
  /\ UNCHANGED <<base, due, gap, status, mutex, sendMutex, tcp, using, pc, ret,
                 target, seen>>

ConnectStep(p) == ConnectEnter(p) \/ DialFails(p) \/ ConnectSettles(p)
                  \/ \E c \in Conns : DialSucceeds(p, c)
DisconnectStep(p) == DisconnectEnter(p) \/ DisconnectClear(p) \/ DisconnectFinish(p)
CallerStep(u) ==
  EnableAutoReconnect(u) \/ Start(u) \/ EndConnectReturns(u) \/ StopReturns(u)
LoopStep(l) ==
  LoopTop(l) \/ LoopSnapshot(l) \/ LoopDecide(l) \/ LoopRefresh(l)
  \/ LoopGivesUp(l) \/ LoopReports(l)
ReaderStep(c) ==
  ReaderBegins(c) \/ ReaderChecks(c) \/ ReaderReads(c) \/ ReadReturns(c) \/ ReadFails(c)
SenderStep(s) == SendPaced(s) \/ SendWrites(s) \/ SendReturns(s) \/ SendUnlocks(s)

Step ==
  \/ \E p \in Procs : ConnectStep(p) \/ DisconnectStep(p)
  \/ \E u \in Callers :
       \/ \E e \in Endpoints : BeginConnect(u, e)
       \/ EndConnect(u) \/ Stop(u) \/ CallerStep(u)
  \/ \E l \in Loops : LoopStep(l)
  \/ \E c \in Conns : ReaderStep(c) \/ PeerCloses(c)
  \/ \E s \in Senders : SendEnter(s) \/ SenderStep(s)
  \/ BackoffElapses \/ GapElapses \/ LongWait

\* Nothing recovers a panic in a reader: it ends the program.
Alive == \A p \in Procs : pc[p] # "panicked"

Next ==
  \/ Alive /\ Step
  \/ ~Alive /\ UNCHANGED vars

Spec == Init /\ [][Next]_vars

\* A goroutine that can run does run; a sync.Mutex is starvation free, hence
\* strong fairness for the steps that wait for one.  Nothing is assumed of the
\* callers' requests, the peer, the senders' arrival or the outcome of a dial.
Fairness ==
  /\ \A p \in Procs : SF_vars(Alive /\ ConnectStep(p)) /\ SF_vars(Alive /\ DisconnectStep(p))
  /\ \A u \in Callers : SF_vars(Alive /\ CallerStep(u))
  /\ \A l \in Loops : SF_vars(Alive /\ LoopStep(l))
  /\ \A c \in Conns : WF_vars(Alive /\ ReaderStep(c))
  /\ \A s \in Senders : WF_vars(Alive /\ SenderStep(s))
  /\ WF_vars(Alive /\ BackoffElapses)
  /\ WF_vars(Alive /\ GapElapses)

FairSpec == Spec /\ Fairness

-----------------------------------------------------------------------------
(* What the client promises.                                               *)

\* Whenever no goroutine is inside Connect or Disconnect, Connected and Socket
\* agree, and the kernel holds no other socket: none is ever leaked.
NoSocketLeak ==
  Unlocked =>
    /\ connected <=> socket # NoConn
    /\ \A c \in Conns : tcp[c] # "closed" => c = socket

\* A connection that stands has a reader which has not ended, so its death will
\* be noticed: no order of disconnects, reconnects and stale readers strands it.
LinkIsWatched == connected /\ socket # NoConn => pc[socket] # "idle"

\* The status the plugin reports is "Connected" only over a standing connection.
NoFalseConnected == status = "Connected" /\ Unlocked => connected

\* Two writes to the simulator are never closer than minSendGap, whoever sends.
PacedWrites ==
  [][\A s \in Senders : pc[s] = "write" /\ pc'[s] = "writing"
        => /\ gap
           /\ \A t \in Senders : pc[t] # "writing"]_vars

\* When Stop returns the leg is parked, whatever the other callers do: no open
\* socket and no reconnect goroutine, and no connection unless a failed sender
\* is still on its way through the Disconnect that closed it.
StopParks ==
  [][\A u \in Callers : pc[u] = "wait" /\ pc'[u] = "idle"
        => /\ ~running
           /\ Unlocked => ~connected
           /\ \A c \in Conns : tcp[c] = "closed"
           /\ \A l \in Loops : pc[l] = "idle"]_vars

\* A goroutine's SendMessage, up to the moment its outcome is settled; what it does
\* to the connection after a failed write is part of it.
Sending(l) ==
  IF l \in {"pace", "write"} THEN "called"
  ELSE IF l = "writing" THEN "writing"
  ELSE IF l \in {"disconnect", "clear"} THEN "failing"
  ELSE "idle"

\* OnConnected of the present connection is still to come.
Opening == \E p \in Procs : pc[p] = "settle"

calls == [s \in Senders |-> Sending(pc[s])]
writesOn == [s \in Senders |-> using[s]]

Link == INSTANCE SimLink WITH line <- socket, opening <- Opening, call <- calls, on <- writesOn

\* The client keeps SimLink, though SendMessage tests and uses the connection without
\* ConnectMutex: no disconnect falls between the dial and OnConnected, and no message
\* is delivered on another connection than the present one.
LinkSpec == Link!Spec

\* A connection the peer dropped is given up.
DeadLinkNoticed ==
  \A c \in Conns : socket = c /\ tcp[c] = "reset" ~> socket # c \/ ~Alive

\* Stop returns.
StopTerminates == \A u \in Callers : pc[u] = "wait" ~> pc[u] = "idle" \/ ~Alive

\* Left alone, the engine either gets its connection back or gives up.
ReconnectsOrGivesUp ==
  <>[](\A u \in Callers : pc[u] = "idle") =>
    (running /\ autoReconnect /\ ~connected
       ~> connected \/ ~autoReconnect \/ ~running \/ ~Alive)
=============================================================================
