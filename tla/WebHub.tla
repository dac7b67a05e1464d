-------------------------------- MODULE WebHub --------------------------------
(***************************************************************************)
(* The desktop program's web server as an observer of the state store      *)
(* (internal/web/server.go, integrations.go): a callback takes a snapshot  *)
(* of the state, getter by getter, and offers it to the broadcast queue;   *)
(* handleMessages hands each message to the buffers of the clients, and    *)
(* each client has a goroutine that writes to its connection.              *)
(*                                                                         *)
(* A member of Conns is one WebSocket connection; told is the newest value *)
(* of each field among the messages put into its buffer, and missed says   *)
(* that one of them was dropped for want of room while it was registered.  *)
(* Abstracted: the HTTP handlers, which are callers of the setters.        *)
(***************************************************************************)
EXTENDS StateStore, Sequences, SequencesExt, FiniteSetsExt

CONSTANTS
  Conns,
  QueueDepth, \* 100 in the code
  SendDepth,  \* 100 in the code
  NoMessage

ASSUME HubAssumption ==
  /\ QueueDepth \in Nat /\ SendDepth \in Nat
  /\ NoMessage \notin [Fields -> Nat] /\ NoMessage # {}

VARIABLES
  snapshot,   \* what each setter's callback has read so far
  broadcast,  \* the queue of messages
  message,    \* the message handleMessages has taken
  clients,    \* the registered connections
  targets,    \* the ones it has still to hand the message to, or NoMessage
  handler,    \* where each connection's handleWebSocket is
  initial,    \* what its sendInitialStatus has read so far
  send,       \* its buffer
  writer,     \* its writing goroutine: "none", "run" or "gone"
  open,       \* the connections that neither side has closed
  told, missed

hubQueueVars == <<broadcast, message, targets>>
connVars == <<handler, initial, writer, open>>
bufferVars == <<send, told, missed>>
hubVars == <<snapshot, hubQueueVars, clients, connVars, bufferVars>>

Snapshots == [Fields -> Versions]
Partial == UNION {[1 .. n -> Versions] : n \in 0 .. NFields}

HubTypeOK ==
  /\ snapshot \in [Setters -> Partial]
  /\ broadcast \in Seq(Snapshots) /\ Len(broadcast) <= QueueDepth
  /\ message \in Snapshots \cup {NoMessage}
  /\ targets \in (SUBSET Conns) \cup {NoMessage}
  /\ clients \in SUBSET Conns
  /\ handler \in [Conns -> {"new", "initial", "read", "gone"}]
  /\ initial \in [Conns -> Partial]
  /\ send \in [Conns -> Seq(Snapshots)] /\ \A c \in Conns : Len(send[c]) <= SendDepth
  /\ writer \in [Conns -> {"none", "run", "gone"}]
  /\ open \in SUBSET Conns
  /\ told \in [Conns -> Snapshots]
  /\ missed \in SUBSET Conns

HubInit ==
  /\ snapshot = [s \in Setters |-> << >>]
  /\ broadcast = << >> /\ message = NoMessage /\ targets = NoMessage
  /\ clients = {}
  /\ handler = [c \in Conns |-> "new"]
  /\ initial = [c \in Conns |-> << >>]
  /\ send = [c \in Conns |-> << >>]
  /\ writer = [c \in Conns |-> "none"]
  /\ open = {}
  /\ told = [c \in Conns |-> [f \in Fields |-> 0]]
  /\ missed = {}

----------------------------------------------------------------------------
\* broadcastDeviceStatus, called by a setter

HubReads(s) ==
  /\ setter[s] = "notify"
  /\ Len(snapshot[s]) < NFields
  /\ snapshot' = [snapshot EXCEPT ![s] = Append(@, Get(Len(@) + 1))]
  /\ UNCHANGED <<storeVars, hubQueueVars, clients, connVars, bufferVars>>

HubOffers(s) ==
  /\ setter[s] = "notify"
  /\ Len(snapshot[s]) = NFields
  /\ IF Len(broadcast) < QueueDepth
     THEN broadcast' = Append(broadcast, snapshot[s]) /\ UNCHANGED missed
     ELSE missed' = missed \cup clients /\ UNCHANGED broadcast
  /\ snapshot' = [snapshot EXCEPT ![s] = << >>]
  /\ SetterIsDone(s)
  /\ UNCHANGED <<message, targets, clients, connVars, send, told>>

----------------------------------------------------------------------------
\* handleMessages

\* As if a burst were reduced to its last message.
HubTakesLast ==
  /\ message = NoMessage
  /\ broadcast /= << >>
  /\ message' = Last(broadcast)
  /\ broadcast' = << >>
  /\ UNCHANGED <<storeVars, snapshot, targets, clients, connVars, bufferVars>>

HubTakes ==
  /\ message = NoMessage
  /\ broadcast /= << >>
  /\ message' = Head(broadcast)
  /\ broadcast' = Tail(broadcast)
  /\ UNCHANGED <<storeVars, snapshot, targets, clients, connVars, bufferVars>>

HubLists ==
  /\ message /= NoMessage /\ targets = NoMessage
  /\ targets' = clients
  /\ UNCHANGED <<storeVars, snapshot, broadcast, message, clients, connVars, bufferVars>>

Buffer(c, m) ==
  /\ send' = [send EXCEPT ![c] = Append(@, m)]
  /\ told' = [told EXCEPT ![c] = [f \in Fields |-> Max({@[f], m[f]})]]

\* As if the send waited for room.
HubSendsWaiting(c) ==
  /\ targets /= NoMessage /\ c \in targets
  /\ targets' = targets \ {c}
  /\ \/ Len(send[c]) < SendDepth /\ Buffer(c, message) /\ UNCHANGED missed
     \/ handler[c] = "gone" /\ UNCHANGED bufferVars
  /\ UNCHANGED <<storeVars, snapshot, broadcast, message, clients, connVars>>

\* A closed done channel is one of the ready cases of the select.
HubSends(c) ==
  /\ targets /= NoMessage /\ c \in targets
  /\ targets' = targets \ {c}
  /\ \/ Len(send[c]) < SendDepth /\ Buffer(c, message) /\ UNCHANGED missed
     \/ handler[c] = "gone" /\ UNCHANGED bufferVars
     \/ Len(send[c]) = SendDepth /\ missed' = missed \cup {c} /\ UNCHANGED <<send, told>>
  /\ UNCHANGED <<storeVars, snapshot, broadcast, message, clients, connVars>>

HubIsDone ==
  /\ targets = {}
  /\ message' = NoMessage /\ targets' = NoMessage
  /\ UNCHANGED <<storeVars, snapshot, broadcast, clients, connVars, bufferVars>>

----------------------------------------------------------------------------
\* handleWebSocket

ClientConnects(c) ==
  /\ handler[c] = "new"
  /\ handler' = [handler EXCEPT ![c] = "initial"]
  /\ clients' = clients \cup {c}
  /\ writer' = [writer EXCEPT ![c] = "run"]
  /\ open' = open \cup {c}
  /\ UNCHANGED <<storeVars, snapshot, hubQueueVars, initial, bufferVars>>

InitialReads(c) ==
  /\ handler[c] = "initial"
  /\ Len(initial[c]) < NFields
  /\ initial' = [initial EXCEPT ![c] = Append(@, Get(Len(@) + 1))]
  /\ UNCHANGED <<storeVars, snapshot, hubQueueVars, clients, handler, writer, open, bufferVars>>

\* This send waits for room.  Only this goroutine closes done, later.
InitialSends(c) ==
  /\ handler[c] = "initial"
  /\ Len(initial[c]) = NFields
  /\ Len(send[c]) < SendDepth
  /\ Buffer(c, initial[c])
  /\ handler' = [handler EXCEPT ![c] = "read"]
  /\ initial' = [initial EXCEPT ![c] = << >>]
  /\ UNCHANGED <<storeVars, snapshot, hubQueueVars, clients, writer, open, missed>>

\* ReadMessage fails on a connection that is closed.
ClientLeaves(c) ==
  /\ handler[c] = "read"
  /\ c \notin open
  /\ handler' = [handler EXCEPT ![c] = "gone"]
  /\ clients' = clients \ {c}
  /\ UNCHANGED <<storeVars, snapshot, hubQueueVars, initial, writer, open, bufferVars>>

PeerCloses(c) ==
  /\ c \in open
  /\ open' = open \ {c}
  /\ UNCHANGED <<storeVars, snapshot, hubQueueVars, clients, handler, initial, writer, bufferVars>>

Writes(c) ==
  /\ writer[c] = "run" /\ send[c] /= << >>
  /\ c \in open
  /\ send' = [send EXCEPT ![c] = Tail(@)]
  /\ UNCHANGED <<storeVars, snapshot, hubQueueVars, clients, connVars, told, missed>>

\* As if the goroutine ended without closing the connection.
WriteFailsQuietly(c) ==
  /\ writer[c] = "run" /\ send[c] /= << >>
  /\ send' = [send EXCEPT ![c] = Tail(@)]
  /\ writer' = [writer EXCEPT ![c] = "gone"]
  /\ UNCHANGED <<storeVars, snapshot, hubQueueVars, clients, handler, initial, open, told, missed>>

\* The deadline passes, or the connection is closed.
WriteFails(c) ==
  /\ writer[c] = "run" /\ send[c] /= << >>
  /\ send' = [send EXCEPT ![c] = Tail(@)]
  /\ writer' = [writer EXCEPT ![c] = "gone"]
  /\ open' = open \ {c}
  /\ UNCHANGED <<storeVars, snapshot, hubQueueVars, clients, handler, initial, told, missed>>

WriterStops(c) ==
  /\ writer[c] = "run" /\ handler[c] = "gone"
  /\ writer' = [writer EXCEPT ![c] = "gone"]
  /\ UNCHANGED <<storeVars, snapshot, hubQueueVars, clients, handler, initial, open, bufferVars>>

----------------------------------------------------------------------------
HubStep == HubTakes \/ HubLists \/ (\E c \in Conns : HubSends(c)) \/ HubIsDone

HubNext ==
  \/ \E s \in Setters : (\E f \in Fields : Set(s, f)) /\ UNCHANGED hubVars
  \/ \E s \in Setters : HubReads(s) \/ HubOffers(s)
  \/ HubStep
  \/ \E c \in Conns :
       \/ ClientConnects(c) \/ InitialReads(c) \/ InitialSends(c) \/ ClientLeaves(c)
       \/ PeerCloses(c) \/ Writes(c) \/ WriteFails(c) \/ WriterStops(c)
=============================================================================
