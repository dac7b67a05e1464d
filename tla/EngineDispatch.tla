---------------------------- MODULE EngineDispatch ----------------------------
(***************************************************************************)
(* The Android engine as an observer of the state store                    *)
(* (internal/transport/android/engine.go): its callbacks offer each status *)
(* to a queue that one goroutine hands to the listener.  Start builds the  *)
(* engine once; a later Start swaps the listener and reports the two       *)
(* statuses to it.                                                         *)
(*                                                                         *)
(* The fields are the connection status (1) and the integration status     *)
(* (2).  A member of Starters is one call of Start with a listener of its  *)
(* own; heard is the newest value of each field that the installed         *)
(* listener was called with, and lost says that an event was dropped since *)
(* it was installed.                                                       *)
(*                                                                         *)
(* Abstracted: Arm, Disarm, Stop with the signal it waits for, and the     *)
(* calls that only start a Bluetooth or a TCP operation; the shots and log *)
(* lines that share the queue (a queue of two is full often enough without *)
(* them).                                                                  *)
(***************************************************************************)
EXTENDS StateStore, Sequences, FiniteSetsExt

CONSTANTS
  Starters,
  DispatchDepth, \* 128 in the code
  NoEvent

ASSUME EngineAssumption ==
  /\ DispatchDepth \in Nat
  /\ NoEvent \notin Starters
  /\ NoEvent \notin (Fields \X Nat) \X (Starters \cup {NoEvent})

VARIABLES
  engineMu,   \* the Start that builds or attaches, or NoEvent
  engine,     \* the engine is built
  observers,  \* how often the callbacks are registered
  start,      \* where each Start is
  status,     \* the status it has read
  listener,   \* the listener events go to, or NoEvent
  dispatchCh, \* the queue
  item,       \* what runDispatch has taken, and the listener it loaded
  heard, lost

startVars == <<engineMu, engine, observers, start, status, listener>>
dispatchVars == <<dispatchCh, item, heard, lost>>
engineVars == <<startVars, dispatchVars>>

Events == Fields \X Versions

EngineTypeOK ==
  /\ engineMu \in Starters \cup {NoEvent}
  /\ engine \in BOOLEAN
  /\ observers \in Nat
  /\ start \in [Starters -> {"new", "reattach", "build", "fresh", "read", "emit", "done"}]
  /\ status \in [Starters -> Fields \X Versions]
  /\ listener \in Starters \cup {NoEvent}
  /\ dispatchCh \in Seq(Events) /\ Len(dispatchCh) <= DispatchDepth
  /\ item \in (Events \X (Starters \cup {NoEvent})) \cup {NoEvent}
  /\ heard \in [Fields -> Versions]
  /\ lost \in BOOLEAN

EngineInit ==
  /\ engineMu = NoEvent /\ engine = FALSE /\ observers = 0
  /\ start = [k \in Starters |-> "new"]
  /\ status = [k \in Starters |-> <<1, 0>>]
  /\ listener = NoEvent
  /\ dispatchCh = << >> /\ item = NoEvent
  /\ heard = [f \in Fields |-> 0]
  /\ lost = FALSE

----------------------------------------------------------------------------
\* offerDispatch never blocks: an event that finds the queue full is dropped.
Offer(e) ==
  IF Len(dispatchCh) < DispatchDepth
  THEN dispatchCh' = Append(dispatchCh, e) /\ UNCHANGED lost
  ELSE lost' = TRUE /\ UNCHANGED dispatchCh

\* The observers of the two statuses.
EngineObserves(s) ==
  /\ setter[s] = "notify"
  /\ Offer(arg[s])
  /\ SetterIsDone(s)
  /\ UNCHANGED <<startVars, item, heard>>

Dispatches ==
  /\ item = NoEvent /\ dispatchCh /= << >>
  /\ item' = <<Head(dispatchCh), NoEvent>>
  /\ dispatchCh' = Tail(dispatchCh)
  /\ UNCHANGED <<storeVars, startVars, heard, lost>>

LoadsListener ==
  /\ item /= NoEvent /\ item[2] = NoEvent
  /\ item' = <<item[1], listener>>
  /\ UNCHANGED <<storeVars, startVars, dispatchCh, heard, lost>>

\* A listener that returns an error or panics has been called.
ListenerReturns ==
  /\ item /= NoEvent /\ item[2] /= NoEvent
  /\ item' = NoEvent
  /\ heard' = IF item[2] /= listener THEN heard
              ELSE [heard EXCEPT ![item[1][1]] = Max({@, item[1][2]})]
  /\ UNCHANGED <<storeVars, startVars, dispatchCh, lost>>

----------------------------------------------------------------------------
\* Start

StartGoes(k, pc) == start' = [start EXCEPT ![k] = pc]

\* As if engine were tested before engineMu is taken.
AttachesUnlocked(k) ==
  /\ start[k] = "new"
  /\ StartGoes(k, IF engine THEN "reattach" ELSE "build")
  /\ engineMu' = k
  /\ UNCHANGED <<storeVars, engine, observers, status, listener, dispatchVars>>

Attaches(k) ==
  /\ start[k] = "new" /\ engineMu = NoEvent
  /\ engineMu' = k
  /\ StartGoes(k, IF engine THEN "reattach" ELSE "build")
  /\ UNCHANGED <<storeVars, engine, observers, status, listener, dispatchVars>>

SetListener(k) ==
  /\ listener' = k
  /\ heard' = [f \in Fields |-> 0]
  /\ lost' = FALSE
  /\ UNCHANGED <<dispatchCh, item>>

Builds(k) ==
  /\ start[k] = "build"
  /\ engine' = TRUE /\ observers' = observers + 1
  /\ SetListener(k)
  /\ engineMu' = NoEvent
  /\ StartGoes(k, "fresh")
  /\ UNCHANGED <<storeVars, status>>

Reattaches(k) ==
  /\ start[k] = "reattach"
  /\ SetListener(k)
  /\ engineMu' = NoEvent
  /\ StartGoes(k, "read")
  /\ UNCHANGED <<storeVars, engine, observers, status>>

\* status remembers the field that was last read.
ReadsStatus(k) ==
  /\ start[k] = "read"
  /\ status' = [status EXCEPT ![k] = <<@[1], Get(@[1])>>]
  /\ StartGoes(k, "emit")
  /\ UNCHANGED <<storeVars, engineMu, engine, observers, listener, dispatchVars>>

\* As if a later Start reported the connection status alone.
EmitsConnectionStatus(k) ==
  /\ start[k] \in {"fresh", "emit"}
  /\ Offer(status[k])
  /\ IF status[k][1] = 1
     THEN StartGoes(k, "done") /\ status' = [status EXCEPT ![k] = <<1, 0>>]
     ELSE /\ StartGoes(k, IF start[k] = "emit" THEN "read" ELSE "fresh")
          /\ status' = [status EXCEPT ![k] = <<@[1] + 1, 0>>]
  /\ UNCHANGED <<storeVars, engineMu, engine, observers, listener, item, heard>>

\* The fresh engine reports both as disconnected, unread.
EmitsStatus(k) ==
  /\ start[k] \in {"fresh", "emit"}
  /\ Offer(status[k])
  /\ IF status[k][1] = NFields
     THEN StartGoes(k, "done") /\ status' = [status EXCEPT ![k] = <<1, 0>>]
     ELSE /\ StartGoes(k, IF start[k] = "emit" THEN "read" ELSE "fresh")
          /\ status' = [status EXCEPT ![k] = <<@[1] + 1, 0>>]
  /\ UNCHANGED <<storeVars, engineMu, engine, observers, listener, item, heard>>

----------------------------------------------------------------------------
EngineNext ==
  \/ \E s \in Setters : engine /\ (\E f \in Fields : Set(s, f)) /\ UNCHANGED engineVars
  \/ \E s \in Setters : EngineObserves(s)
  \/ Dispatches \/ LoadsListener \/ ListenerReturns
  \/ \E k \in Starters :
       Attaches(k) \/ Builds(k) \/ Reattaches(k) \/ ReadsStatus(k) \/ EmitsStatus(k)
=============================================================================
