------------------------------- MODULE Observers -------------------------------
(***************************************************************************)
(* The state store with the observers that show it: on the desktop the web *)
(* server's hub, on Android the engine.  No program has both, so platform  *)
(* is chosen once.                                                         *)
(***************************************************************************)
EXTENDS WebHub, EngineDispatch

VARIABLE platform   \* "desktop" or "android"

vars == <<storeVars, hubVars, engineVars, platform>>

TypeOK ==
  /\ store \in [Fields -> Versions] /\ stores \in Versions
  /\ setter \in [Setters -> {"idle", "notify"}]
  /\ arg \in [Setters -> Fields \X Versions]
  /\ HubTypeOK
  /\ EngineTypeOK

Init ==
  /\ platform \in {"desktop", "android"}
  /\ StoreInit /\ HubInit /\ EngineInit

Next ==
  /\ UNCHANGED platform
  /\ \/ platform = "desktop" /\ HubNext /\ UNCHANGED engineVars
     \/ platform = "android" /\ EngineNext /\ UNCHANGED hubVars

Spec == Init /\ [][Next]_vars

\* The goroutines run on: the hub's loop, and that of a client that reads from
\* it (and ends when the read fails).
FairSpec ==
  /\ Spec
  /\ WF_vars(HubStep /\ UNCHANGED <<engineVars, platform>>)
  /\ \A c \in Conns : WF_vars(ClientLeaves(c) /\ UNCHANGED <<engineVars, platform>>)

SettersIdle == \A s \in Setters : setter[s] = "idle"

\* Once the setters' callbacks have ended and the broadcasts are handed out,
\* every client that has its initial status was told the newest value of
\* every field, unless a message to it was dropped; not necessarily last, for
\* a snapshot can be queued after a newer one.
FinalValueReachesClients ==
  SettersIdle /\ broadcast = << >> /\ message = NoMessage =>
    \A c \in Conns \ missed : handler[c] = "read" => told[c] = store

\* Once the callbacks and the Starts have ended and the queue is empty, the
\* listener of the last Start was told the newest value of both statuses,
\* unless an event was dropped while it was installed; not necessarily last,
\* for Start can offer a status that it read before a newer one was offered.
FinalValueReachesListener ==
  /\ SettersIdle /\ dispatchCh = << >> /\ item = NoEvent
  /\ engine /\ (\A k \in Starters : start[k] \in {"new", "done"})
  /\ ~lost
  => heard = store

\* However many Starts race, the engine is built and its callbacks are
\* registered once: no event reaches the listener, and no shot GSPro, twice.
BuiltOnce == observers <= 1

\* The broadcaster comes to the end of its queue, whatever the clients do:
\* one that reads no more cannot hold up the others.
BroadcastDrains == broadcast /= << >> ~> broadcast = << >>

\* A client that can no longer be written to is forgotten, although its peer
\* may never close the connection.
DeadClientsLeave ==
  \A c \in Conns : handler[c] = "read" /\ writer[c] = "gone" ~> handler[c] = "gone"
=============================================================================
