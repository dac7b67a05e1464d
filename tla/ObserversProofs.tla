---------------------------- MODULE ObserversProofs ----------------------------
(***************************************************************************)
(* For any setters, fields, clients, Starts and depths of the queues: the  *)
(* engine is built once, and the newest value of every field reaches the   *)
(* engine's listener and the hub's clients unless a message was dropped.   *)
(*                                                                         *)
(* Both arguments follow the newest value of a field: it has been heard,   *)
(* or a setter, a queue or the message in hand still has it, or a snapshot *)
(* or a Start has still to read the field (Informed, Served).  No value is *)
(* ahead of the store (Bounded, HubBounded), so hearing one never hides    *)
(* the newest.  These have all of Nat for a value: the bound MaxStores is  *)
(* not needed.  TypeOK, which has the bounded types and the capacities of  *)
(* the queues, is proved last, with the store's counter (Counted).         *)
(***************************************************************************)
EXTENDS Observers, TLAPS

StoreTypes ==
  /\ store \in [Fields -> Nat]
  /\ setter \in [Setters -> {"idle", "notify"}]
  /\ arg \in [Setters -> Fields \X Nat]

LEMMA MaxOfTwo ==
  ASSUME NEW a \in Nat, NEW b \in Nat
  PROVE  Max({a, b}) = IF a >= b THEN a ELSE b
<1>1. CASE a >= b
  <2>1. \A y \in {a, b} : a >= y
    BY <1>1
  <2> QED BY <1>1, <2>1 DEF Max
<1>2. CASE ~(a >= b)
  <2>1. \A y \in {a, b} : b >= y
    BY <1>2
  <2> QED BY <1>2, <2>1 DEF Max
<1> QED BY <1>1, <1>2

LEMMA SetDoes ==
  ASSUME StoreTypes, NEW s \in Setters, NEW f \in Fields, Set(s, f)
  PROVE  /\ setter[s] = "idle" /\ setter'[s] = "notify"
         /\ store'[f] = store[f] + 1 /\ arg'[s] = <<f, store'[f]>>
         /\ \A g \in Fields : g # f => store'[g] = store[g]
         /\ \A t \in Setters : t # s => setter'[t] = setter[t] /\ arg'[t] = arg[t]
         /\ StoreTypes'
<1>1. /\ setter[s] = "idle" /\ setter' = [setter EXCEPT ![s] = "notify"]
      /\ store' = [store EXCEPT ![f] = @ + 1] /\ arg' = [arg EXCEPT ![s] = <<f, store[f] + 1>>]
  BY DEF Set
<1>2. store[f] + 1 \in Nat /\ <<f, store[f] + 1>> \in Fields \X Nat
  BY DEF StoreTypes
<1>3. StoreTypes'
  BY <1>1, <1>2 DEF StoreTypes
<1> QED BY <1>1, <1>2, <1>3 DEF StoreTypes

LEMMA SetterIsDoneDoes ==
  ASSUME StoreTypes, NEW s \in Setters, setter[s] = "notify", SetterIsDone(s)
  PROVE  /\ store' = store
         /\ setter'[s] = "idle" /\ arg'[s] = <<1, 0>>
         /\ \A t \in Setters : t # s => setter'[t] = setter[t] /\ arg'[t] = arg[t]
         /\ StoreTypes'
<1>1. <<1, 0>> \in Fields \X Nat
  BY StoreAssumption DEF Fields
<1> QED BY <1>1 DEF SetterIsDone, StoreTypes

-----------------------------------------------------------------------------
(* The engine                                                              *)

Event == Fields \X Nat

EngineTypes ==
  /\ engineMu \in Starters \cup {NoEvent}
  /\ start \in [Starters -> {"new", "reattach", "build", "fresh", "read", "emit", "done"}]
  /\ status \in [Starters -> Event]
  /\ listener \in Starters \cup {NoEvent}
  /\ dispatchCh \in Seq(Event)
  /\ item \in (Event \X (Starters \cup {NoEvent})) \cup {NoEvent}
  /\ heard \in [Fields -> Nat]

\* engineMu is with the Start that builds or attaches, and there is an engine when one
\* has built it.
Handover ==
  /\ \A k \in Starters :
       /\ engineMu = k <=> start[k] \in {"reattach", "build"}
       /\ start[k] = "build" => ~engine
       /\ start[k] \in {"reattach", "fresh", "read", "emit", "done"} => engine
       /\ start[k] \in {"new", "reattach", "build"} => status[k] = <<1, 0>>
       /\ start[k] = "fresh" => status[k][2] = 0
  /\ engine \in BOOLEAN
  /\ observers = IF engine THEN 1 ELSE 0
  /\ platform = "desktop" => ~engine

\* Nothing is passed on that has not been stored.
OldEvent(e) == e[2] <= store[e[1]]
Bounded ==
  /\ \A f \in Fields : heard[f] <= store[f]
  /\ \A s \in Setters : OldEvent(arg[s])
  /\ \A i \in DOMAIN dispatchCh : OldEvent(dispatchCh[i])
  /\ item # NoEvent => OldEvent(item[1])
  /\ \A k \in Starters : OldEvent(status[k])

\* On Android nothing is stored before there is an engine.
Quiet ==
  ~engine => (\A f \in Fields : store[f] = 0) /\ (\A s \in Setters : setter[s] = "idle")

Pending(e) ==
  \/ \E s \in Setters : setter[s] = "notify" /\ arg[s] = e
  \/ \E i \in DOMAIN dispatchCh : dispatchCh[i] = e
  \/ item \in {<<e, NoEvent>>, <<e, listener>>}
  \/ \E k \in Starters : start[k] = "emit" /\ status[k] = e

Owed(f) ==
  \E k \in Starters :
    \/ start[k] = "read" /\ status[k][1] <= f
    \/ start[k] = "emit" /\ status[k][1] < f

\* The newest value of a field has been heard, is on its way, or will be read.
Informed ==
  engine /\ ~lost =>
    \A f \in Fields : heard[f] = store[f] \/ Pending(<<f, store[f]>>) \/ Owed(f)

EngineInv ==
  /\ StoreTypes /\ EngineTypes /\ Handover
  /\ platform \in {"desktop", "android"}
  /\ platform = "android" => Bounded /\ Quiet
  /\ Informed

LEMMA EngineInitHolds == Init => EngineInv
<1> SUFFICES ASSUME Init PROVE EngineInv
  OBVIOUS
<1> USE StoreAssumption, EngineAssumption DEF Init, StoreInit, EngineInit
<1>1. <<1, 0>> \in Fields \X Nat
  BY DEF Fields
<1>2. StoreTypes /\ EngineTypes
  BY <1>1 DEF StoreTypes, EngineTypes, Event
<1>3. Handover
  BY DEF Handover
<1>4. Bounded
  BY <1>1 DEF Bounded, OldEvent
<1>5. Quiet /\ Informed
  BY DEF Quiet, Informed
<1> QED BY <1>2, <1>3, <1>4, <1>5 DEF EngineInv

LEMMA OfferDoes ==
  ASSUME dispatchCh \in Seq(Event), NEW e \in Event, Offer(e)
  PROVE  /\ dispatchCh' \in Seq(Event)
         /\ \A i \in DOMAIN dispatchCh :
              i \in DOMAIN dispatchCh' /\ dispatchCh'[i] = dispatchCh[i]
         /\ \A i \in DOMAIN dispatchCh' :
              dispatchCh'[i] = e \/ (i \in DOMAIN dispatchCh /\ dispatchCh'[i] = dispatchCh[i])
         /\ ~lost' => ~lost /\ \E i \in DOMAIN dispatchCh' : dispatchCh'[i] = e
<1>1. CASE Len(dispatchCh) < DispatchDepth
  <2>1. dispatchCh' = Append(dispatchCh, e) /\ lost' = lost
    BY <1>1 DEF Offer
  <2>2. dispatchCh' \in Seq(Event) /\ Len(dispatchCh') = Len(dispatchCh) + 1
        /\ dispatchCh'[Len(dispatchCh) + 1] = e
        /\ \A i \in 1 .. Len(dispatchCh) : dispatchCh'[i] = dispatchCh[i]
    BY <2>1
  <2>3. DOMAIN dispatchCh = 1 .. Len(dispatchCh) /\ DOMAIN dispatchCh' = 1 .. Len(dispatchCh) + 1
        /\ Len(dispatchCh) \in Nat
    BY <2>2
  <2> QED BY <2>1, <2>2, <2>3
<1>2. CASE ~(Len(dispatchCh) < DispatchDepth)
  BY <1>2 DEF Offer
<1> QED BY <1>1, <1>2

LEMMA StoringKeepsEngine ==
  ASSUME EngineInv, platform = "android", UNCHANGED <<engineVars, platform>>, engine,
         NEW s \in Setters, NEW f \in Fields, Set(s, f)
  PROVE  EngineInv'
<1> USE DEF EngineInv, engineVars, startVars, dispatchVars
<1>1. /\ setter[s] = "idle" /\ setter'[s] = "notify"
      /\ store'[f] = store[f] + 1 /\ arg'[s] = <<f, store'[f]>>
      /\ \A g \in Fields : g # f => store'[g] = store[g]
      /\ \A t \in Setters : t # s => setter'[t] = setter[t] /\ arg'[t] = arg[t]
      /\ StoreTypes'
  BY SetDoes
<1>2. EngineTypes' /\ Handover' /\ Quiet'
  BY DEF EngineTypes, Handover, Quiet
<1>3. \A g \in Fields : store[g] \in Nat /\ store'[g] \in Nat /\ store[g] <= store'[g]
  BY <1>1 DEF StoreTypes
<1>4. \A e \in Event : OldEvent(e) => OldEvent(e)'
  BY <1>3 DEF OldEvent, Event
<1>5. Bounded'
  <2>1. \A t \in Setters : OldEvent(arg[t])'
    BY <1>1, <1>3, <1>4 DEF Bounded, OldEvent, StoreTypes, Event
  <2>2. \A g \in Fields : heard'[g] <= store'[g]
    BY <1>3 DEF Bounded, EngineTypes
  <2>3. \A i \in DOMAIN dispatchCh : OldEvent(dispatchCh[i])'
    BY <1>4 DEF Bounded, EngineTypes
  <2>4. item # NoEvent => OldEvent(item[1])'
    BY <1>4 DEF Bounded, EngineTypes
  <2>5. \A k \in Starters : OldEvent(status[k])'
    BY <1>4 DEF Bounded, EngineTypes
  <2> QED BY <2>1, <2>2, <2>3, <2>4, <2>5 DEF Bounded, OldEvent
<1>6. Informed'
  <2> SUFFICES ASSUME ~lost, NEW g \in Fields
               PROVE  (heard[g] = store[g] \/ Pending(<<g, store[g]>>) \/ Owed(g))'
    BY DEF Informed
  <2>1. CASE g = f
    BY <1>1, <2>1 DEF Pending
  <2>2. CASE g # f
    <3>1. store'[g] = store[g]
      BY <1>1, <2>2
    <3>2. \A e : Pending(e) => Pending(e)'
      BY <1>1 DEF Pending
    <3>3. Owed(g) => Owed(g)'
      BY DEF Owed
    <3> QED BY <3>1, <3>2, <3>3 DEF Informed
  <2> QED BY <2>1, <2>2
<1> QED BY <1>1, <1>2, <1>5, <1>6

LEMMA ObservingKeepsEngine ==
  ASSUME EngineInv, platform = "android", UNCHANGED platform, NEW s \in Setters, EngineObserves(s)
  PROVE  EngineInv'
<1> USE DEF EngineInv, EngineObserves, startVars
<1>1. /\ setter[s] = "notify" /\ arg[s] \in Event /\ store' = store
      /\ setter'[s] = "idle" /\ arg'[s] = <<1, 0>>
      /\ \A t \in Setters : t # s => setter'[t] = setter[t] /\ arg'[t] = arg[t]
      /\ StoreTypes'
  BY SetterIsDoneDoes DEF StoreTypes, Event
<1>2. /\ dispatchCh' \in Seq(Event)
      /\ \A i \in DOMAIN dispatchCh :
           i \in DOMAIN dispatchCh' /\ dispatchCh'[i] = dispatchCh[i]
      /\ \A i \in DOMAIN dispatchCh' :
           dispatchCh'[i] = arg[s] \/ (i \in DOMAIN dispatchCh /\ dispatchCh'[i] = dispatchCh[i])
      /\ ~lost' => ~lost /\ \E i \in DOMAIN dispatchCh' : dispatchCh'[i] = arg[s]
  BY <1>1, OfferDoes DEF EngineTypes
<1>3. EngineTypes' /\ Handover'
  BY <1>2 DEF EngineTypes, Handover
<1>4. Bounded' /\ Quiet'
  <2>1. OldEvent(<<1, 0>>)
    BY StoreAssumption DEF OldEvent, StoreTypes, Fields
  <2>2. Bounded'
    BY <1>1, <1>2, <2>1 DEF Bounded, OldEvent
  <2>3. Quiet'
    BY <1>1 DEF Quiet
  <2> QED BY <2>2, <2>3
<1>5. Informed'
  <2> SUFFICES ASSUME engine, ~lost', NEW f \in Fields
               PROVE  (heard[f] = store[f] \/ Pending(<<f, store[f]>>) \/ Owed(f))'
    BY DEF Informed
  <2>1. ~lost
    BY <1>2
  <2>2. \A e : Pending(e) => Pending(e)'
    BY <1>1, <1>2 DEF Pending
  <2>3. Owed(f) => Owed(f)'
    BY DEF Owed
  <2> QED BY <1>1, <2>1, <2>2, <2>3 DEF Informed
<1> QED BY <1>1, <1>3, <1>4, <1>5

LEMMA DispatchingKeepsEngine ==
  ASSUME EngineInv, platform = "android", UNCHANGED platform,
         Dispatches \/ LoadsListener \/ ListenerReturns
  PROVE  EngineInv'
<1> USE DEF EngineInv, startVars, storeVars
<1>1. CASE Dispatches
  <2> USE <1>1, EngineAssumption DEF Dispatches
  <2> DEFINE e == Head(dispatchCh)
  <2>a. /\ dispatchCh \in Seq(Event) /\ dispatchCh # << >> /\ item = NoEvent
        /\ dispatchCh' = Tail(dispatchCh) /\ item' = <<e, NoEvent>>
    BY DEF EngineTypes
  <2>b. /\ e \in Event /\ dispatchCh' \in Seq(Event)
        /\ Len(dispatchCh) \in Nat \ {0} /\ DOMAIN dispatchCh = 1 .. Len(dispatchCh)
        /\ DOMAIN dispatchCh' = 1 .. Len(dispatchCh) - 1
        /\ e = dispatchCh[1]
        /\ \A i \in 1 .. Len(dispatchCh) - 1 : dispatchCh'[i] = dispatchCh[i + 1]
    BY <2>a
  <2>c. item' # NoEvent
    BY <2>a, <2>b DEF Event
  <2>1. /\ e \in Event /\ dispatchCh' \in Seq(Event) /\ item' = <<e, NoEvent>> /\ item' # NoEvent
        /\ 1 \in DOMAIN dispatchCh /\ e = dispatchCh[1]
        /\ \A i \in DOMAIN dispatchCh' : i + 1 \in DOMAIN dispatchCh /\ dispatchCh'[i] = dispatchCh[i + 1]
        /\ \A i \in DOMAIN dispatchCh : i # 1 => i - 1 \in DOMAIN dispatchCh'
                                                /\ dispatchCh'[i - 1] = dispatchCh[i]
    BY <2>a, <2>b, <2>c
  <2> HIDE DEF e, Dispatches
  <2>d. UNCHANGED <<storeVars, startVars, heard, lost>> /\ item = NoEvent
    BY <1>1 DEF Dispatches
  <2>2. EngineTypes' /\ Handover' /\ StoreTypes' /\ Quiet'
    BY <2>1, <2>d DEF EngineTypes, Handover, StoreTypes, Quiet
  <2>3. Bounded'
    BY <2>1, <2>d DEF Bounded, OldEvent
  <2>4. Informed'
    <3>1. ASSUME NEW g \in Event, Pending(g) PROVE Pending(g)'
      <4>1. CASE \E i \in DOMAIN dispatchCh : dispatchCh[i] = g
        <5> PICK i \in DOMAIN dispatchCh : dispatchCh[i] = g
          BY <4>1
        <5>1. i = 1 => item' = <<g, NoEvent>>
          BY <2>1
        <5>2. i # 1 => \E j \in DOMAIN dispatchCh' : dispatchCh'[j] = g
          BY <2>1
        <5> QED BY <5>1, <5>2 DEF Pending
      <4>2. CASE \/ \E s \in Setters : setter[s] = "notify" /\ arg[s] = g
                 \/ \E k \in Starters : start[k] = "emit" /\ status[k] = g
        BY <4>2, <2>d DEF Pending
      <4>3. CASE item \in {<<g, NoEvent>>, <<g, listener>>} /\ g \in Event
        <5>1. <<g, NoEvent>> # NoEvent /\ <<g, listener>> # NoEvent
          BY DEF EngineTypes, Event
        <5> QED BY <4>3, <5>1, <2>d
      <4> QED BY <3>1, <4>1, <4>2, <4>3 DEF Pending
    <3>2. \A f \in Fields : <<f, store[f]>> \in Event
      BY DEF StoreTypes, Event
    <3> QED BY <3>1, <3>2, <2>d DEF Informed, Owed
  <2> QED BY <2>2, <2>3, <2>4
<1>2. CASE LoadsListener
  <2> USE <1>2, EngineAssumption DEF LoadsListener
  <2>1. item' \in Event \X (Starters \cup {NoEvent}) /\ item[1] \in Event /\ item'[1] = item[1]
        /\ item' = <<item[1], listener>>
    BY DEF EngineTypes
  <2>2. EngineTypes' /\ Handover' /\ StoreTypes' /\ Quiet'
    BY <2>1 DEF EngineTypes, Handover, StoreTypes, Quiet
  <2>3. Bounded'
    BY <2>1 DEF Bounded, OldEvent
  <2>4. Informed'
    <3>1. ASSUME NEW g, Pending(g) PROVE Pending(g)'
      BY <2>1, <3>1 DEF Pending
    <3> QED BY <3>1 DEF Informed, Owed
  <2> QED BY <2>2, <2>3, <2>4
<1>3. CASE ListenerReturns
  <2> USE <1>3 DEF ListenerReturns
  <2>1. item[1] \in Event /\ item[1][1] \in Fields /\ item[1][2] \in Nat /\ item[1][2] <= store[item[1][1]]
    BY DEF EngineTypes, Event, Bounded, OldEvent
  <2>2. \A f \in Fields : heard[f] \in Nat /\ store[f] \in Nat /\ heard[f] <= store[f]
    BY DEF EngineTypes, StoreTypes, Bounded
  <2>3. /\ heard' \in [Fields -> Nat]
        /\ \A f \in Fields : heard'[f] <= store[f] /\ heard[f] <= heard'[f]
        /\ item[2] = listener => heard'[item[1][1]] >= item[1][2]
    <3>1. CASE item[2] # listener
      BY <3>1, <2>2 DEF EngineTypes
    <3>2. CASE item[2] = listener
      <4> DEFINE f == item[1][1]
                 v == item[1][2]
      <4>1. Max({heard[f], v}) = IF heard[f] >= v THEN heard[f] ELSE v
        BY <2>1, <2>2, MaxOfTwo
      <4>2. heard' = [heard EXCEPT ![f] = Max({heard[f], v})]
        BY <3>2
      <4>3. Max({heard[f], v}) \in Nat /\ Max({heard[f], v}) <= store[f]
            /\ Max({heard[f], v}) >= heard[f] /\ Max({heard[f], v}) >= v
        BY <4>1, <2>1, <2>2
      <4> HIDE DEF f, v
      <4>4. heard' \in [Fields -> Nat] /\ heard'[f] = Max({heard[f], v})
            /\ \A g \in Fields : g # f => heard'[g] = heard[g]
        BY <4>2, <4>3, <2>1 DEF EngineTypes, f
      <4>5. \A g \in Fields : heard'[g] <= store[g] /\ heard[g] <= heard'[g]
        BY <4>3, <4>4, <2>2
      <4> QED BY <4>3, <4>4, <4>5 DEF f, v
    <3> QED BY <3>1, <3>2
  <2>4. EngineTypes' /\ Handover' /\ StoreTypes' /\ Quiet'
    BY <2>3 DEF EngineTypes, Handover, StoreTypes, Quiet
  <2>5. Bounded'
    BY <2>3 DEF Bounded, OldEvent
  <2>6. Informed'
    <3> SUFFICES ASSUME engine, ~lost, NEW f \in Fields
                 PROVE  (heard[f] = store[f] \/ Pending(<<f, store[f]>>) \/ Owed(f))'
      BY DEF Informed
    <3>1. CASE heard[f] = store[f]
      <4>1. heard'[f] \in Nat /\ heard'[f] <= store[f] /\ heard[f] <= heard'[f] /\ store[f] \in Nat
        BY <2>3, <2>2
      <4> QED BY <4>1, <3>1
    <3>2. CASE item \in {<< <<f, store[f]>>, NoEvent>>, << <<f, store[f]>>, listener>>}
      <4>1. item[2] = listener /\ item[1][1] = f /\ item[1][2] = store[f]
        BY <3>2
      <4>2. heard'[f] \in Nat /\ heard'[f] <= store[f] /\ heard'[f] >= store[f] /\ store[f] \in Nat
        BY <4>1, <2>3, <2>2
      <4> QED BY <4>2
    <3>3. CASE Owed(f)
      BY <3>3 DEF Owed
    <3>4. CASE Pending(<<f, store[f]>>) /\ ~(item \in {<< <<f, store[f]>>, NoEvent>>, << <<f, store[f]>>, listener>>})
      BY <3>4 DEF Pending
    <3> QED BY <3>1, <3>2, <3>3, <3>4 DEF Informed
  <2> QED BY <2>4, <2>5, <2>6
<1> QED BY <1>1, <1>2, <1>3

LEMMA AttachingKeepsEngine ==
  ASSUME EngineInv, platform = "android", UNCHANGED platform, NEW k \in Starters,
         Attaches(k) \/ Builds(k) \/ Reattaches(k)
  PROVE  EngineInv'
<1> USE EngineAssumption DEF EngineInv, storeVars, StartGoes
<1>1. CASE Attaches(k)
  <2> USE <1>1 DEF Attaches, dispatchVars
  <2>1. start' = [start EXCEPT ![k] = IF engine THEN "reattach" ELSE "build"] /\ engineMu' = k
    OBVIOUS
  <2>2. StoreTypes' /\ EngineTypes' /\ Quiet' /\ Bounded'
    BY <2>1 DEF EngineTypes, StoreTypes, Quiet, Bounded, OldEvent
  <2>3. Handover'
    BY <2>1 DEF Handover, EngineTypes
  <2>4. Informed'
    <3>1. \A e : Pending(e) => Pending(e)'
      BY <2>1 DEF Pending, EngineTypes
    <3>2. \A f : Owed(f) => Owed(f)'
      BY <2>1 DEF Owed, EngineTypes
    <3> QED BY <3>1, <3>2 DEF Informed
  <2> QED BY <2>2, <2>3, <2>4
<1>2. CASE Builds(k)
  <2> USE <1>2 DEF Builds, SetListener
  <2>1. start[k] = "build" /\ ~engine /\ engineMu = k
    BY DEF Handover
  <2>2. start' = [start EXCEPT ![k] = "fresh"] /\ engineMu' = NoEvent /\ status[k] = <<1, 0>>
    BY <2>1 DEF Handover
  <2>3. StoreTypes' /\ EngineTypes' /\ Quiet'
    BY <2>2 DEF EngineTypes, StoreTypes, Quiet
  <2>4. \A f \in Fields : store[f] = 0 /\ heard'[f] = 0
    BY <2>1 DEF Quiet
  <2>5. Bounded'
    BY <2>4 DEF Bounded, OldEvent
  <2>6. Handover'
    BY <2>1, <2>2 DEF Handover, EngineTypes
  <2>7. Informed'
    BY <2>4 DEF Informed
  <2> QED BY <2>3, <2>5, <2>6, <2>7
<1>3. CASE Reattaches(k)
  <2> USE <1>3 DEF Reattaches, SetListener
  <2>1. start[k] = "reattach" /\ engine /\ engineMu = k /\ status[k] = <<1, 0>>
    BY DEF Handover
  <2>2. start' = [start EXCEPT ![k] = "read"] /\ engineMu' = NoEvent
    OBVIOUS
  <2>3. StoreTypes' /\ EngineTypes' /\ Quiet'
    BY <2>2 DEF EngineTypes, StoreTypes, Quiet
  <2>4. Bounded'
    <3>1. \A f \in Fields : heard'[f] = 0 /\ store[f] \in Nat
      BY DEF StoreTypes
    <3> QED BY <3>1 DEF Bounded, OldEvent
  <2>5. Handover'
    BY <2>1, <2>2 DEF Handover, EngineTypes
  <2>6. Informed'
    <3>1. ASSUME NEW f \in Fields PROVE Owed(f)'
      <4>1. start'[k] = "read" /\ status'[k] = <<1, 0>>
        BY <2>1, <2>2 DEF EngineTypes
      <4>2. 1 <= f
        BY StoreAssumption DEF Fields
      <4> QED BY <4>1, <4>2 DEF Owed
    <3> QED BY <3>1 DEF Informed
  <2> QED BY <2>3, <2>4, <2>5, <2>6
<1> QED BY <1>1, <1>2, <1>3

LEMMA ReportingKeepsEngine ==
  ASSUME EngineInv, platform = "android", UNCHANGED platform, NEW k \in Starters,
         ReadsStatus(k) \/ EmitsStatus(k)
  PROVE  EngineInv'
<1> USE EngineAssumption DEF EngineInv, storeVars, StartGoes
<1>a. status[k] \in Event /\ status[k][1] \in Fields /\ store[status[k][1]] \in Nat
      /\ status[k] = <<status[k][1], status[k][2]>>
  BY DEF EngineTypes, Event, StoreTypes
<1>b. Fields = 1 .. NFields /\ NFields \in Nat \ {0}
  BY StoreAssumption DEF Fields
<1>1. CASE ReadsStatus(k)
  <2> USE <1>1 DEF ReadsStatus, dispatchVars, Get
  <2> PICK f \in Fields : f = status[k][1]
    BY <1>a
  <2>1. /\ start[k] = "read" /\ start' = [start EXCEPT ![k] = "emit"]
        /\ status' = [status EXCEPT ![k] = <<f, store[f]>>] /\ <<f, store[f]>> \in Event
    BY <1>a DEF Event
  <2> HIDE DEF ReadsStatus
  <2>d. UNCHANGED <<storeVars, engineMu, engine, observers, listener, dispatchCh, item, heard, lost>>
    BY <1>1 DEF ReadsStatus
  <2>2. StoreTypes' /\ EngineTypes' /\ Quiet'
    BY <2>1, <2>d DEF EngineTypes, StoreTypes, Quiet
  <2>3. Bounded'
    <3>1. ASSUME NEW l \in Starters PROVE OldEvent(status[l])'
      <4>1. CASE l = k
        BY <4>1, <2>1, <2>d, <1>a DEF OldEvent, EngineTypes
      <4>2. CASE l # k
        BY <4>2, <2>1, <2>d DEF OldEvent, EngineTypes, Bounded
      <4> QED BY <4>1, <4>2
    <3> QED BY <2>d, <3>1 DEF Bounded, OldEvent
  <2>4. Handover'
    BY <2>1, <2>d DEF Handover, EngineTypes
  <2>5. Informed'
    <3>1. ASSUME NEW e, Pending(e) PROVE Pending(e)'
      BY <2>1, <2>d, <3>1 DEF Pending, EngineTypes
    <3>2. ASSUME NEW g \in Fields, Owed(g) PROVE Owed(g)' \/ g = f
      <4>0. start'[k] = "emit" /\ status'[k][1] = f
        BY <2>1 DEF EngineTypes
      <4>1. CASE \E l \in Starters \ {k} : \/ start[l] = "read" /\ status[l][1] <= g
                                           \/ start[l] = "emit" /\ status[l][1] < g
        BY <4>1, <2>1 DEF Owed, EngineTypes
      <4>2. CASE f <= g
        BY <4>2, <4>0, <1>a, <1>b DEF Owed
      <4> QED BY <3>2, <4>1, <4>2, <2>1 DEF Owed
    <3>3. Pending(<<f, store[f]>>)'
      BY <2>1, <2>d DEF Pending, EngineTypes
    <3> QED BY <2>d, <3>1, <3>2, <3>3 DEF Informed
  <2> QED BY <2>2, <2>3, <2>4, <2>5
<1>2. CASE EmitsStatus(k)
  <2> PICK f \in Fields : f = status[k][1]
    BY <1>a
  <2>d. UNCHANGED <<storeVars, engineMu, engine, observers, listener, item, heard>>
    BY <1>2 DEF EmitsStatus
  <2>1. /\ dispatchCh' \in Seq(Event)
        /\ \A i \in DOMAIN dispatchCh :
             i \in DOMAIN dispatchCh' /\ dispatchCh'[i] = dispatchCh[i]
        /\ \A i \in DOMAIN dispatchCh' :
             dispatchCh'[i] = status[k] \/ (i \in DOMAIN dispatchCh /\ dispatchCh'[i] = dispatchCh[i])
        /\ ~lost' => ~lost /\ \E i \in DOMAIN dispatchCh' : dispatchCh'[i] = status[k]
    BY <1>2, <1>a, OfferDoes DEF EngineTypes, EmitsStatus
  <2>2. PICK p \in {"done", "read", "fresh"}, e \in Event :
          /\ start[k] \in {"fresh", "emit"}
          /\ start' = [start EXCEPT ![k] = p] /\ status' = [status EXCEPT ![k] = e]
          /\ e[2] = 0
          /\ start[k] = "emit" => \/ p = "done" /\ f = NFields
                                  \/ p = "read" /\ e[1] = f + 1
    <3>1. CASE f = NFields
      <4>1. <<1, 0>> \in Event
        BY <1>b DEF Event
      <4> QED BY <3>1, <4>1, <1>2 DEF EmitsStatus
    <3>2. CASE f # NFields
      <4>1. <<f + 1, 0>> \in Event
        BY <3>2, <1>a, <1>b DEF Event
      <4> QED BY <3>2, <4>1, <1>2 DEF EmitsStatus
    <3> QED BY <3>1, <3>2
  <2>3. StoreTypes' /\ EngineTypes' /\ Quiet'
    BY <2>1, <2>2, <2>d DEF EngineTypes, StoreTypes, Quiet
  <2>4. Bounded'
    <3>1. OldEvent(status[k]) /\ OldEvent(e)
      BY <2>2 DEF Bounded, OldEvent, StoreTypes, Event
    <3>2. \A l \in Starters : OldEvent(status'[l])
      BY <3>1, <2>2 DEF Bounded, EngineTypes
    <3>3. \A i \in DOMAIN dispatchCh' : OldEvent(dispatchCh'[i])
      BY <3>1, <2>1 DEF Bounded
    <3> QED BY <2>d, <3>2, <3>3 DEF Bounded, OldEvent
  <2>5. Handover'
    BY <2>2, <2>d DEF Handover, EngineTypes
  <2>6. Informed'
    <3> SUFFICES ASSUME engine, ~lost', NEW g \in Fields
                 PROVE  (heard[g] = store[g] \/ Pending(<<g, store[g]>>) \/ Owed(g))'
      BY <2>d DEF Informed
    <3>1. ~lost /\ \E i \in DOMAIN dispatchCh' : dispatchCh'[i] = status[k]
      BY <2>1
    <3>2. ASSUME NEW h, Pending(h) PROVE Pending(h)'
      <4>1. CASE h = status[k]
        BY <3>1, <4>1 DEF Pending
      <4>2. CASE h # status[k]
        BY <3>2, <4>2, <2>1, <2>2, <2>d DEF Pending, EngineTypes
      <4> QED BY <4>1, <4>2
    <3>3. ASSUME Owed(g) PROVE Owed(g)'
      <4>1. CASE \E l \in Starters \ {k} : \/ start[l] = "read" /\ status[l][1] <= g
                                           \/ start[l] = "emit" /\ status[l][1] < g
        BY <4>1, <2>2 DEF Owed, EngineTypes
      <4>2. CASE start[k] = "emit" /\ f < g
        <5>1. p = "read" /\ e[1] <= g
          BY <4>2, <2>2, <1>a, <1>b
        <5> QED BY <5>1, <2>2 DEF Owed, EngineTypes
      <4> QED BY <3>3, <4>1, <4>2, <2>2 DEF Owed
    <3> QED BY <2>d, <3>1, <3>2, <3>3 DEF Informed
  <2> QED BY <2>3, <2>4, <2>5, <2>6
<1> QED BY <1>1, <1>2

\* What a step of the hub does to the store.
LEMMA HubStores ==
  ASSUME StoreTypes, HubNext
  PROVE  \/ UNCHANGED storeVars
         \/ \E s \in Setters, f \in Fields : Set(s, f) /\ UNCHANGED hubVars
         \/ \E s \in Setters : HubOffers(s)
<1>1. CASE HubStep
  BY <1>1 DEF HubStep, HubTakes, HubLists, HubSends, HubIsDone
<1>2. ASSUME NEW c \in Conns,
             \/ ClientConnects(c) \/ InitialReads(c) \/ InitialSends(c) \/ ClientLeaves(c)
             \/ PeerCloses(c) \/ Writes(c) \/ WriteFails(c) \/ WriterStops(c)
      PROVE  UNCHANGED storeVars
  BY <1>2 DEF ClientConnects, InitialReads, InitialSends, ClientLeaves, PeerCloses, Writes, WriteFails,
     WriterStops
<1>3. ASSUME NEW s \in Setters, HubReads(s) PROVE UNCHANGED storeVars
  BY <1>3 DEF HubReads
<1> QED BY <1>1, <1>2, <1>3 DEF HubNext

LEMMA StoreTypesKept ==
  ASSUME StoreTypes, HubNext
  PROVE  StoreTypes'
<1>1. ASSUME NEW s \in Setters, HubOffers(s) PROVE StoreTypes'
  BY <1>1, SetterIsDoneDoes DEF HubOffers
<1>2. ASSUME UNCHANGED storeVars PROVE StoreTypes'
  BY <1>2 DEF storeVars, StoreTypes
<1> QED BY <1>1, <1>2, HubStores, SetDoes

LEMMA EngineInductive == EngineInv /\ [Next]_vars => EngineInv'
<1> SUFFICES ASSUME EngineInv, [Next]_vars PROVE EngineInv'
  OBVIOUS
<1>1. ASSUME UNCHANGED <<engineVars, platform>>, platform = "desktop", StoreTypes' PROVE EngineInv'
  <2>1. ~engine
    BY <1>1 DEF EngineInv, Handover
  <2> QED BY <1>1, <2>1 DEF EngineInv, engineVars, startVars, dispatchVars, EngineTypes, Handover, Informed
<1>2. ASSUME UNCHANGED <<storeVars, startVars, dispatchVars, platform>> PROVE EngineInv'
  <2> USE <1>2 DEF storeVars, startVars, dispatchVars
  <2>1. StoreTypes' /\ EngineTypes' /\ Handover'
    BY DEF EngineInv, StoreTypes, EngineTypes, Handover
  <2>2. platform = "android" => Bounded' /\ Quiet'
    BY DEF EngineInv, Bounded, Quiet, OldEvent
  <2>3. Informed'
    <3>1. \A e : Pending(e) <=> Pending(e)'
      BY DEF Pending
    <3>2. \A f : Owed(f) <=> Owed(f)'
      BY DEF Owed
    <3> QED BY <3>1, <3>2 DEF EngineInv, Informed
  <2> QED BY <2>1, <2>2, <2>3 DEF EngineInv
<1>3. CASE UNCHANGED vars
  BY <1>2, <1>3 DEF vars, engineVars
<1>4. CASE platform = "desktop" /\ HubNext /\ UNCHANGED engineVars /\ UNCHANGED platform
  BY <1>1, <1>4, StoreTypesKept DEF EngineInv
<1>5. CASE platform = "android" /\ EngineNext /\ UNCHANGED platform
  <2>1. ASSUME NEW s \in Setters, engine, NEW f \in Fields, Set(s, f), UNCHANGED engineVars
        PROVE  EngineInv'
    BY <1>5, <2>1, StoringKeepsEngine
  <2>2. ASSUME NEW s \in Setters, EngineObserves(s) PROVE EngineInv'
    BY <1>5, <2>2, ObservingKeepsEngine
  <2>3. CASE Dispatches \/ LoadsListener \/ ListenerReturns
    BY <1>5, <2>3, DispatchingKeepsEngine
  <2>4. ASSUME NEW k \in Starters, Attaches(k) \/ Builds(k) \/ Reattaches(k) PROVE EngineInv'
    BY <1>5, <2>4, AttachingKeepsEngine
  <2>5. ASSUME NEW k \in Starters, ReadsStatus(k) \/ EmitsStatus(k) PROVE EngineInv'
    BY <1>5, <2>5, ReportingKeepsEngine
  <2> QED BY <1>5, <2>1, <2>2, <2>3, <2>4, <2>5 DEF EngineNext
<1> QED BY <1>3, <1>4, <1>5 DEF Next

\* However many Starts race, the engine is built, and its callbacks are registered, once:
\* whoever builds has engineMu and saw no engine.
THEOREM OneEngine == Spec => []BuiltOnce
<1>1. EngineInv => BuiltOnce
  BY DEF EngineInv, Handover, BuiltOnce
<1> QED BY EngineInitHolds, EngineInductive, <1>1, PTL DEF Spec

\* Whatever order the setters' callbacks run in, and whichever Start swaps the listener
\* meanwhile, the listener is told the newest status unless the queue dropped an event.
THEOREM ListenerInformed == Spec => []FinalValueReachesListener
<1>1. EngineInv => FinalValueReachesListener
  <2> SUFFICES ASSUME EngineInv, SettersIdle, dispatchCh = << >>, item = NoEvent, engine, ~lost,
                      \A k \in Starters : start[k] \in {"new", "done"}
               PROVE  heard = store
    BY DEF FinalValueReachesListener
  <2>1. ASSUME NEW f \in Fields PROVE heard[f] = store[f]
    <3>1. ~Owed(f)
      BY DEF Owed
    <3>2. ~Pending(<<f, store[f]>>)
      <4>1. <<f, store[f]>> \in Event
        BY DEF EngineInv, StoreTypes, Event
      <4>2. NoEvent \notin {<< <<f, store[f]>>, NoEvent>>, << <<f, store[f]>>, listener>>}
        BY <4>1, EngineAssumption DEF EngineInv, EngineTypes, Event
      <4> QED BY <4>2 DEF Pending, SettersIdle
    <3> QED BY <3>1, <3>2 DEF EngineInv, Informed
  <2> QED BY <2>1 DEF EngineInv, EngineTypes, StoreTypes
<1> QED BY EngineInitHolds, EngineInductive, <1>1, PTL DEF Spec

-----------------------------------------------------------------------------
(* The hub                                                                 *)

Message == [Fields -> Nat]

HubTypes ==
  /\ snapshot \in [Setters -> Seq(Nat)]
  /\ broadcast \in Seq(Message)
  /\ message \in Message \cup {NoMessage}
  /\ clients \in SUBSET Conns
  /\ handler \in [Conns -> {"new", "initial", "read", "gone"}]
  /\ initial \in [Conns -> Seq(Nat)]
  /\ told \in [Conns -> Message]

\* A connection is in the map from its registration until its handler ends, and what is
\* not under way is empty.
Registered ==
  /\ \A c \in Conns : handler[c] \in {"initial", "read"} => c \in clients
  /\ \A c \in Conns : handler[c] = "new" => initial[c] = << >>
  /\ \A s \in Setters : setter[s] = "idle" => snapshot[s] = << >>
  /\ message = NoMessage => targets = NoMessage

\* Nothing is sent that has not been stored.
OldReads(reads) == Len(reads) <= NFields /\ \A i \in 1 .. Len(reads) : reads[i] <= store[i]
OldMessage(m) == \A f \in Fields : m[f] <= store[f]
HubBounded ==
  /\ \A s \in Setters : OldReads(snapshot[s])
  /\ \A c \in Conns : OldReads(initial[c]) /\ OldMessage(told[c])
  /\ \A i \in DOMAIN broadcast : OldMessage(broadcast[i])
  /\ message # NoMessage => OldMessage(message)

\* Its newest value is among the reads of a snapshot, or will be.
Newest(reads, f) == Len(reads) < f \/ reads[f] = store[f]

\* A message with it is on its way to the client.
Sending(c, f) ==
  \/ \E s \in Setters : setter[s] = "notify" /\ Newest(snapshot[s], f)
  \/ \E i \in DOMAIN broadcast : broadcast[i][f] = store[f]
  \/ message # NoMessage /\ message[f] = store[f] /\ (targets = NoMessage \/ c \in targets)
  \/ handler[c] = "initial" /\ Newest(initial[c], f)

Served ==
  \A c \in Conns \ missed : handler[c] \in {"initial", "read"} =>
    \A f \in Fields : told[c][f] = store[f] \/ Sending(c, f)

DesktopInv == HubTypes /\ Registered /\ HubBounded /\ Served

HubInv ==
  /\ platform \in {"desktop", "android"}
  /\ platform = "desktop" => DesktopInv
  /\ platform = "android" => \A c \in Conns : handler[c] = "new"

LEMMA HubInitHolds == Init => HubInv
<1> SUFFICES ASSUME Init PROVE HubInv
  OBVIOUS
<1> USE StoreAssumption, HubAssumption DEF Init, StoreInit, HubInit, Fields
<1>1. HubTypes
  BY DEF HubTypes, Message
<1>2. Registered /\ HubBounded /\ Served
  BY DEF Registered, HubBounded, OldReads, OldMessage, Served
<1> QED BY <1>1, <1>2 DEF HubInv, DesktopInv

\* Reading the next field keeps a snapshot old and, for each field, the newest.
LEMMA ReadNext ==
  ASSUME StoreTypes, NEW r \in Seq(Nat), OldReads(r), Len(r) < NFields,
         NEW q, q = Append(r, store[Len(r) + 1])
  PROVE  /\ q \in Seq(Nat) /\ OldReads(q)
         /\ \A f \in Fields : Newest(r, f) => Newest(q, f)
<1> USE StoreAssumption DEF Fields
<1>1. Len(r) + 1 \in Fields /\ store[Len(r) + 1] \in Nat
  BY DEF StoreTypes
<1>2. /\ q \in Seq(Nat) /\ Len(q) = Len(r) + 1 /\ q[Len(r) + 1] = store[Len(r) + 1]
      /\ \A i \in 1 .. Len(r) : q[i] = r[i]
  BY <1>1
<1>3. OldReads(q)
  <2> SUFFICES ASSUME NEW i \in 1 .. Len(q) PROVE q[i] <= store[i]
    BY <1>2 DEF OldReads
  <2>1. CASE i = Len(r) + 1
    BY <2>1, <1>1, <1>2
  <2>2. CASE i \in 1 .. Len(r)
    BY <2>2, <1>2 DEF OldReads
  <2> QED BY <2>1, <2>2, <1>2
<1>4. ASSUME NEW f \in Fields, Newest(r, f) PROVE Newest(q, f)
  <2>1. CASE f = Len(r) + 1
    BY <2>1, <1>2 DEF Newest
  <2>2. CASE f > Len(r) + 1
    BY <2>2, <1>2 DEF Newest
  <2>3. CASE f \in 1 .. Len(r)
    BY <2>3, <1>2, <1>4 DEF Newest
  <2> QED BY <2>1, <2>2, <2>3
<1> QED BY <1>2, <1>3, <1>4

\* A message put into a client's buffer tells it what the message has.
LEMMA BufferDoes ==
  ASSUME StoreTypes, HubTypes, HubBounded, NEW c \in Conns, NEW m \in Message, OldMessage(m), Buffer(c, m)
  PROVE  /\ told' \in [Conns -> Message] /\ OldMessage(told'[c])
         /\ \A d \in Conns : d # c => told'[d] = told[d]
         /\ \A f \in Fields : told[c][f] = store[f] \/ m[f] = store[f] => told'[c][f] = store[f]
<1>1. told' = [told EXCEPT ![c] = [f \in Fields |-> Max({told[c][f], m[f]})]]
  BY DEF Buffer, HubTypes
<1>2. told'[c] = [f \in Fields |-> Max({told[c][f], m[f]})] /\ \A d \in Conns : d # c => told'[d] = told[d]
  BY <1>1 DEF HubTypes
<1>3. ASSUME NEW f \in Fields
      PROVE  /\ told'[c][f] \in Nat /\ told'[c][f] <= store[f]
             /\ told[c][f] = store[f] \/ m[f] = store[f] => told'[c][f] = store[f]
  <2>1. told[c][f] \in Nat /\ m[f] \in Nat /\ store[f] \in Nat
        /\ told[c][f] <= store[f] /\ m[f] <= store[f]
    BY DEF HubTypes, Message, StoreTypes, HubBounded, OldMessage
  <2>2. told'[c][f] = IF told[c][f] >= m[f] THEN told[c][f] ELSE m[f]
    BY <1>2, <2>1, MaxOfTwo
  <2> QED BY <2>1, <2>2
<1>4. told'[c] \in Message
  BY <1>2, <1>3 DEF Message
<1>5. told' \in [Conns -> Message]
  BY <1>1, <1>2, <1>4 DEF HubTypes
<1> QED BY <1>2, <1>3, <1>5 DEF OldMessage

LEMMA StoringKeepsHub ==
  ASSUME StoreTypes, DesktopInv, NEW s \in Setters, NEW f \in Fields, Set(s, f), UNCHANGED hubVars
  PROVE  DesktopInv'
<1> USE DEF DesktopInv, hubVars, hubQueueVars, connVars, bufferVars
<1>1. /\ setter[s] = "idle" /\ setter'[s] = "notify"
      /\ store'[f] = store[f] + 1
      /\ \A g \in Fields : g # f => store'[g] = store[g]
      /\ \A t \in Setters : t # s => setter'[t] = setter[t]
      /\ \A g \in Fields : store[g] \in Nat /\ store'[g] \in Nat /\ store[g] <= store'[g]
  BY SetDoes DEF StoreTypes
<1>2. HubTypes' /\ Registered'
  BY <1>1 DEF HubTypes, Registered
<1>3. HubBounded'
  <2>1. ASSUME NEW r \in Seq(Nat), OldReads(r) PROVE OldReads(r)'
    <3>1. \A i \in 1 .. Len(r) : i \in Fields /\ r[i] \in Nat
      BY <2>1, StoreAssumption DEF OldReads, Fields
    <3> QED BY <2>1, <3>1, <1>1 DEF OldReads
  <2>2. ASSUME NEW m \in Message, OldMessage(m) PROVE OldMessage(m)'
    BY <2>2, <1>1 DEF OldMessage, Message
  <2>3. \A t \in Setters : OldReads(snapshot[t])'
    BY <2>1 DEF HubBounded, HubTypes
  <2>4. \A c \in Conns : OldReads(initial[c])' /\ OldMessage(told[c])'
    BY <2>1, <2>2 DEF HubBounded, HubTypes
  <2>5. \A i \in DOMAIN broadcast : OldMessage(broadcast[i])'
    BY <2>2 DEF HubBounded, HubTypes
  <2>6. message # NoMessage => OldMessage(message)'
    BY <2>2 DEF HubBounded, HubTypes
  <2> QED BY <2>3, <2>4, <2>5, <2>6 DEF HubBounded, OldReads, OldMessage
<1>4. Served'
  <2> SUFFICES ASSUME NEW c \in Conns \ missed, handler[c] \in {"initial", "read"}, NEW g \in Fields
               PROVE  (told[c][g] = store[g] \/ Sending(c, g))'
    BY DEF Served
  <2>1. CASE g = f
    <3>1. Newest(snapshot[s], f)'
      BY <1>1, StoreAssumption DEF Registered, Newest, Fields
    <3> QED BY <2>1, <3>1, <1>1 DEF Sending
  <2>2. CASE g # f
    <3>1. \A r : Newest(r, g) => Newest(r, g)'
      BY <1>1, <2>2 DEF Newest
    <3>2. Sending(c, g) => Sending(c, g)'
      BY <1>1, <2>2, <3>1 DEF Sending, Newest
    <3> QED BY <1>1, <2>2, <3>2 DEF Served
  <2> QED BY <2>1, <2>2
<1> QED BY <1>2, <1>3, <1>4

LEMMA BroadcastingKeepsHub ==
  ASSUME StoreTypes, DesktopInv, NEW s \in Setters, HubReads(s) \/ HubOffers(s)
  PROVE  DesktopInv'
<1> USE StoreAssumption DEF DesktopInv, storeVars, hubQueueVars, connVars, bufferVars
<1>1. CASE HubReads(s)
  <2> USE <1>1 DEF HubReads, Get
  <2> PICK q : q = Append(snapshot[s], store[Len(snapshot[s]) + 1])
    OBVIOUS
  <2>1. /\ q \in Seq(Nat) /\ OldReads(q)
        /\ \A f \in Fields : Newest(snapshot[s], f) => Newest(q, f)
    BY ReadNext DEF HubTypes, HubBounded
  <2>2. snapshot' = [snapshot EXCEPT ![s] = q]
    OBVIOUS
  <2> HIDE DEF HubReads
  <2>d. /\ setter[s] = "notify"
        /\ UNCHANGED <<storeVars, hubQueueVars, clients, connVars, bufferVars>>
    BY <1>1 DEF HubReads
  <2>3. HubTypes' /\ Registered'
    BY <2>1, <2>2, <2>d DEF HubTypes, Registered
  <2>4. HubBounded'
    <3>1. \A t \in Setters : OldReads(snapshot'[t])
      BY <2>1, <2>2 DEF HubBounded, HubTypes
    <3> QED BY <2>d, <3>1 DEF HubBounded, OldReads, OldMessage
  <2>5. Served'
    <3>1. ASSUME NEW c \in Conns, NEW f \in Fields, Sending(c, f) PROVE Sending(c, f)'
      <4>1. ASSUME NEW t \in Setters, setter[t] = "notify", Newest(snapshot[t], f)
            PROVE  Newest(snapshot'[t], f)
        BY <2>1, <2>2, <4>1 DEF HubTypes
      <4>2. \A r : Newest(r, f) => (Len(r) < f \/ r[f] = store'[f])
        BY <2>d DEF Newest
      <4> QED BY <3>1, <4>1, <4>2, <2>d DEF Sending, Newest
    <3> QED BY <2>d, <3>1 DEF Served
  <2> QED BY <2>3, <2>4, <2>5
<1>2. CASE HubOffers(s)
  <2>1. /\ store' = store /\ setter'[s] = "idle"
        /\ \A t \in Setters : t # s => setter'[t] = setter[t]
    BY <1>2, SetterIsDoneDoes DEF HubOffers
  <2> PICK m : m = snapshot[s]
    OBVIOUS
  <2>2. m \in Message /\ OldMessage(m) /\ OldReads(m) /\ Len(m) = NFields
    <3>1. m \in Seq(Nat) /\ Len(m) = NFields /\ OldReads(m)
      BY <1>2 DEF HubOffers, HubTypes, HubBounded
    <3> QED BY <3>1 DEF Message, Fields, OldReads, OldMessage
  <2>d. /\ snapshot' = [snapshot EXCEPT ![s] = << >>]
        /\ UNCHANGED <<message, targets, clients, connVars, told>>
    BY <1>2 DEF HubOffers
  <2>3. \/ broadcast' = Append(broadcast, m) /\ missed' = missed
        \/ broadcast' = broadcast /\ missed' = missed \cup clients
    BY <1>2 DEF HubOffers
  <2>4. /\ broadcast' \in Seq(Message)
        /\ \A i \in DOMAIN broadcast : i \in DOMAIN broadcast' /\ broadcast'[i] = broadcast[i]
        /\ \A i \in DOMAIN broadcast' : broadcast'[i] = m \/ (i \in DOMAIN broadcast /\ broadcast'[i] = broadcast[i])
        /\ missed' = missed \cup clients \/ (missed' = missed /\ \E i \in DOMAIN broadcast' : broadcast'[i] = m)
    <3>1. broadcast \in Seq(Message)
      BY DEF HubTypes
    <3>2. CASE broadcast' = Append(broadcast, m) /\ missed' = missed
      <4>1. broadcast' \in Seq(Message) /\ Len(broadcast') = Len(broadcast) + 1
            /\ broadcast'[Len(broadcast) + 1] = m
            /\ \A i \in 1 .. Len(broadcast) : broadcast'[i] = broadcast[i]
        BY <2>2, <3>1, <3>2
      <4>2. DOMAIN broadcast = 1 .. Len(broadcast) /\ DOMAIN broadcast' = 1 .. Len(broadcast) + 1
            /\ Len(broadcast) \in Nat
        BY <3>1, <4>1
      <4> QED BY <3>2, <4>1, <4>2
    <3> QED BY <2>3, <3>1, <3>2
  <2>5. HubTypes' /\ Registered'
    <3>1. snapshot' \in [Setters -> Seq(Nat)]
      BY <2>d DEF HubTypes
    <3>2. HubTypes'
      BY <2>4, <2>d, <3>1 DEF HubTypes
    <3>3. \A t \in Setters : setter'[t] = "idle" => snapshot'[t] = << >>
      BY <2>1, <2>d DEF Registered, HubTypes
    <3> QED BY <2>d, <3>2, <3>3 DEF Registered
  <2>6. HubBounded'
    <3>1. \A t \in Setters : OldReads(snapshot'[t])
      BY <2>d DEF HubBounded, HubTypes, OldReads
    <3>2. \A i \in DOMAIN broadcast' : OldMessage(broadcast'[i])
      BY <2>2, <2>4 DEF HubBounded
    <3> QED BY <2>1, <2>d, <3>1, <3>2 DEF HubBounded, OldReads, OldMessage
  <2>7. Served'
    <3> SUFFICES ASSUME NEW c \in Conns \ missed', handler[c] \in {"initial", "read"}, NEW f \in Fields
                 PROVE  (told[c][f] = store[f] \/ Sending(c, f))'
      BY <2>d DEF Served
    <3>1. c \notin missed /\ \E i \in DOMAIN broadcast' : broadcast'[i] = m
      BY <2>3, <2>4 DEF Registered
    <3>2. CASE Newest(m, f)
      <4>1. m[f] = store'[f]
        BY <3>2, <2>1, <2>2 DEF Newest, Fields
      <4> QED BY <4>1, <3>1 DEF Sending
    <3>3. CASE ~Newest(m, f) /\ Sending(c, f)
      <4>1. CASE \E t \in Setters : setter[t] = "notify" /\ Newest(snapshot[t], f)
        <5> PICK t \in Setters : setter[t] = "notify" /\ Newest(snapshot[t], f)
          BY <4>1
        <5>1. t # s
          BY <3>3
        <5>2. setter'[t] = "notify" /\ Newest(snapshot'[t], f)
          BY <5>1, <2>1, <2>d DEF HubTypes
        <5> QED BY <5>2, <2>1 DEF Sending, Newest
      <4>2. CASE \E i \in DOMAIN broadcast : broadcast[i][f] = store[f]
        BY <4>2, <2>1, <2>4 DEF Sending
      <4> QED BY <3>3, <4>1, <4>2, <2>1, <2>d DEF Sending, Newest
    <3> QED BY <3>1, <3>2, <3>3, <2>1, <2>d DEF Served
  <2> QED BY <2>5, <2>6, <2>7
<1> QED BY <1>1, <1>2

LEMMA HandingOutKeepsHub ==
  ASSUME StoreTypes, DesktopInv, HubStep
  PROVE  DesktopInv'
<1> USE HubAssumption DEF DesktopInv, storeVars, connVars, bufferVars
<1>1. CASE HubTakes
  <2>d. UNCHANGED <<storeVars, snapshot, targets, clients, connVars, bufferVars>> /\ message = NoMessage
    BY <1>1 DEF HubTakes
  <2>1. /\ broadcast \in Seq(Message) /\ broadcast # << >>
        /\ message' = Head(broadcast) /\ broadcast' = Tail(broadcast)
    BY <1>1 DEF HubTakes, HubTypes
  <2>2. /\ message' \in Message /\ message' = broadcast[1] /\ broadcast' \in Seq(Message)
        /\ Len(broadcast) \in Nat \ {0} /\ DOMAIN broadcast = 1 .. Len(broadcast)
        /\ DOMAIN broadcast' = 1 .. Len(broadcast) - 1
        /\ \A i \in 1 .. Len(broadcast) - 1 : broadcast'[i] = broadcast[i + 1]
    BY <2>1
  <2>3. message' # NoMessage
    BY <2>2 DEF Message
  <2>4. HubTypes' /\ Registered'
    BY <2>d, <2>2, <2>3 DEF HubTypes, Registered
  <2>5. HubBounded'
    <3>1. OldMessage(message') /\ \A i \in DOMAIN broadcast' : OldMessage(broadcast'[i])
      BY <2>2 DEF HubBounded
    <3> QED BY <2>d, <3>1 DEF HubBounded, OldReads, OldMessage
  <2>6. Served'
    <3>1. ASSUME NEW c \in Conns, NEW f \in Fields, Sending(c, f) PROVE Sending(c, f)'
      <4>1. CASE \E i \in DOMAIN broadcast : broadcast[i][f] = store[f]
        <5> PICK i \in DOMAIN broadcast : broadcast[i][f] = store[f]
          BY <4>1
        <5>1. CASE i = 1
          BY <5>1, <2>d, <2>2, <2>3 DEF Sending, Registered
        <5>2. CASE i # 1
          <6>1. i - 1 \in DOMAIN broadcast' /\ broadcast'[i - 1][f] = store'[f]
            BY <5>2, <2>d, <2>2
          <6> QED BY <6>1 DEF Sending
        <5> QED BY <5>1, <5>2
      <4> QED BY <3>1, <4>1, <2>d DEF Sending, Newest
    <3> QED BY <2>d, <3>1 DEF Served
  <2> QED BY <2>4, <2>5, <2>6
<1>2. CASE HubLists
  <2>d. /\ UNCHANGED <<storeVars, snapshot, broadcast, message, clients, connVars, bufferVars>>
        /\ targets = NoMessage /\ targets' = clients /\ message # NoMessage
    BY <1>2 DEF HubLists
  <2>1. HubTypes' /\ Registered' /\ HubBounded'
    BY <2>d DEF HubTypes, Registered, HubBounded, OldReads, OldMessage
  <2>2. Served'
    <3>1. ASSUME NEW c \in clients, NEW f \in Fields, Sending(c, f) PROVE Sending(c, f)'
      BY <2>d, <3>1 DEF Sending, Newest
    <3> QED BY <2>d, <3>1 DEF Served, Registered
  <2> QED BY <2>1, <2>2
<1>3. ASSUME NEW c \in Conns, HubSends(c) PROVE DesktopInv'
  <2>d. /\ UNCHANGED <<storeVars, snapshot, broadcast, message, clients, connVars>>
        /\ targets # NoMessage /\ c \in targets /\ targets' = targets \ {c}
    BY <1>3 DEF HubSends
  <2>1. message # NoMessage /\ message \in Message /\ OldMessage(message)
    BY <2>d DEF Registered, HubTypes, HubBounded
  <2>2. /\ told' \in [Conns -> Message]
        /\ \A d \in Conns : OldMessage(told'[d])
        /\ \A d \in Conns, f \in Fields : told[d][f] = store[f] => told'[d][f] = store[f]
        /\ missed \subseteq missed'
        /\ \/ handler[c] = "gone" \/ c \in missed'
           \/ \A f \in Fields : message[f] = store[f] => told'[c][f] = store[f]
    <3>1. CASE Buffer(c, message) /\ UNCHANGED missed
      BY <2>1, <3>1, BufferDoes DEF HubBounded
    <3>2. CASE UNCHANGED told /\ ((handler[c] = "gone" /\ UNCHANGED missed) \/ missed' = missed \cup {c})
      BY <3>2 DEF HubTypes, HubBounded
    <3> QED BY <1>3, <3>1, <3>2 DEF HubSends
  <2>3. HubTypes' /\ Registered'
    BY <2>d, <2>1, <2>2 DEF HubTypes, Registered
  <2>4. HubBounded'
    BY <2>d, <2>2 DEF HubBounded, OldReads, OldMessage
  <2>5. Served'
    <3> SUFFICES ASSUME NEW d \in Conns \ missed', handler[d] \in {"initial", "read"}, NEW f \in Fields
                 PROVE  (told[d][f] = store[f] \/ Sending(d, f))'
      BY <2>d DEF Served
    <3>1. told[d][f] = store[f] \/ Sending(d, f)
      BY <2>2 DEF Served
    <3>2. CASE told[d][f] = store[f]
      BY <2>2, <2>d, <3>2
    <3>3. CASE d = c /\ message[f] = store[f]
      BY <2>2, <2>d, <3>3
    <3>4. CASE Sending(d, f) /\ (d # c \/ message[f] # store[f])
      BY <3>4, <2>d DEF Sending, Newest
    <3> QED BY <3>1, <3>2, <3>3, <3>4
  <2> QED BY <2>3, <2>4, <2>5
<1>4. CASE HubIsDone
  <2>d. /\ UNCHANGED <<storeVars, snapshot, broadcast, clients, connVars, bufferVars>>
        /\ targets = {} /\ message' = NoMessage /\ targets' = NoMessage
    BY <1>4 DEF HubIsDone
  <2>1. HubTypes' /\ Registered' /\ HubBounded'
    BY <2>d DEF HubTypes, Registered, HubBounded, OldReads, OldMessage
  <2>2. Served'
    <3>1. ASSUME NEW c \in Conns, NEW f \in Fields, Sending(c, f) PROVE Sending(c, f)'
      BY <2>d, <3>1 DEF Sending, Newest
    <3> QED BY <2>d, <3>1 DEF Served
  <2> QED BY <2>1, <2>2
<1> QED BY <1>1, <1>2, <1>3, <1>4 DEF HubStep

LEMMA ClientsKeepHub ==
  ASSUME StoreTypes, DesktopInv, NEW c \in Conns,
         \/ ClientConnects(c) \/ InitialReads(c) \/ InitialSends(c) \/ ClientLeaves(c)
         \/ PeerCloses(c) \/ Writes(c) \/ WriteFails(c) \/ WriterStops(c)
  PROVE  DesktopInv'
<1> USE StoreAssumption DEF DesktopInv, storeVars, hubQueueVars, connVars, bufferVars
<1>1. CASE ClientConnects(c)
  <2>d. /\ UNCHANGED <<storeVars, snapshot, hubQueueVars, initial, bufferVars>>
        /\ handler[c] = "new" /\ handler' = [handler EXCEPT ![c] = "initial"]
        /\ clients' = clients \cup {c}
    BY <1>1 DEF ClientConnects
  <2>1. HubTypes' /\ Registered' /\ HubBounded'
    BY <2>d DEF HubTypes, Registered, HubBounded, OldReads, OldMessage
  <2>2. Served'
    <3>1. ASSUME NEW f \in Fields PROVE Sending(c, f)'
      BY <2>d DEF Sending, Newest, Registered, HubTypes, Fields
    <3>2. ASSUME NEW d \in Conns, d # c, NEW f \in Fields, Sending(d, f) PROVE Sending(d, f)'
      BY <2>d, <3>2 DEF Sending, Newest, HubTypes
    <3> QED BY <2>d, <3>1, <3>2 DEF Served, HubTypes
  <2> QED BY <2>1, <2>2
<1>2. CASE InitialReads(c)
  <2> PICK q : q = Append(initial[c], store[Len(initial[c]) + 1])
    OBVIOUS
  <2>d. /\ UNCHANGED <<storeVars, snapshot, hubQueueVars, clients, handler, bufferVars>>
        /\ handler[c] = "initial" /\ Len(initial[c]) < NFields
        /\ initial' = [initial EXCEPT ![c] = q]
    BY <1>2 DEF InitialReads, Get
  <2>1. /\ q \in Seq(Nat) /\ OldReads(q)
        /\ \A f \in Fields : Newest(initial[c], f) => Newest(q, f)
    BY <2>d, ReadNext DEF HubTypes, HubBounded
  <2>2. HubTypes' /\ Registered'
    BY <2>1, <2>d DEF HubTypes, Registered
  <2>3. HubBounded'
    <3>1. \A d \in Conns : OldReads(initial'[d])
      BY <2>1, <2>d DEF HubBounded, HubTypes
    <3> QED BY <2>d, <3>1 DEF HubBounded, OldReads, OldMessage
  <2>4. Served'
    <3>1. ASSUME NEW d \in Conns, NEW f \in Fields, Sending(d, f) PROVE Sending(d, f)'
      <4>1. Newest(initial[d], f) => Newest(initial'[d], f)
        BY <2>1, <2>d DEF HubTypes
      <4> QED BY <3>1, <4>1, <2>d DEF Sending, Newest
    <3> QED BY <2>d, <3>1 DEF Served
  <2> QED BY <2>2, <2>3, <2>4
<1>3. CASE InitialSends(c)
  <2> PICK m : m = initial[c]
    OBVIOUS
  <2>d. /\ UNCHANGED <<storeVars, snapshot, hubQueueVars, clients, missed>>
        /\ handler[c] = "initial" /\ handler' = [handler EXCEPT ![c] = "read"]
        /\ initial' = [initial EXCEPT ![c] = << >>]
        /\ Len(m) = NFields /\ Buffer(c, m)
    BY <1>3 DEF InitialSends
  <2>1. m \in Message /\ OldMessage(m)
    <3>1. m \in Seq(Nat) /\ Len(m) = NFields /\ OldReads(m)
      BY <2>d DEF HubTypes, HubBounded
    <3> QED BY <3>1 DEF Message, Fields, OldReads, OldMessage
  <2>2. /\ told' \in [Conns -> Message] /\ OldMessage(told'[c])
        /\ \A d \in Conns : d # c => told'[d] = told[d]
        /\ \A f \in Fields : told[c][f] = store[f] \/ m[f] = store[f] => told'[c][f] = store[f]
    BY <2>d, <2>1, BufferDoes
  <2>3. HubTypes' /\ Registered'
    BY <2>2, <2>d DEF HubTypes, Registered
  <2>4. HubBounded'
    <3>1. \A d \in Conns : OldReads(initial'[d]) /\ OldMessage(told'[d])
      BY <2>2, <2>d DEF HubBounded, HubTypes, OldReads
    <3> QED BY <2>d, <3>1 DEF HubBounded, OldReads, OldMessage
  <2>5. Served'
    <3>1. ASSUME NEW d \in Conns, d # c, NEW f \in Fields, Sending(d, f) PROVE Sending(d, f)'
      BY <2>d, <3>1 DEF Sending, Newest, HubTypes
    <3>2. ASSUME NEW f \in Fields, told[c][f] = store[f] \/ Sending(c, f)
          PROVE  (told[c][f] = store[f] \/ Sending(c, f))'
      <4>1. CASE told[c][f] = store[f]
        BY <2>2, <2>d, <4>1
      <4>2. CASE Newest(m, f)
        <5>1. m[f] = store[f]
          BY <4>2, <2>d DEF Newest, Fields
        <5> QED BY <5>1, <2>2, <2>d
      <4>3. CASE ~Newest(m, f) /\ Sending(c, f)
        BY <4>3, <2>d DEF Sending, Newest, HubTypes
      <4> QED BY <3>2, <4>1, <4>2, <4>3
    <3>3. ASSUME NEW d \in Conns \ missed, handler'[d] \in {"initial", "read"}
          PROVE  handler[d] \in {"initial", "read"}
      BY <2>d, <3>3 DEF HubTypes
    <3> QED BY <2>d, <2>2, <3>1, <3>2, <3>3 DEF Served
  <2> QED BY <2>3, <2>4, <2>5
<1>4. CASE ClientLeaves(c)
  <2>d. /\ UNCHANGED <<storeVars, snapshot, hubQueueVars, initial, bufferVars>>
        /\ handler' = [handler EXCEPT ![c] = "gone"]
        /\ clients' = clients \ {c}
    BY <1>4 DEF ClientLeaves
  <2>1. HubTypes' /\ Registered' /\ HubBounded'
    BY <2>d DEF HubTypes, Registered, HubBounded, OldReads, OldMessage
  <2>2. Served'
    <3>1. ASSUME NEW d \in Conns, d # c, NEW f \in Fields, Sending(d, f) PROVE Sending(d, f)'
      BY <2>d, <3>1 DEF Sending, Newest, HubTypes
    <3> QED BY <2>d, <3>1 DEF Served, HubTypes
  <2> QED BY <2>1, <2>2
<1>5. CASE PeerCloses(c) \/ Writes(c) \/ WriteFails(c) \/ WriterStops(c)
  <2>d. UNCHANGED <<storeVars, snapshot, hubQueueVars, clients, handler, initial, told, missed>>
    BY <1>5 DEF PeerCloses, Writes, WriteFails, WriterStops
  <2>1. HubTypes' /\ Registered' /\ HubBounded'
    BY <2>d DEF HubTypes, Registered, HubBounded, OldReads, OldMessage
  <2>2. Served'
    <3>1. ASSUME NEW d \in Conns, NEW f \in Fields, Sending(d, f) PROVE Sending(d, f)'
      BY <2>d, <3>1 DEF Sending, Newest
    <3> QED BY <2>d, <3>1 DEF Served
  <2> QED BY <2>1, <2>2
<1> QED BY <1>1, <1>2, <1>3, <1>4, <1>5

LEMMA HubInductive == EngineInv /\ HubInv /\ [Next]_vars => HubInv'
<1> SUFFICES ASSUME EngineInv, HubInv, [Next]_vars PROVE HubInv'
  OBVIOUS
<1>1. StoreTypes
  BY DEF EngineInv
<1>2. CASE UNCHANGED vars
  <2> USE <1>2 DEF vars, storeVars, hubVars, hubQueueVars, connVars, bufferVars
  <2>1. ASSUME DesktopInv PROVE DesktopInv'
    <3>1. \A c, f : Sending(c, f) <=> Sending(c, f)'
      BY DEF Sending, Newest
    <3>2. HubTypes' /\ Registered' /\ HubBounded'
      BY <2>1 DEF DesktopInv, HubTypes, Registered, HubBounded, OldReads, OldMessage
    <3> QED BY <2>1, <3>1, <3>2 DEF DesktopInv, Served
  <2> QED BY <2>1 DEF HubInv
<1>3. CASE platform = "desktop" /\ HubNext /\ UNCHANGED platform
  <2> USE <1>1, <1>3 DEF HubInv
  <2>1. ASSUME NEW s \in Setters, NEW f \in Fields, Set(s, f), UNCHANGED hubVars PROVE DesktopInv'
    BY <2>1, StoringKeepsHub
  <2>2. ASSUME NEW s \in Setters, HubReads(s) \/ HubOffers(s) PROVE DesktopInv'
    BY <2>2, BroadcastingKeepsHub
  <2>3. ASSUME HubStep PROVE DesktopInv'
    BY <2>3, HandingOutKeepsHub
  <2>4. ASSUME NEW c \in Conns,
               \/ ClientConnects(c) \/ InitialReads(c) \/ InitialSends(c) \/ ClientLeaves(c)
               \/ PeerCloses(c) \/ Writes(c) \/ WriteFails(c) \/ WriterStops(c)
        PROVE  DesktopInv'
    BY <2>4, ClientsKeepHub
  <2> QED BY <2>1, <2>2, <2>3, <2>4 DEF HubNext
<1>4. CASE platform = "android" /\ UNCHANGED hubVars /\ UNCHANGED platform
  BY <1>4 DEF HubInv, hubVars, connVars
<1> QED BY <1>2, <1>3, <1>4 DEF Next

\* Whatever order the setters' callbacks run in, and whenever a client connects between
\* its snapshot and theirs, it is told the newest value of every field, unless a full
\* queue or buffer dropped a message to it.
THEOREM ClientsInformed == Spec => []FinalValueReachesClients
<1>1. EngineInv /\ HubInv => FinalValueReachesClients
  <2> SUFFICES ASSUME EngineInv, HubInv, SettersIdle, broadcast = << >>, message = NoMessage,
                      NEW c \in Conns \ missed, handler[c] = "read"
               PROVE  told[c] = store
    BY DEF FinalValueReachesClients
  <2>1. DesktopInv
    BY DEF HubInv
  <2>2. ASSUME NEW f \in Fields PROVE told[c][f] = store[f]
    <3>1. ~Sending(c, f)
      BY DEF Sending, SettersIdle
    <3> QED BY <2>1, <3>1 DEF DesktopInv, Served
  <2>3. told[c] \in [Fields -> Nat] /\ store \in [Fields -> Nat]
    BY <2>1 DEF DesktopInv, HubTypes, Message, EngineInv, StoreTypes
  <2> QED BY <2>2, <2>3
<1> QED BY EngineInitHolds, EngineInductive, HubInitHolds, HubInductive, <1>1, PTL DEF Spec
-----------------------------------------------------------------------------
(* The types, with the bounds of the queues                                *)

\* The stores that have been made bound every value; a snapshot is a prefix of a full one.
Counted == \A f \in Fields : store[f] <= stores

TypeInv == TypeOK /\ Counted

LEMMA PartialReads ==
  ASSUME NEW r \in Partial
  PROVE  /\ r \in Seq(Versions) /\ Len(r) \in 0 .. NFields /\ r \in [1 .. Len(r) -> Versions]
         /\ Len(r) = NFields => r \in Snapshots
<1> USE StoreAssumption
<1> PICK n \in 0 .. NFields : r \in [1 .. n -> Versions]
  BY DEF Partial
<1>1. r \in Seq(Versions) /\ Len(r) = n
  OBVIOUS
<1> QED BY <1>1 DEF Snapshots, Fields

LEMMA SeqIsFunction ==
  ASSUME NEW S, NEW q \in Seq(S)
  PROVE  q \in [1 .. Len(q) -> S]
OBVIOUS

LEMMA PartialAppend ==
  ASSUME NEW r \in Partial, Len(r) < NFields, NEW v \in Versions
  PROVE  Append(r, v) \in Partial
<1> USE StoreAssumption
<1>1. r \in Seq(Versions) /\ Len(r) \in 0 .. NFields
  BY PartialReads
<1> PICK q : q = Append(r, v)
  OBVIOUS
<1>2. q \in Seq(Versions) /\ Len(q) = Len(r) + 1
  BY <1>1
<1>3. q \in [1 .. Len(q) -> Versions]
  BY <1>2, SeqIsFunction
<1>4. Len(q) \in 0 .. NFields
  BY <1>1, <1>2
<1> QED BY <1>3, <1>4 DEF Partial

LEMMA NoReads == << >> \in Partial
<1>1. << >> \in [1 .. 0 -> Versions] /\ 0 \in 0 .. NFields
  BY StoreAssumption
<1> QED BY <1>1 DEF Partial

LEMMA MaxOfVersions ==
  ASSUME NEW a \in Versions, NEW b \in Versions
  PROVE  Max({a, b}) \in Versions
BY MaxOfTwo DEF Versions

\* A queue that takes one more element, or gives its first away, keeps its type.
LEMMA QueueTakes ==
  ASSUME NEW S, NEW q \in Seq(S), NEW e \in S, NEW n \in Nat, Len(q) < n
  PROVE  Append(q, e) \in Seq(S) /\ Len(Append(q, e)) <= n
OBVIOUS

LEMMA QueueGives ==
  ASSUME NEW S, NEW q \in Seq(S), q # << >>
  PROVE  Head(q) \in S /\ Tail(q) \in Seq(S) /\ Len(Tail(q)) <= Len(q)
OBVIOUS

LEMMA TypesInit == Init => TypeInv
<1> SUFFICES ASSUME Init PROVE TypeInv
  OBVIOUS
<1> USE StoreAssumption, HubAssumption, EngineAssumption DEF Init
<1>1. 0 \in Versions /\ 1 \in Fields
  BY DEF Versions, Fields
<1>2. HubTypeOK
  <2>1. << >> \in Seq(Snapshots) /\ Len(<< >>) = 0 /\ [f \in Fields |-> 0] \in Snapshots
    BY <1>1 DEF Snapshots
  <2>2. send \in [Conns -> Seq(Snapshots)] /\ \A c \in Conns : Len(send[c]) <= SendDepth
    BY <2>1 DEF HubInit
  <2>3. told \in [Conns -> Snapshots] /\ broadcast \in Seq(Snapshots) /\ Len(broadcast) <= QueueDepth
    BY <2>1 DEF HubInit
  <2>4. snapshot \in [Setters -> Partial] /\ initial \in [Conns -> Partial]
    BY NoReads DEF HubInit
  <2>5. /\ handler \in [Conns -> {"new", "initial", "read", "gone"}]
        /\ writer \in [Conns -> {"none", "run", "gone"}]
    BY DEF HubInit
  <2>6. /\ message \in Snapshots \cup {NoMessage} /\ targets \in (SUBSET Conns) \cup {NoMessage}
        /\ clients \in SUBSET Conns /\ open \in SUBSET Conns /\ missed \in SUBSET Conns
    BY DEF HubInit
  <2> QED BY <2>2, <2>3, <2>4, <2>5, <2>6 DEF HubTypeOK
<1>3. EngineTypeOK
  <2>1. << >> \in Seq(Events) /\ Len(<< >>) = 0 /\ <<1, 0>> \in Fields \X Versions
    BY <1>1
  <2>2. status \in [Starters -> Fields \X Versions]
    BY <2>1 DEF EngineInit
  <2>3. dispatchCh \in Seq(Events) /\ Len(dispatchCh) <= DispatchDepth
    BY <2>1 DEF EngineInit
  <2> QED BY <1>1, <2>2, <2>3 DEF EngineInit, EngineTypeOK
<1> QED BY <1>1, <1>2, <1>3 DEF TypeInv, TypeOK, Counted, StoreInit

LEMMA SetKeepsTypes ==
  ASSUME TypeInv, NEW s \in Setters, NEW f \in Fields, Set(s, f), UNCHANGED <<hubVars, engineVars>>
  PROVE  TypeInv'
<1> USE StoreAssumption DEF TypeInv, TypeOK
<1>1. /\ stores \in Nat /\ stores < MaxStores /\ stores' = stores + 1 /\ stores' \in Versions
      /\ store' = [store EXCEPT ![f] = @ + 1]
      /\ setter' = [setter EXCEPT ![s] = "notify"]
      /\ arg' = [arg EXCEPT ![s] = <<f, store[f] + 1>>]
  BY DEF Set, Versions
<1>2. \A g \in Fields : store[g] \in Nat /\ store[g] <= stores
  BY DEF Counted, Versions
<1>3. store[f] + 1 \in Versions
  BY <1>1, <1>2 DEF Versions
<1>4. store' \in [Fields -> Versions] /\ Counted'
  BY <1>1, <1>2, <1>3 DEF Counted
<1>5. arg' \in [Setters -> Fields \X Versions] /\ setter' \in [Setters -> {"idle", "notify"}]
  BY <1>1, <1>3
<1>6. HubTypeOK'
  BY DEF hubVars, hubQueueVars, connVars, bufferVars, HubTypeOK
<1>7. EngineTypeOK'
  BY DEF engineVars, startVars, dispatchVars, EngineTypeOK
<1> QED BY <1>1, <1>4, <1>5, <1>6, <1>7

\* The store's part, for the steps that store nothing.
LEMMA StoringNothing ==
  ASSUME TypeInv,
         UNCHANGED storeVars \/ (\E s \in Setters : SetterIsDone(s))
  PROVE  /\ store' \in [Fields -> Versions] /\ stores' \in Versions
         /\ setter' \in [Setters -> {"idle", "notify"}]
         /\ arg' \in [Setters -> Fields \X Versions]
         /\ Counted'
<1> USE StoreAssumption DEF TypeInv, TypeOK
<1>1. CASE UNCHANGED storeVars
  BY <1>1 DEF storeVars, Counted
<1>2. ASSUME NEW s \in Setters, SetterIsDone(s)
      PROVE  /\ UNCHANGED <<store, stores>>
             /\ setter' \in [Setters -> {"idle", "notify"}]
             /\ arg' \in [Setters -> Fields \X Versions]
  <2>1. <<1, 0>> \in Fields \X Versions
    BY DEF Fields, Versions
  <2> QED BY <1>2, <2>1 DEF SetterIsDone
<1> QED BY <1>1, <1>2 DEF Counted

LEMMA BroadcastTypes ==
  ASSUME TypeInv, NEW s \in Setters, HubReads(s) \/ HubOffers(s)
  PROVE  HubTypeOK'
<1> USE HubAssumption DEF TypeInv, TypeOK, HubTypeOK
<1>1. CASE HubReads(s)
  <2>1. UNCHANGED <<storeVars, hubQueueVars, clients, connVars, bufferVars>> /\ Len(snapshot[s]) < NFields
    BY <1>1 DEF HubReads
  <2>2. snapshot[s] \in Partial /\ Len(snapshot[s]) \in 0 .. NFields
    BY PartialReads
  <2>3. store[Len(snapshot[s]) + 1] \in Versions
    BY <2>1, <2>2, StoreAssumption DEF Fields
  <2> PICK q : q = Append(snapshot[s], store[Len(snapshot[s]) + 1])
    OBVIOUS
  <2>4. q \in Partial /\ snapshot' = [snapshot EXCEPT ![s] = q]
    BY <1>1, <2>1, <2>2, <2>3, PartialAppend DEF HubReads, Get
  <2>5. snapshot' \in [Setters -> Partial]
    BY <2>4
  <2> QED BY <2>1, <2>5 DEF hubQueueVars, connVars, bufferVars
<1>2. CASE HubOffers(s)
  <2>1. UNCHANGED <<message, targets, clients, connVars, send, told>> /\ Len(snapshot[s]) = NFields
    BY <1>2 DEF HubOffers
  <2>2. snapshot[s] \in Snapshots
    BY <2>1, PartialReads
  <2>3. snapshot' \in [Setters -> Partial]
    BY <1>2, NoReads DEF HubOffers
  <2>4. broadcast' \in Seq(Snapshots) /\ Len(broadcast') <= QueueDepth /\ missed' \in SUBSET Conns
    <3> PICK m \in Snapshots : m = snapshot[s]
      BY <2>2
    <3>1. CASE Len(broadcast) < QueueDepth
      <4>1. broadcast' = Append(broadcast, m) /\ missed' = missed
        BY <1>2, <3>1 DEF HubOffers
      <4> QED BY <3>1, <4>1, QueueTakes
    <3>2. CASE ~(Len(broadcast) < QueueDepth)
      BY <1>2, <3>2 DEF HubOffers
    <3> QED BY <3>1, <3>2
  <2> QED BY <2>1, <2>3, <2>4 DEF connVars
<1> QED BY <1>1, <1>2

LEMMA BufferTypes ==
  ASSUME TypeInv, NEW c \in Conns, NEW m \in Snapshots, Len(send[c]) < SendDepth, Buffer(c, m)
  PROVE  /\ send' \in [Conns -> Seq(Snapshots)] /\ (\A d \in Conns : Len(send'[d]) <= SendDepth)
         /\ told' \in [Conns -> Snapshots]
<1> USE HubAssumption DEF TypeInv, TypeOK, HubTypeOK
<1> PICK q : q = Append(send[c], m)
  OBVIOUS
<1>1. q \in Seq(Snapshots) /\ Len(q) <= SendDepth
  BY QueueTakes
<1>2. send' = [send EXCEPT ![c] = q]
  BY DEF Buffer
<1>3. told' = [told EXCEPT ![c] = [f \in Fields |-> Max({told[c][f], m[f]})]]
  BY DEF Buffer
<1>4. \A f \in Fields : Max({told[c][f], m[f]}) \in Versions
  BY MaxOfVersions DEF Snapshots
<1>5. [f \in Fields |-> Max({told[c][f], m[f]})] \in Snapshots
  BY <1>4 DEF Snapshots
<1>6. told' \in [Conns -> Snapshots]
  BY <1>3, <1>5
<1> QED BY <1>1, <1>2, <1>6

LEMMA HubStepTypes ==
  ASSUME TypeInv, Registered, HubStep
  PROVE  HubTypeOK'
<1> USE HubAssumption DEF TypeInv, TypeOK, HubTypeOK, storeVars, connVars, bufferVars
<1>1. CASE HubTakes
  <2>1. /\ UNCHANGED <<storeVars, snapshot, targets, clients, connVars, bufferVars>>
        /\ broadcast # << >> /\ message' = Head(broadcast) /\ broadcast' = Tail(broadcast)
    BY <1>1 DEF HubTakes
  <2>2. message' \in Snapshots /\ broadcast' \in Seq(Snapshots) /\ Len(broadcast') <= Len(broadcast)
    BY <2>1, QueueGives
  <2>3. Len(broadcast') <= QueueDepth
    BY <2>2
  <2> QED BY <2>1, <2>2, <2>3
<1>2. CASE HubLists
  BY <1>2 DEF HubLists
<1>3. ASSUME NEW c \in Conns, HubSends(c) PROVE HubTypeOK'
  <2>1. /\ UNCHANGED <<storeVars, snapshot, broadcast, message, clients, connVars>>
        /\ targets # NoMessage /\ targets' = targets \ {c}
    BY <1>3 DEF HubSends
  <2>2. message \in Snapshots /\ targets' \in SUBSET Conns
    BY <2>1 DEF Registered
  <2>3. CASE Len(send[c]) < SendDepth /\ Buffer(c, message) /\ UNCHANGED missed
    <3>1. /\ send' \in [Conns -> Seq(Snapshots)] /\ (\A d \in Conns : Len(send'[d]) <= SendDepth)
          /\ told' \in [Conns -> Snapshots]
      BY <2>2, <2>3, BufferTypes
    <3> QED BY <2>1, <2>2, <2>3, <3>1
  <2>4. CASE UNCHANGED <<send, told>> /\ missed' \in SUBSET Conns
    BY <2>1, <2>2, <2>4
  <2> QED BY <1>3, <2>3, <2>4 DEF HubSends
<1>4. CASE HubIsDone
  BY <1>4 DEF HubIsDone
<1> QED BY <1>1, <1>2, <1>3, <1>4 DEF HubStep

LEMMA ClientTypes ==
  ASSUME TypeInv, NEW c \in Conns,
         \/ ClientConnects(c) \/ InitialReads(c) \/ InitialSends(c) \/ ClientLeaves(c)
         \/ PeerCloses(c) \/ Writes(c) \/ WriteFails(c) \/ WriterStops(c)
  PROVE  HubTypeOK'
<1> USE HubAssumption DEF TypeInv, TypeOK, HubTypeOK, storeVars, hubQueueVars, connVars, bufferVars
<1>1. CASE ClientConnects(c)
  BY <1>1 DEF ClientConnects
<1>2. CASE InitialReads(c)
  <2>1. /\ UNCHANGED <<storeVars, snapshot, hubQueueVars, clients, handler, writer, open, bufferVars>>
        /\ Len(initial[c]) < NFields
    BY <1>2 DEF InitialReads
  <2>2. initial[c] \in Partial /\ Len(initial[c]) \in 0 .. NFields
    BY PartialReads
  <2>3. store[Len(initial[c]) + 1] \in Versions
    BY <2>1, <2>2, StoreAssumption DEF Fields
  <2> PICK q : q = Append(initial[c], store[Len(initial[c]) + 1])
    OBVIOUS
  <2>4. q \in Partial /\ initial' = [initial EXCEPT ![c] = q]
    BY <1>2, <2>1, <2>2, <2>3, PartialAppend DEF InitialReads, Get
  <2>5. initial' \in [Conns -> Partial]
    BY <2>4
  <2> QED BY <2>1, <2>5
<1>3. CASE InitialSends(c)
  <2>1. /\ UNCHANGED <<storeVars, snapshot, hubQueueVars, clients, writer, open, missed>>
        /\ handler' = [handler EXCEPT ![c] = "read"] /\ initial' = [initial EXCEPT ![c] = << >>]
        /\ Len(initial[c]) = NFields /\ Len(send[c]) < SendDepth /\ Buffer(c, initial[c])
    BY <1>3 DEF InitialSends
  <2>2. initial[c] \in Snapshots /\ initial' \in [Conns -> Partial]
    BY <2>1, PartialReads, NoReads
  <2>3. /\ send' \in [Conns -> Seq(Snapshots)] /\ (\A d \in Conns : Len(send'[d]) <= SendDepth)
        /\ told' \in [Conns -> Snapshots]
    BY <2>1, <2>2, BufferTypes
  <2>4. handler' \in [Conns -> {"new", "initial", "read", "gone"}]
    BY <2>1
  <2> QED BY <2>1, <2>2, <2>3, <2>4
<1>4. CASE ClientLeaves(c)
  BY <1>4 DEF ClientLeaves
<1>5. CASE PeerCloses(c)
  BY <1>5 DEF PeerCloses
<1>6. CASE Writes(c) \/ WriteFails(c)
  <2>1. /\ UNCHANGED <<storeVars, snapshot, hubQueueVars, clients, handler, initial, told, missed>>
        /\ send[c] # << >> /\ send' = [send EXCEPT ![c] = Tail(@)]
        /\ writer' \in [Conns -> {"none", "run", "gone"}] /\ open' \in SUBSET Conns
    BY <1>6 DEF Writes, WriteFails
  <2> PICK q : q = Tail(send[c])
    OBVIOUS
  <2>2. q \in Seq(Snapshots) /\ Len(q) <= Len(send[c])
    BY <2>1, QueueGives
  <2>3. Len(q) <= SendDepth
    BY <2>2
  <2>4. send' \in [Conns -> Seq(Snapshots)] /\ \A d \in Conns : Len(send'[d]) <= SendDepth
    BY <2>1, <2>2, <2>3
  <2> QED BY <2>1, <2>4
<1>7. CASE WriterStops(c)
  BY <1>7 DEF WriterStops
<1> QED BY <1>1, <1>2, <1>3, <1>4, <1>5, <1>6, <1>7

LEMMA HubTypesInductive ==
  ASSUME TypeInv, Registered, HubNext, UNCHANGED engineVars
  PROVE  TypeInv'
<1>1. ASSUME NEW s \in Setters, NEW f \in Fields, Set(s, f), UNCHANGED hubVars PROVE TypeInv'
  BY <1>1, SetKeepsTypes
<1>2. ASSUME HubTypeOK', UNCHANGED storeVars \/ (\E s \in Setters : SetterIsDone(s)) PROVE TypeInv'
  <2>1. EngineTypeOK'
    BY DEF TypeInv, TypeOK, engineVars, startVars, dispatchVars, EngineTypeOK
  <2> QED BY <1>2, <2>1, StoringNothing DEF TypeInv, TypeOK
<1>3. ASSUME NEW s \in Setters, HubReads(s) \/ HubOffers(s) PROVE TypeInv'
  BY <1>2, <1>3, BroadcastTypes DEF HubReads, HubOffers
<1>4. CASE HubStep
  BY <1>2, <1>4, HubStepTypes DEF HubStep, HubTakes, HubLists, HubSends, HubIsDone
<1>5. ASSUME NEW c \in Conns,
             \/ ClientConnects(c) \/ InitialReads(c) \/ InitialSends(c) \/ ClientLeaves(c)
             \/ PeerCloses(c) \/ Writes(c) \/ WriteFails(c) \/ WriterStops(c)
      PROVE  TypeInv'
  <2>1. UNCHANGED storeVars
    BY <1>5 DEF ClientConnects, InitialReads, InitialSends, ClientLeaves, PeerCloses, Writes, WriteFails,
       WriterStops
  <2> QED BY <1>2, <1>5, <2>1, ClientTypes
<1> QED BY <1>1, <1>3, <1>4, <1>5 DEF HubNext

LEMMA OfferTypes ==
  ASSUME TypeInv, NEW e \in Events, Offer(e)
  PROVE  dispatchCh' \in Seq(Events) /\ Len(dispatchCh') <= DispatchDepth /\ lost' \in BOOLEAN
<1> USE EngineAssumption DEF TypeInv, TypeOK, EngineTypeOK
<1>1. CASE Len(dispatchCh) < DispatchDepth
  <2>1. dispatchCh' = Append(dispatchCh, e) /\ lost' = lost
    BY <1>1 DEF Offer
  <2>2. Append(dispatchCh, e) \in Seq(Events) /\ Len(Append(dispatchCh, e)) <= DispatchDepth
    BY <1>1, QueueTakes
  <2> QED BY <2>1, <2>2
<1>2. CASE ~(Len(dispatchCh) < DispatchDepth)
  BY <1>2 DEF Offer
<1> QED BY <1>1, <1>2

LEMMA DispatchTypes ==
  ASSUME TypeInv, Dispatches \/ LoadsListener \/ ListenerReturns
  PROVE  EngineTypeOK'
<1> USE EngineAssumption DEF TypeInv, TypeOK, EngineTypeOK, startVars
<1>0. NoEvent \notin Events \X (Starters \cup {NoEvent})
  BY DEF Events, Versions
<1>1. CASE Dispatches
  <2>1. /\ UNCHANGED <<startVars, heard, lost>>
        /\ dispatchCh # << >> /\ item' = <<Head(dispatchCh), NoEvent>> /\ dispatchCh' = Tail(dispatchCh)
    BY <1>1 DEF Dispatches
  <2>2. Head(dispatchCh) \in Events /\ dispatchCh' \in Seq(Events) /\ Len(dispatchCh') <= Len(dispatchCh)
    BY <2>1, QueueGives
  <2>3. Len(dispatchCh') <= DispatchDepth
    BY <2>2
  <2> QED BY <2>1, <2>2, <2>3
<1>2. CASE LoadsListener
  BY <1>2 DEF LoadsListener
<1>3. CASE ListenerReturns
  <2>1. item[1][1] \in Fields /\ item[1][2] \in Versions /\ heard[item[1][1]] \in Versions
    BY <1>3 DEF ListenerReturns, Events
  <2>2. Max({heard[item[1][1]], item[1][2]}) \in Versions
    BY <2>1, MaxOfVersions
  <2>3. heard' \in [Fields -> Versions]
    BY <1>3, <2>1, <2>2 DEF ListenerReturns
  <2> QED BY <1>3, <2>3 DEF ListenerReturns
<1> QED BY <1>1, <1>2, <1>3

LEMMA StartTypes ==
  ASSUME TypeInv, NEW k \in Starters,
         Attaches(k) \/ Builds(k) \/ Reattaches(k) \/ ReadsStatus(k) \/ EmitsStatus(k)
  PROVE  EngineTypeOK'
<1> USE EngineAssumption DEF TypeInv, TypeOK, EngineTypeOK, dispatchVars
<1>0. 0 \in Versions /\ 1 \in Fields
  BY StoreAssumption DEF Versions, Fields
<1>1. CASE Attaches(k)
  BY <1>1 DEF Attaches, StartGoes
<1>2. CASE Builds(k)
  <2>1. heard' \in [Fields -> Versions] /\ observers' \in Nat /\ listener' \in Starters \cup {NoEvent}
    BY <1>0, <1>2 DEF Builds, SetListener
  <2>2. start' \in [Starters -> {"new", "reattach", "build", "fresh", "read", "emit", "done"}]
    BY <1>2 DEF Builds, StartGoes
  <2> QED BY <1>2, <2>1, <2>2 DEF Builds, SetListener
<1>3. CASE Reattaches(k)
  BY <1>0, <1>3 DEF Reattaches, StartGoes, SetListener
<1>4. CASE ReadsStatus(k)
  <2>1. <<status[k][1], store[status[k][1]]>> \in Fields \X Versions
    OBVIOUS
  <2> QED BY <1>4, <2>1 DEF ReadsStatus, StartGoes, Get
<1>5. CASE EmitsStatus(k)
  <2>1. status[k] \in Events /\ status[k][1] \in Fields
    BY DEF Events
  <2>2. dispatchCh' \in Seq(Events) /\ Len(dispatchCh') <= DispatchDepth /\ lost' \in BOOLEAN
    BY <1>5, <2>1, OfferTypes DEF EmitsStatus
  <2>3. status[k][1] # NFields => <<status[k][1] + 1, 0>> \in Fields \X Versions
    BY <1>0, <2>1, StoreAssumption DEF Fields
  <2>4. PICK next \in {"done", "read", "fresh"}, read \in Fields \X Versions :
          start' = [start EXCEPT ![k] = next] /\ status' = [status EXCEPT ![k] = read]
    <3>1. CASE status[k][1] = NFields
      <4>1. <<1, 0>> \in Fields \X Versions
        BY <1>0
      <4> QED BY <1>5, <3>1, <4>1 DEF EmitsStatus, StartGoes
    <3>2. CASE status[k][1] # NFields
      BY <1>5, <2>3, <3>2 DEF EmitsStatus, StartGoes
    <3> QED BY <3>1, <3>2
  <2>5. /\ status' \in [Starters -> Fields \X Versions]
        /\ start' \in [Starters -> {"new", "reattach", "build", "fresh", "read", "emit", "done"}]
    BY <2>4
  <2> QED BY <1>5, <2>2, <2>5 DEF EmitsStatus
<1> QED BY <1>1, <1>2, <1>3, <1>4, <1>5

LEMMA EngineTypesInductive ==
  ASSUME TypeInv, EngineNext, UNCHANGED hubVars
  PROVE  TypeInv'
<1> USE DEF startVars, dispatchVars
<1>1. ASSUME NEW s \in Setters, NEW f \in Fields, Set(s, f), UNCHANGED engineVars PROVE TypeInv'
  BY <1>1, SetKeepsTypes
<1>2. ASSUME EngineTypeOK', UNCHANGED storeVars \/ (\E s \in Setters : SetterIsDone(s)) PROVE TypeInv'
  <2>1. HubTypeOK'
    BY DEF TypeInv, TypeOK, hubVars, hubQueueVars, connVars, bufferVars, HubTypeOK
  <2> QED BY <1>2, <2>1, StoringNothing DEF TypeInv, TypeOK
<1>3. ASSUME NEW s \in Setters, EngineObserves(s) PROVE TypeInv'
  <2>1. arg[s] \in Events
    BY DEF TypeInv, TypeOK, Events
  <2>2. dispatchCh' \in Seq(Events) /\ Len(dispatchCh') <= DispatchDepth /\ lost' \in BOOLEAN
    BY <1>3, <2>1, OfferTypes DEF EngineObserves
  <2>3. EngineTypeOK'
    BY <1>3, <2>2 DEF EngineObserves, TypeInv, TypeOK, EngineTypeOK
  <2> QED BY <1>2, <1>3, <2>3 DEF EngineObserves
<1>4. CASE Dispatches \/ LoadsListener \/ ListenerReturns
  BY <1>2, <1>4, DispatchTypes DEF Dispatches, LoadsListener, ListenerReturns
<1>5. ASSUME NEW k \in Starters,
             Attaches(k) \/ Builds(k) \/ Reattaches(k) \/ ReadsStatus(k) \/ EmitsStatus(k)
      PROVE  TypeInv'
  <2>1. UNCHANGED storeVars
    BY <1>5 DEF Attaches, Builds, Reattaches, ReadsStatus, EmitsStatus
  <2> QED BY <1>2, <1>5, <2>1, StartTypes
<1> QED BY <1>1, <1>3, <1>4, <1>5 DEF EngineNext

LEMMA TypesInductive == HubInv /\ TypeInv /\ [Next]_vars => TypeInv'
<1> SUFFICES ASSUME HubInv, TypeInv, [Next]_vars PROVE TypeInv'
  OBVIOUS
<1>1. CASE UNCHANGED vars
  <2> USE <1>1 DEF vars
  <2>1. HubTypeOK' /\ EngineTypeOK'
    BY DEF TypeInv, TypeOK, hubVars, hubQueueVars, connVars, bufferVars, HubTypeOK,
       engineVars, startVars, dispatchVars, EngineTypeOK
  <2> QED BY <2>1, StoringNothing DEF TypeInv, TypeOK
<1>2. CASE platform = "desktop" /\ HubNext /\ UNCHANGED engineVars
  BY <1>2, HubTypesInductive DEF HubInv, DesktopInv
<1>3. CASE platform = "android" /\ EngineNext /\ UNCHANGED hubVars
  BY <1>3, EngineTypesInductive
<1> QED BY <1>1, <1>2, <1>3 DEF Next

\* Every variable of the store and of its observers keeps its type, and no queue or
\* buffer grows past its capacity: a callback, the hub and a Start look for room in the
\* step that fills it.
THEOREM TypesKept == Spec => []TypeOK
<1>1. TypeInv => TypeOK
  BY DEF TypeInv
<1> QED BY EngineInitHolds, EngineInductive, HubInitHolds, HubInductive, TypesInit, TypesInductive, <1>1, PTL DEF Spec
=============================================================================
