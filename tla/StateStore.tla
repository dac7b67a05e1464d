------------------------------ MODULE StateStore ------------------------------
(***************************************************************************)
(* StateManager (internal/core/state_manager.go, integration_status.go):   *)
(* every setter stores its value and copies the list of callbacks under    *)
(* the lock, and calls them without it, on the goroutine that set the      *)
(* value.  The setters, getters and registrations of the fields differ in  *)
(* the field alone, so one definition stands for each of the three.        *)
(*                                                                         *)
(* Abstracted: a value is the number of its store, so that a greater value *)
(* of a field is a later one.  A setter works for the observers of         *)
(* WebHub or EngineDispatch, which end it.                                 *)
(***************************************************************************)
EXTENDS Naturals

CONSTANTS
  NFields,    \* the fields are numbered in the order in which a snapshot reads
  Setters,    \* goroutines that set values
  MaxStores   \* bound: stores of all fields together

ASSUME StoreAssumption == NFields \in Nat \ {0} /\ MaxStores \in Nat

Fields == 1 .. NFields
Versions == 0 .. MaxStores

VARIABLES
  store,      \* the value of each field
  stores,     \* how many values have been stored
  setter,     \* where each setter is: "idle", or in its callbacks ("notify")
  arg         \* the field it set and the callbacks' newValue

storeVars == <<store, stores, setter, arg>>

Get(f) == store[f]

\* The lock is released: the callbacks are still to be called.
Set(s, f) ==
  /\ setter[s] = "idle"
  /\ stores < MaxStores
  /\ stores' = stores + 1
  /\ store' = [store EXCEPT ![f] = @ + 1]
  /\ setter' = [setter EXCEPT ![s] = "notify"]
  /\ arg' = [arg EXCEPT ![s] = <<f, store[f] + 1>>]

\* The last callback has returned.
SetterIsDone(s) ==
  /\ setter' = [setter EXCEPT ![s] = "idle"]
  /\ arg' = [arg EXCEPT ![s] = <<1, 0>>]
  /\ UNCHANGED <<store, stores>>

StoreInit ==
  /\ store = [f \in Fields |-> 0] /\ stores = 0
  /\ setter = [s \in Setters |-> "idle"]
  /\ arg = [s \in Setters |-> <<1, 0>>]
=============================================================================
