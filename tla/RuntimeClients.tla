--------------------------- MODULE RuntimeClients ---------------------------
(***************************************************************************)
(* What the clients of the runtime stores share: each is a command that    *)
(* works on one operation of src/athena/persistence.py at a time, may die  *)
(* in it, and may be started again.  Migrations, ObjectStore and           *)
(* TransientQueue add the three services; RuntimePersistence puts them     *)
(* together.                                                               *)
(***************************************************************************)
EXTENDS Naturals, Sequences, FiniteSets

CONSTANTS Procs,          \* clients
          MaxOperations,  \* bound: operations that begin
          MaxFaults       \* bound: deaths, lost answers and foreign writes

ASSUME ClientAssumption == {MaxOperations, MaxFaults} \subseteq Nat

VARIABLES pc,          \* per client: its place in the operation
          operations,  \* history: operations that began
          faults       \* history: faults that happened

clientVars == <<pc, operations, faults>>

At(p, label)   == pc[p] = label
Goto(p, label) == pc' = [pc EXCEPT ![p] = label]

Begins(p, label) ==
    /\ At(p, "idle") /\ operations < MaxOperations
    /\ operations' = operations + 1
    /\ Goto(p, label)
    /\ UNCHANGED faults

Steps(p, from, to) ==
    /\ At(p, from) /\ Goto(p, to)
    /\ UNCHANGED <<operations, faults>>

Faulty(p, label) ==
    /\ faults < MaxFaults
    /\ faults' = faults + 1
    /\ Goto(p, label)
    /\ UNCHANGED operations

ClientInit == pc = [p \in Procs |-> "idle"] /\ operations = 0 /\ faults = 0
=============================================================================
