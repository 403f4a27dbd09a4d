------------------------- MODULE RuntimePersistence -------------------------
(***************************************************************************)
(* The runtime stores of src/athena/persistence.py together: clients that  *)
(* migrate the database, put and back up objects, and enqueue transient    *)
(* items, each one operation at a time, in any order and interleaving.     *)
(* The three services share the clients and nothing else.                  *)
(***************************************************************************)
EXTENDS Migrations, ObjectStore, TransientQueue

vars == <<clientVars, migrationVars, objectVars, queueVars>>

Init == ClientInit /\ MigrationInit /\ ObjectInit /\ QueueInit

Next == \/ MigrationNext /\ UNCHANGED <<objectVars, queueVars>>
        \/ ObjectNext /\ UNCHANGED <<migrationVars, queueVars>>
        \/ QueueNext /\ UNCHANGED <<migrationVars, objectVars>>

Spec == Init /\ [][Next]_vars

(* A client at work goes on; it is only death that stops one. *)
Fairness == \A p \in Procs :
    WF_vars(ApplyStep(p) /\ UNCHANGED <<objectVars, queueVars>>)

LiveSpec == Spec /\ Fairness

TypeOK ==
    /\ pc \in [Procs -> {"idle"} \cup MigrationLabels \cup ObjectLabels]
    /\ operations \in 0..MaxOperations /\ faults \in 0..MaxFaults
    /\ MigrationTypeOK /\ ObjectTypeOK /\ QueueTypeOK
=============================================================================
