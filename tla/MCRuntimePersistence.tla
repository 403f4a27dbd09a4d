------------------------ MODULE MCRuntimePersistence ------------------------
(* RuntimePersistence with repository versions that extend or contradict   *)
(* each other: the second changes the bytes of a migration of the first.   *)
(* The three services have no state in common, so that a behaviour which   *)
(* mixes them shows nothing that those of one service do not; the instance *)
(* leaves them out by drawing the service in use at the start.             *)
EXTENDS RuntimePersistence

VARIABLE service

Versions == {<<"m1", "m2">>, <<"m1", "m2 changed">>, <<"m1", "m2", "m3">>}

Postgres == service = "postgres" /\ MigrationNext /\ UNCHANGED <<objectVars, queueVars>>
S3       == service = "objects" /\ ObjectNext /\ UNCHANGED <<migrationVars, queueVars>>
Redis    == service = "redis" /\ QueueNext /\ UNCHANGED <<migrationVars, objectVars>>

OneInit == /\ Init /\ service \in {"postgres", "objects", "redis"}
           /\ service # "postgres" => schema = <<>>
OneNext == (Postgres \/ S3 \/ Redis) /\ UNCHANGED service

OneService == OneInit /\ [][OneNext]_<<vars, service>> /\ Fairness
=============================================================================
