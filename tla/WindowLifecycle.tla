--------------------------- MODULE WindowLifecycle ---------------------------
(***************************************************************************)
(* What historical acquisition promises about the windows of its manifests, *)
(* without files, locks, ledgers or processes: each window is planned, may  *)
(* be reserved once all earlier windows of its manifest are COMPLETED, may  *)
(* be requested once, and ends in exactly one of the two terminal outcomes, *)
(* which never changes.  A reservation that was never requested, or whose  *)
(* answer was lost, can only end QUARANTINED (steps 3, 4, 7 and 8 of the    *)
(* enforced process that history.py implements).                           *)
(***************************************************************************)
EXTENDS Naturals

CONSTANTS Manifests, WindowCount

VARIABLES stage,     \* of every window
          requests   \* how often its request reached the provider

Window == 1..WindowCount
Stage  == {"planned", "reserved", "COMPLETED", "QUARANTINED"}

Init ==
    /\ stage = [m \in Manifests |-> [w \in Window |-> "planned"]]
    /\ requests = [m \in Manifests |-> [w \in Window |-> 0]]

Move(m, w, to) == stage' = [stage EXCEPT ![m][w] = to]

Reserve(m, w) ==
    /\ stage[m][w] = "planned"
    /\ \A v \in 1..(w-1) : stage[m][v] = "COMPLETED"
    /\ Move(m, w, "reserved")
    /\ UNCHANGED requests

Request(m, w) ==
    /\ stage[m][w] = "reserved" /\ requests[m][w] = 0
    /\ requests' = [requests EXCEPT ![m][w] = 1]
    /\ UNCHANGED stage

Complete(m, w) ==
    /\ stage[m][w] = "reserved" /\ requests[m][w] = 1
    /\ Move(m, w, "COMPLETED")
    /\ UNCHANGED requests

Quarantine(m, w) ==
    /\ stage[m][w] = "reserved"
    /\ Move(m, w, "QUARANTINED")
    /\ UNCHANGED requests

Next == \E m \in Manifests, w \in Window :
            Reserve(m, w) \/ Request(m, w) \/ Complete(m, w) \/ Quarantine(m, w)

Spec == Init /\ [][Next]_<<stage, requests>>

=============================================================================
