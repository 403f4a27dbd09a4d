----------------------------- MODULE MCHistory -----------------------------
(***************************************************************************)
(* History for TLC.  The safety runs use Spec as it is; the liveness run    *)
(* restricts when the operator resumes, and adds fairness.                 *)
(***************************************************************************)
EXTENDS History, TLC

(* Processes are interchangeable; used where no liveness is checked. *)
Symmetry == Permutations(Procs)

Settled(m) == \E i \in DOMAIN reports :
    reports[i].manifest = m /\ reports[i].status \in {"COMPLETE", "BLOCKED_QUARANTINE"}

(* The operator resumes a manifest that is not settled, "after the relevant *)
(* UTC reset" (status table of docs/HISTORICAL_ACQUISITION.md).             *)
Resume(p) == \E m \in Manifests : ~Settled(m) /\ QuotaLeft /\ Start(p, m, RunLimit)

LiveNext ==
    \/ \E p \in Procs : Resume(p) \/ Step(p) \/ Crash(p)
    \/ Tick

LiveSpec ==
    /\ Init /\ [][LiveNext]_vars
    /\ WF_vars(Tick)
    /\ \A p \in Procs : WF_vars(Resume(p)) /\ WF_vars(Step(p))

Gap == ~(CheckpointsValid /\ QuotaValid /\ MarketStateValid)
ClockRanOut == minute = MaxMinute /\ ~QuotaLeft

(* Every manifest ends COMPLETE or BLOCKED_QUARANTINE in a report, however  *)
(* requests, invocations and the lock race, unless a crash has left a file  *)
(* and the ledger unreconciled (or the bounded clock has run out).          *)
Settles == \A m \in Manifests : <>[](Settled(m) \/ Gap \/ ClockRanOut)
=============================================================================
