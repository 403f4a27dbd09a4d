--------------------------- MODULE HistoryProofs ----------------------------
(***************************************************************************)
(* Historical acquisition for any number of processes, manifests, windows  *)
(* and crashes, and any limits: the types, and that no request reaches the *)
(* provider twice, nor before the ledger vouches for its reservation.      *)
(* AcquisitionProofs has what acquisition leaves in its files.             *)
(***************************************************************************)
EXTENDS History, SequenceTheorems, TLAPS

(* A process about to link a reservation still has the credit it spends.    *)
CreditInHand == \A p \in Procs : pc[p] = "reserved" => job[p].limit > 0

Typed == TypeOK /\ CreditInHand

(***************************************************************************)
(* What the helpers of the actions do to the variables they change.        *)
(***************************************************************************)

LEMMA GotoTyped ==
    ASSUME TypeOK, NEW p \in Procs, NEW label \in Labels, Goto(p, label)
    PROVE  /\ pc' \in [Procs -> Labels]
           /\ \A q \in Procs : pc'[q] = IF q = p THEN label ELSE pc[q]
BY DEF TypeOK, Goto

LEMMA UpdateTyped ==
    ASSUME TypeOK, NEW p \in Procs, NEW new \in JobType, Update(p, new)
    PROVE  /\ job' \in [Procs -> JobType]
           /\ \A q \in Procs : job'[q] = IF q = p THEN new ELSE job[q]
BY DEF TypeOK, Update

LEMMA NewJobTyped ==
    ASSUME NEW m \in Manifests, NEW limit \in 0..RunLimit
    PROVE  NewJob(m, limit) \in JobType
BY HistoryAssumption
   DEF NewJob, JobType, NoObservation, NoResult, Window, Outcome

LEMMA NoJobTyped == NoJob \in JobType
BY NewJobTyped, HistoryAssumption DEF NoJob

LEMMA LogTyped ==
    ASSUME TypeOK, NEW p \in Procs, NEW type \in EventType, NEW n \in Nat, Log(p, type, n)
    PROVE  ledger' \in Seq(Events)
<1>1. Event(type, job[p].manifest, job[p].window, n) \in Events
  BY DEF TypeOK, JobType, Event, Events
<1>2. QED
  BY <1>1, AppendProperties DEF Log, TypeOK, FilesTyped

LEMMA LeaveTyped ==
    ASSUME TypeOK, NEW p \in Procs, Leave(p)
    PROVE  /\ lock' \in Procs \cup {Free}
           /\ pc' \in [Procs -> Labels] /\ job' \in [Procs -> JobType]
           /\ \A q \in Procs : /\ pc'[q] = IF q = p THEN "idle" ELSE pc[q]
                               /\ q # p => job'[q] = job[q]
<1>1. "idle" \in Labels
  BY DEF Labels, Unlocked
<1>2. QED
  BY <1>1, GotoTyped, UpdateTyped, NoJobTyped DEF Leave, LockAfter, TypeOK

LEMMA RaiseTyped ==
    ASSUME Typed, NEW p \in Procs, Raise(p)
    PROVE  Typed'
<1>1. /\ lock' \in Procs \cup {Free}
      /\ pc' \in [Procs -> Labels] /\ job' \in [Procs -> JobType]
      /\ \A q \in Procs : /\ pc'[q] = IF q = p THEN "idle" ELSE pc[q]
                          /\ q # p => job'[q] = job[q]
  BY LeaveTyped DEF Raise, Typed
<1>2. CreditInHand'
  BY <1>1 DEF Typed, CreditInHand
<1>3. QED
  BY <1>1, <1>2 DEF Raise, Typed, TypeOK, FilesTyped, files

LEMMA OutcomesTyped ==
    ASSUME TypeOK, NEW m
    PROVE  Outcomes(m) \in [Window -> Outcome]
<1>1. ASSUME NEW w \in Window PROVE OutcomeOf(m, w) \in Outcome
  <2>1. ASSUME NEW n \in DOMAIN checkpoints PROVE checkpoints[n].status \in Outcome
    <3>1. checkpoints[n] \in Terminals
      BY LenProperties DEF TypeOK, FilesTyped
    <3>2. QED
      BY <3>1 DEF Terminals
  <2>2. QED
    BY <2>1 DEF OutcomeOf, Outcome
<1>2. QED
  BY <1>1 DEF Outcomes
LEMMA ReservedTyped ==
    ASSUME TypeOK, NEW m
    PROVE  Reserved(m) \subseteq Window
<1>1. ASSUME NEW n \in DOMAIN quota PROVE quota[n].window \in Window
  <2>1. quota[n] \in Reservations
    BY LenProperties DEF TypeOK, FilesTyped
  <2>2. QED
    BY <2>1 DEF Reservations
<1>2. QED
  BY <1>1 DEF Reserved

(***************************************************************************)
(* Every step preserves the types.                                         *)
(***************************************************************************)

(* A step that leaves every file alone, and the other processes.            *)
LEMMA TypedIfFilesKept ==
    ASSUME Typed, NEW p \in Procs, NEW label \in Labels \ {"reserved"}, NEW new \in JobType,
           Goto(p, label), Update(p, new), UNCHANGED files,
           lock' \in Procs \cup {Free}, sent' \in Seq(Reservations),
           minute' \in Nat, crashes' \in Nat, raised' \in BOOLEAN
    PROVE  Typed'
<1>1. FilesTyped'
  BY DEF files, FilesTyped, Typed, TypeOK
<1>2. CreditInHand'
  BY GotoTyped, UpdateTyped DEF Typed, CreditInHand
<1>3. QED
  BY <1>1, <1>2, GotoTyped, UpdateTyped DEF Typed, TypeOK

(* A step that appends to files and touches neither lock, clock nor wire.   *)
LEMMA TypedIfFilesGrow ==
    ASSUME Typed, NEW p \in Procs, NEW label \in Labels, NEW new \in JobType,
           label = "reserved" => new.limit > 0,
           Goto(p, label), Update(p, new), FilesTyped',
           UNCHANGED <<lock, sent, minute, crashes, raised>>
    PROVE  Typed'
<1>1. CreditInHand'
  BY GotoTyped, UpdateTyped DEF Typed, CreditInHand
<1>2. QED
  BY <1>1, GotoTyped, UpdateTyped DEF Typed, TypeOK

LEMMA JobKept ==
    ASSUME TypeOK, NEW p \in Procs, job' = job
    PROVE  job[p] \in JobType /\ Update(p, job[p])
BY DEF TypeOK, Update

LEMMA TypeStep == Typed /\ [Next]_vars => Typed'
<1> SUFFICES ASSUME Typed, [Next]_vars PROVE Typed'
  OBVIOUS
<1>0. TypeOK /\ FilesTyped
  BY DEF Typed, TypeOK
<1>a. Labels \ {"reserved"} \in SUBSET Labels /\ "reserved" \in Labels
  BY DEF Labels
<1>b. \A q \in Procs : job[q] \in JobType
  BY <1>0 DEF TypeOK
<1>1. ASSUME NEW p \in Procs, NEW m \in Manifests, NEW limit \in 1..RunLimit, Start(p, m, limit)
      PROVE  Typed'
  <2>1. NewJob(m, limit) \in JobType
    BY NewJobTyped, HistoryAssumption
  <2>2. "lock" \in Labels \ {"reserved"}
    BY DEF Labels, Unlocked
  <2>3. QED
    BY <1>0, <1>1, <2>1, <2>2, TypedIfFilesKept DEF Start, TypeOK
<1>2. ASSUME NEW p \in Procs, TakeLock(p) PROVE Typed'
  <2>1. PICK keyed \in BOOLEAN : Update(p, [job[p] EXCEPT !.keyed = keyed])
    BY <1>2 DEF TakeLock
  <2>2. [job[p] EXCEPT !.keyed = keyed] \in JobType
    BY <1>b DEF JobType
  <2>3. "open" \in Labels \ {"reserved"}
    BY DEF Labels
  <2>4. QED
    BY <1>0, <1>2, <2>1, <2>2, <2>3, TypedIfFilesKept DEF TakeLock, TypeOK
<1>3. ASSUME NEW p \in Procs, Open(p) PROVE Typed'
  <2> DEFINE outcomes == Outcomes(job[p].manifest)
             orphans == Orphans(job[p].manifest, outcomes)
  <2>1. CASE ~(CheckpointsValid /\ QuotaValid)
    BY <1>3, <2>1, RaiseTyped DEF Open
  <2>2. CASE CheckpointsValid /\ QuotaValid
    <3>1. [job[p] EXCEPT !.outcomes = outcomes, !.orphans = orphans] \in JobType
      <4>1. orphans \in SUBSET Window
        BY <1>0, ReservedTyped DEF Orphans
      <4>2. outcomes \in [Window -> Outcome]
        BY <1>0, OutcomesTyped
      <4> HIDE DEF outcomes, orphans
      <4>3. QED
        BY <1>b, <4>1, <4>2 DEF JobType
    <3>2. \E label \in {"orphan", "close", "loop"} : Goto(p, label)
      BY <1>3, <2>2 DEF Open
    <3>3. {"orphan", "close", "loop"} \subseteq Labels \ {"reserved"}
      BY DEF Labels
    <3>4. /\ Update(p, [job[p] EXCEPT !.outcomes = outcomes, !.orphans = orphans])
          /\ UNCHANGED <<lock, files, minute, sent, crashes, raised>>
      BY <1>3, <2>2 DEF Open
    <3>5. QED
      BY <1>0, <3>1, <3>2, <3>3, <3>4, TypedIfFilesKept DEF TypeOK
  <2>3. QED
    BY <2>1, <2>2
<1>4. ASSUME NEW p \in Procs, TakeOrphan(p) PROVE Typed'
  <2>1. PICK w \in job[p].orphans : Update(p, [job[p] EXCEPT !.window = w])
    BY <1>4 DEF TakeOrphan
  <2>2. [job[p] EXCEPT !.window = w] \in JobType
    BY <1>b DEF JobType
  <2>3. "reject" \in Labels \ {"reserved"}
    BY DEF Labels
  <2>4. QED
    BY <1>0, <1>4, <2>1, <2>2, <2>3, TypedIfFilesKept DEF TakeOrphan, TypeOK
<1>5. ASSUME NEW p \in Procs, Reserve(p) PROVE Typed'
  <2>1. CASE ~QuotaValid
    BY <1>5, <2>1, RaiseTyped DEF Reserve
  <2>2. CASE QuotaValid /\ ~QuotaLeft
    <3>1. [job[p] EXCEPT !.pause = TRUE] \in JobType /\ "close" \in Labels \ {"reserved"}
      BY <1>b DEF JobType, Labels
    <3>2. /\ Update(p, [job[p] EXCEPT !.pause = TRUE]) /\ Goto(p, "close")
          /\ UNCHANGED <<lock, files, minute, sent, crashes, raised>>
      BY <1>5, <2>2 DEF Reserve
    <3>3. QED
      BY <1>0, <3>1, <3>2, TypedIfFilesKept DEF TypeOK
  <2>3. CASE QuotaValid /\ QuotaLeft
    <3>1. PICK w \in NextWindow(p) :
             /\ quota' = Append(quota, [manifest |-> job[p].manifest,
                                        window |-> w, minute |-> minute])
             /\ Update(p, [job[p] EXCEPT !.window = w])
      BY <1>5, <2>3 DEF Reserve
    <3>2. w \in Window
      BY DEF NextWindow, Pending, With
    <3>3. /\ [job[p] EXCEPT !.window = w] \in JobType
          /\ [job[p] EXCEPT !.window = w].limit > 0
          /\ [manifest |-> job[p].manifest, window |-> w, minute |-> minute] \in Reservations
      BY <1>b, <1>0, <1>5, <3>2 DEF JobType, Reserve, BudgetLeft, Reservations, TypeOK
    <3>4. quota' \in Seq(Reservations)
      BY <1>0, <3>1, <3>3, AppendProperties DEF FilesTyped
    <3>5. FilesTyped'
      BY <1>0, <1>5, <2>3, <3>4 DEF Reserve, FilesTyped
    <3>6. Goto(p, "reserved") /\ UNCHANGED <<lock, sent, minute, crashes, raised>>
      BY <1>5, <2>3 DEF Reserve
    <3>7. QED
      BY <1>a, <3>1, <3>3, <3>5, <3>6, TypedIfFilesGrow
  <2>4. QED
    BY <2>1, <2>2, <2>3
<1>6. ASSUME NEW p \in Procs, LinkReservation(p) PROVE Typed'
  <2>1. [job[p] EXCEPT !.limit = @ - 1] \in JobType
    <3>1. job[p].limit > 0
      BY <1>6 DEF Typed, CreditInHand, LinkReservation, At
    <3>2. job[p].limit - 1 \in 0..RunLimit
      BY <1>b, <3>1, HistoryAssumption DEF JobType
    <3>3. QED
      BY <1>b, <3>2 DEF JobType
  <2>2. ledger' \in Seq(Events)
    BY <1>0, <1>6, LogTyped, LenProperties DEF LinkReservation, FilesTyped, EventType
  <2>3. FilesTyped' /\ "send" \in Labels
    BY <1>0, <1>6, <2>2 DEF LinkReservation, FilesTyped, Labels
  <2>4. QED
    BY <1>6, <2>1, <2>3, TypedIfFilesGrow DEF LinkReservation
<1>7. ASSUME NEW p \in Procs, EndLoop(p) PROVE Typed'
  <2>1. /\ [job[p] EXCEPT !.pause = (Pending(p) # {})] \in JobType
        /\ "close" \in Labels \ {"reserved"}
    BY <1>b DEF JobType, Labels
  <2>2. QED
    BY <1>0, <1>7, <2>1, TypedIfFilesKept DEF EndLoop, TypeOK
<1>8. ASSUME NEW p \in Procs, FetchRefused(p) \/ TransportFails(p) PROVE Typed'
  <2>1. "reject" \in Labels \ {"reserved"}
    BY DEF Labels
  <2>2. QED
    BY <1>0, <1>8, <2>1, JobKept, TypedIfFilesKept DEF FetchRefused, TransportFails, TypeOK
<1>9. ASSUME NEW p \in Procs, Transmit(p) PROVE Typed'
  <2>1. [manifest |-> job[p].manifest, window |-> job[p].window, minute |-> minute]
           \in Reservations
    BY <1>b, <1>0 DEF JobType, Reservations, TypeOK
  <2>2. sent' \in Seq(Reservations)
    BY <1>0, <1>9, <2>1, AppendProperties DEF Transmit, TypeOK
  <2>3. "await" \in Labels \ {"reserved"}
    BY DEF Labels
  <2>4. [job[p] EXCEPT !.asked = @ \cup {Len(sent) + 1}] \in JobType
    <3>1. Len(sent) + 1 \in Nat
      BY <1>0, LenProperties DEF TypeOK
    <3>2. job[p].asked \cup {Len(sent) + 1} \in SUBSET Nat
      BY <1>b, <3>1 DEF JobType
    <3>3. QED
      BY <1>b, <3>2 DEF JobType
  <2>5. QED
    BY <1>0, <1>9, <2>2, <2>3, <2>4, TypedIfFilesKept DEF Transmit, TypeOK
<1>10. ASSUME NEW p \in Procs, Respond(p) PROVE Typed'
  <2>1. PICK seen \in {NoObservation} \cup [sent : {Len(sent)}, left : {0, 1}],
             next \in {"accept", "reject"} :
                Update(p, [job[p] EXCEPT !.observation = seen]) /\ Goto(p, next)
    BY <1>10 DEF Respond, Assessments
  <2>2. seen \in [sent : Nat, left : {0, 1}]
    BY <1>0, LenProperties DEF NoObservation, TypeOK
  <2>3. [job[p] EXCEPT !.observation = seen] \in JobType
    BY <1>b, <2>2 DEF JobType
  <2>4. next \in Labels \ {"reserved"}
    BY DEF Labels
  <2>5. QED
    BY <1>0, <1>10, <2>1, <2>3, <2>4, TypedIfFilesKept DEF Respond, Assessments, TypeOK
<1>11. ASSUME NEW p \in Procs, Register(p) PROVE Typed'
  <2>1. Line(job[p].manifest, job[p].window) \in Lines
    BY <1>b DEF JobType, Line, Lines
  <2>2. register' \in Seq(Lines)
    BY <1>0, <1>11, <2>1, AppendProperties DEF Register, FilesTyped
  <2>3. FilesTyped' /\ "registered" \in Labels
    BY <1>0, <1>11, <2>2 DEF Register, FilesTyped, Labels
  <2>4. QED
    BY <1>0, <1>11, <2>3, JobKept, TypedIfFilesGrow DEF Register
<1>12. ASSUME NEW p \in Procs, Reject(p) PROVE Typed'
  <2>1. Line(job[p].manifest, job[p].window) \in Lines
    BY <1>b DEF JobType, Line, Lines
  <2>2. quarantine' \in Seq(Lines)
    BY <1>0, <1>12, <2>1, AppendProperties DEF Reject, FilesTyped
  <2>3. FilesTyped' /\ "rejected" \in Labels
    BY <1>0, <1>12, <2>2 DEF Reject, FilesTyped, Labels
  <2>4. QED
    BY <1>0, <1>12, <2>3, JobKept, TypedIfFilesGrow DEF Reject
<1>13. ASSUME NEW p \in Procs, LinkRecord(p) PROVE Typed'
  <2>1. ledger' \in Seq(Events)
    BY <1>0, <1>13, LogTyped, LenProperties DEF LinkRecord, FilesTyped, EventType
  <2>2. FilesTyped' /\ "ingest" \in Labels
    BY <1>0, <1>13, <2>1 DEF LinkRecord, FilesTyped, Labels
  <2>3. QED
    BY <1>0, <1>13, <2>2, JobKept, TypedIfFilesGrow DEF LinkRecord
<1>14. ASSUME NEW p \in Procs, Ingest(p) PROVE Typed'
  <2>1. ledger' \in Seq(Events) /\ Len(register) \in Nat
    BY <1>0, <1>14, LogTyped, LenProperties DEF Ingest, FilesTyped, EventType
  <2>2. FilesTyped' /\ "observe" \in Labels
    BY <1>0, <1>14, <2>1 DEF Ingest, FilesTyped, Labels
  <2>3. [job[p] EXCEPT !.result = [status |-> "COMPLETED", ref |-> Len(register)]] \in JobType
    BY <1>b, <2>1 DEF JobType, Outcome
  <2>4. QED
    BY <1>14, <2>2, <2>3, TypedIfFilesGrow DEF Ingest
<1>15. ASSUME NEW p \in Procs, LinkRejection(p) PROVE Typed'
  <2>1. ledger' \in Seq(Events) /\ Len(quarantine) \in Nat
    BY <1>0, <1>15, LogTyped, LenProperties DEF LinkRejection, FilesTyped, EventType
  <2>2. FilesTyped' /\ {"observe", "checkpoint"} \subseteq Labels
    BY <1>0, <1>15, <2>1 DEF LinkRejection, FilesTyped, Labels
  <2>3. [job[p] EXCEPT !.result = [status |-> "QUARANTINED", ref |-> Len(quarantine)]] \in JobType
    BY <1>b, <2>1 DEF JobType, Outcome
  <2>4. \E label \in {"observe", "checkpoint"} : Goto(p, label)
    BY <1>15 DEF LinkRejection
  <2>5. QED
    BY <1>15, <2>2, <2>3, <2>4, TypedIfFilesGrow DEF LinkRejection
<1>16. ASSUME NEW p \in Procs, Observe(p) PROVE Typed'
  <2>1. job[p].observation.sent \in Nat
    BY <1>b DEF JobType
  <2>2. ledger' \in Seq(Events)
    BY <1>0, <1>16, <2>1, LogTyped DEF Observe, LastObserved, FilesTyped, EventType
  <2>3. FilesTyped' /\ "checkpoint" \in Labels
    BY <1>0, <1>16, <2>2 DEF Observe, FilesTyped, Labels
  <2>4. QED
    BY <1>0, <1>16, <2>3, JobKept, TypedIfFilesGrow DEF Observe
<1>17. ASSUME NEW p \in Procs, Checkpoint(p) PROVE Typed'
  <2> DEFINE new == [manifest |-> job[p].manifest, window |-> job[p].window,
                     status |-> job[p].result.status, ref |-> job[p].result.ref]
  <2>1. CASE ~(CheckpointsValid /\ OutcomeOf(job[p].manifest, job[p].window) = "pending")
    BY <1>17, <2>1, RaiseTyped DEF Checkpoint
  <2>2. CASE CheckpointsValid /\ OutcomeOf(job[p].manifest, job[p].window) = "pending"
    <3>1. new \in Terminals
      BY <1>b DEF JobType, Terminals
    <3>2. checkpoints' = Append(checkpoints, new)
      BY <1>17, <2>2 DEF Checkpoint
    <3>3. checkpoints' \in Seq(Terminals)
      BY <1>0, <3>1, <3>2, AppendProperties DEF FilesTyped
    <3>4. FilesTyped' /\ "checkpointed" \in Labels
      BY <1>0, <1>17, <2>2, <3>3 DEF Checkpoint, FilesTyped, Labels
    <3>5. /\ Goto(p, "checkpointed") /\ job' = job
          /\ UNCHANGED <<lock, sent, minute, crashes, raised>>
      BY <1>17, <2>2 DEF Checkpoint
    <3>6. QED
      BY <1>0, <3>4, <3>5, JobKept, TypedIfFilesGrow
  <2>3. QED
    BY <2>1, <2>2
<1>18. ASSUME NEW p \in Procs, LinkCheckpoint(p) PROVE Typed'
  <2> DEFINE j == job[p]
             left == j.orphans \ {j.window}
             stop == j.result.status = "QUARANTINED"
             dry  == ~stop /\ j.observation.left < 1
             new  == [j EXCEPT !.outcomes[j.window] = j.result.status,
                               !.orphans = left, !.result = NoResult, !.pause = dry]
  <2>1. new \in JobType
    <3>1. NoResult \in [status : Outcome, ref : Nat]
      BY DEF NoResult, Outcome
    <3>2. j \in JobType /\ left \in SUBSET Window /\ dry \in BOOLEAN
      BY <1>b DEF JobType
    <3>3. [j.outcomes EXCEPT ![j.window] = j.result.status] \in [Window -> Outcome]
      BY <3>2 DEF JobType
    <3>4. new = [j EXCEPT !.outcomes = [j.outcomes EXCEPT ![j.window] = j.result.status],
                          !.orphans = left, !.result = NoResult, !.pause = dry]
      BY <3>2 DEF JobType
    <3> HIDE DEF j, left, dry, new
    <3>5. QED
      BY <3>1, <3>2, <3>3, <3>4 DEF JobType
  <2>2. ledger' \in Seq(Events)
    BY <1>0, <1>18, LogTyped, LenProperties DEF LinkCheckpoint, FilesTyped, EventType
  <2>3. FilesTyped' /\ {"orphan", "close", "loop"} \subseteq Labels \ {"reserved"}
    BY <1>0, <1>18, <2>2 DEF LinkCheckpoint, FilesTyped, Labels
  <2>4. \E label \in {"orphan", "close", "loop"} : Goto(p, label)
    BY <1>18 DEF LinkCheckpoint
  <2>5. Update(p, new) /\ UNCHANGED <<lock, sent, minute, crashes, raised>>
    BY <1>18 DEF LinkCheckpoint
  <2> HIDE DEF new
  <2>6. QED
    BY <2>1, <2>3, <2>4, <2>5, TypedIfFilesGrow
<1>19. ASSUME NEW p \in Procs, Close(p) PROVE Typed'
  <2> DEFINE ok == /\ CheckpointsValid /\ QuotaValid
                   /\ With(job[p].outcomes, "COMPLETED") = Window => MarketStateValid
             event == Event("market_history_reported",
                            job[p].manifest, job[p].window, Len(reports) + 1)
  <2>1. CASE ~ok
    BY <1>19, <2>1, RaiseTyped DEF Close
  <2>2. CASE ok
    <3>0. /\ reports' = Append(reports, ReportOf(p)) /\ ledger' = Append(ledger, event)
          /\ Leave(p)
          /\ UNCHANGED <<quota, checkpoints, register, quarantine, minute, sent, crashes, raised>>
      BY <1>19, <2>2 DEF Close
    <3>1. ReportOf(p) \in Reports
      <4>1. /\ job[p].manifest \in Manifests /\ job[p].outcomes \in [Window -> Outcome]
            /\ Len(checkpoints) \in Nat /\ Len(quota) \in Nat
        BY <1>b, <1>0, LenProperties DEF JobType, FilesTyped
      <4>2. StatusOf(job[p].outcomes, job[p].pause) \in ReportStatus
        BY DEF StatusOf, ReportStatus
      <4>3. QED
        BY <4>1, <4>2 DEF ReportOf, Reports, TerminalHash
    <3>2. reports' \in Seq(Reports)
      BY <1>0, <3>0, <3>1, AppendProperties DEF FilesTyped
    <3>3. event \in Events
      BY <1>b, <1>0, LenProperties DEF JobType, Event, Events, FilesTyped, EventType
    <3>4. ledger' \in Seq(Events)
      BY <1>0, <3>0, <3>3, AppendProperties DEF FilesTyped
    <3>5. FilesTyped'
      BY <1>0, <3>0, <3>2, <3>4 DEF FilesTyped
    <3>6. CreditInHand'
      BY <1>0, <3>0, LeaveTyped DEF CreditInHand, Typed
    <3>7. QED
      BY <1>0, <3>0, <3>5, <3>6, LeaveTyped DEF Typed, TypeOK
  <2>3. QED
    BY <2>1, <2>2
<1>20. ASSUME NEW p \in Procs, Crash(p) PROVE Typed'
  <2>1. CreditInHand'
    BY <1>0, <1>20, LeaveTyped DEF Crash, CreditInHand, Typed
  <2>2. QED
    BY <1>0, <1>20, <2>1, LeaveTyped DEF Crash, Typed, TypeOK, files, FilesTyped
<1>21. CASE Tick
  BY <1>0, <1>21 DEF Tick, Typed, TypeOK, files, FilesTyped, CreditInHand
<1>22. CASE UNCHANGED vars
  BY <1>0, <1>22 DEF vars, Typed, TypeOK, files, FilesTyped, CreditInHand
<1>23. QED
  BY <1>1, <1>2, <1>3, <1>4, <1>5, <1>6, <1>7, <1>8, <1>9, <1>10, <1>11, <1>12, <1>13,
     <1>14, <1>15, <1>16, <1>17, <1>18, <1>19, <1>20, <1>21, <1>22 DEF Next, Step

LEMMA InitTyped == Init => Typed
<1> SUFFICES ASSUME Init PROVE Typed
  OBVIOUS
<1>1. FilesTyped /\ sent \in Seq(Reservations)
  BY EmptySeq DEF Init, FilesTyped
<1>2. pc \in [Procs -> Labels] /\ job \in [Procs -> JobType] /\ CreditInHand
  BY NoJobTyped DEF Init, Labels, Unlocked, CreditInHand
<1>3. QED
  BY <1>1, <1>2 DEF Init, Typed, TypeOK

(* The types of the files, the processes and the lock, for any number of    *)
(* processes, manifests and windows.                                       *)
THEOREM HistoryTypes == Spec => []TypeOK
<1>1. Spec => []Typed
  BY InitTyped, TypeStep, PTL DEF Spec
<1>2. QED
  BY <1>1, PTL DEF Typed

-----------------------------------------------------------------------------
(***************************************************************************)
(* Transmission.  The inductive invariant is Discipline of module History. *)
(* Its argument: the lock makes one process at a time responsible for the  *)
(* files; past the orphan check nothing is reserved and without outcome    *)
(* except that process's current window; so the window it reserves was never *)
(* reserved, hence - everything sent was reserved - never sent.            *)
(***************************************************************************)

Reservation == "market_data_quota_reserved"

Safe == TypeOK /\ Discipline /\ AtMostOneTransmission /\ ReservedBeforeSent

(***************************************************************************)
(* Files that grow.                                                        *)
(***************************************************************************)

LEMMA Grown ==
    ASSUME NEW S, NEW s \in Seq(S), NEW e \in S
    PROVE  /\ Len(s) \in Nat /\ DOMAIN s = 1..Len(s)
           /\ Append(s, e) # <<>> /\ Len(Append(s, e)) = Len(s) + 1
           /\ DOMAIN Append(s, e) = 1..(Len(s) + 1)
           /\ \A n \in DOMAIN s : n \in DOMAIN Append(s, e) /\ Append(s, e)[n] = s[n]
           /\ Append(s, e)[Len(s) + 1] = e
<1>1. /\ Append(s, e) \in Seq(S) /\ Append(s, e) # <<>> /\ Len(Append(s, e)) = Len(s) + 1
      /\ \A n \in 1..Len(s) : Append(s, e)[n] = s[n]
      /\ Append(s, e)[Len(s) + 1] = e
  BY AppendProperties
<1>2. Len(s) \in Nat /\ DOMAIN s = 1..Len(s) /\ DOMAIN Append(s, e) = 1..(Len(s) + 1)
  BY <1>1, LenProperties
<1>3. QED
  BY <1>1, <1>2

(* A window is reserved exactly when its key is in the quota ledger.        *)
LEMMA ReservedKeys ==
    ASSUME NEW m, NEW w
    PROVE  w \in Reserved(m) <=> \E n \in DOMAIN quota : Key(quota[n]) = <<m, w>>
BY DEF Reserved, Key

(* An event links to its line and no other.                                 *)
LEMMA LinksAfterEvent ==
    ASSUME TypeOK, NEW event \in Events, ledger' = Append(ledger, event), NEW k
    PROVE  LinksTo(Reservation, k)' = LinksTo(Reservation, k) \cup
              IF event.type = Reservation /\ event.ref = k THEN {Len(ledger) + 1} ELSE {}
<1>1. ledger \in Seq(Events)
  BY DEF TypeOK, FilesTyped
<1>2. /\ DOMAIN ledger' = DOMAIN ledger \cup {Len(ledger) + 1}
      /\ Len(ledger) + 1 \notin DOMAIN ledger
      /\ \A j \in DOMAIN ledger : ledger'[j] = ledger[j]
      /\ ledger'[Len(ledger) + 1] = event
  BY <1>1, Grown
<1>3. QED
  BY <1>2 DEF LinksTo

LinksKept == \A k : LinksTo(Reservation, k)' = LinksTo(Reservation, k)

LEMMA OtherEventsKeepLinks ==
    ASSUME TypeOK, NEW p \in Procs, NEW type \in EventType \ {Reservation}, NEW n \in Nat,
           Log(p, type, n)
    PROVE  LinksKept
<1>1. Event(type, job[p].manifest, job[p].window, n) \in Events
  BY DEF TypeOK, JobType, Event, Events
<1>2. Event(type, job[p].manifest, job[p].window, n).type # Reservation
  BY DEF Event
<1>3. QED
  BY <1>1, <1>2, LinksAfterEvent DEF Log, LinksKept

LEMMA SameLedgerKeepsLinks == ledger' = ledger => LinksKept
BY DEF LinksKept, LinksTo

(* The link invariant says that LinksTo is empty past the end of the file.  *)
LEMMA LinksExistMeans ==
    LinkedReservationsExist <=> \A k : LinksTo(Reservation, k) # {} => k \in DOMAIN quota
BY DEF LinkedReservationsExist, LinksTo, Reservation

LEMMA LinksExistKept ==
    ASSUME LinkedReservationsExist, LinksKept, quota' = quota
    PROVE  LinkedReservationsExist'
BY LinksExistMeans DEF LinksKept, LinkedReservationsExist, LinksTo, Reservation

(***************************************************************************)
(* Who is disturbed by a step.                                             *)
(***************************************************************************)

(* Past `open` a process has the lock, so the others have no obligations.   *)
LEMMA BusyStep ==
    ASSUME TypeOK, Discipline, NEW p \in Procs, pc[p] \notin Unlocked,
           lock' = lock, NEW label \in Labels, Goto(p, label),
           LinkedReservationsExist', NothingAmbiguous(p)', SentOnceAndAfterLink(p)'
    PROVE  Discipline'
<1>1. \A q \in Procs : pc'[q] = IF q = p THEN label ELSE pc[q]
  BY GotoTyped
<1>2. LockHeld'
  BY <1>1 DEF Discipline, LockHeld
<1>3. ASSUME NEW q \in Procs \ {p} PROVE NothingAmbiguous(q)' /\ SentOnceAndAfterLink(q)'
  <2>1. pc'[q] \in Unlocked
    BY <1>1 DEF Discipline, LockHeld
  <2>2. QED
    BY <2>1 DEF NothingAmbiguous, SentOnceAndAfterLink, Unlocked, InLoop, Working, Judged
<1>4. QED
  BY <1>2, <1>3 DEF Discipline

LEMMA BusyStepElsewhere ==
    ASSUME TypeOK, Discipline, NEW p \in Procs, pc[p] \notin Unlocked,
           lock' = lock, NEW label \in Labels \ {"reserved", "send"}, Goto(p, label),
           quota' = quota, LinksKept, NothingAmbiguous(p)'
    PROVE  Discipline'
<1>1. LinkedReservationsExist'
  BY LinksExistKept DEF Discipline
<1>2. SentOnceAndAfterLink(p)'
  BY GotoTyped DEF SentOnceAndAfterLink
<1>3. QED
  BY <1>1, <1>2, BusyStep

(* A step that touches neither quota ledger, audit ledger nor wire, and     *)
(* leaves its process without obligations.                                 *)
LEMMA QuietStep ==
    ASSUME Discipline, NEW p \in Procs, LockHeld', UNCHANGED <<quota, ledger, sent>>,
           pc'[p] \in Unlocked \cup {"open", "orphan", "close"},
           \A q \in Procs \ {p} : pc'[q] = pc[q] /\ job'[q] = job[q]
    PROVE  Discipline'
<1>1. LinkedReservationsExist'
  BY DEF Discipline, LinkedReservationsExist
<1>2. NothingAmbiguous(p)' /\ SentOnceAndAfterLink(p)'
  BY DEF NothingAmbiguous, SentOnceAndAfterLink, Unlocked, InLoop, Working, Judged
<1>3. ASSUME NEW q \in Procs \ {p} PROVE NothingAmbiguous(q)' /\ SentOnceAndAfterLink(q)'
  <2>1. NothingAmbiguous(q) /\ SentOnceAndAfterLink(q)
    BY DEF Discipline
  <2>2. /\ pc'[q] = pc[q] /\ Unresolved(q)' = Unresolved(q) /\ CurrentKey(q)' = CurrentKey(q)
        /\ job'[q] = job[q]
    BY DEF Unresolved, Pending, Reserved, CurrentKey
  <2>3. NothingAmbiguous(q)'
    BY <2>1, <2>2 DEF NothingAmbiguous
  <2>4. SentOnceAndAfterLink(q)'
    BY <2>1, <2>2 DEF SentOnceAndAfterLink, LinksTo, LinkedOnce
  <2>5. QED
    BY <2>3, <2>4
<1>4. QED
  BY <1>1, <1>2, <1>3 DEF Discipline

LEMMA LeavingKeepsLock ==
    ASSUME TypeOK, LockHeld, NEW p \in Procs, Leave(p)
    PROVE  LockHeld'
BY LeaveTyped DEF LockHeld, Leave, LockAfter, Unlocked

LEMMA LeaveStep ==
    ASSUME TypeOK, Discipline, NEW p \in Procs, Leave(p), UNCHANGED <<quota, ledger, sent>>
    PROVE  Discipline'
<1>1. LockHeld'
  BY LeavingKeepsLock DEF Discipline
<1>2. QED
  BY <1>1, LeaveTyped, QuietStep DEF Unlocked

LEMMA RaiseStep ==
    ASSUME TypeOK, Discipline, NEW p \in Procs, Raise(p)
    PROVE  Discipline'
BY LeaveStep DEF Raise, files

(* The window being worked on stays the only unresolved one.                *)
LEMMA StillNothingAmbiguous ==
    ASSUME NEW p \in Procs, NothingAmbiguous(p), quota' = quota,
           pc[p] \in Working, pc'[p] \in Working,
           pc'[p] \in InLoop => pc[p] \in InLoop,
           job'[p].manifest = job[p].manifest, job'[p].outcomes = job[p].outcomes,
           job'[p].orphans = job[p].orphans, job'[p].window = job[p].window,
           pc'[p] \in Judged => \/ job'[p].result = job[p].result /\ pc[p] \in Judged
                                \/ job'[p].result.status = "QUARANTINED"
                                \/ job'[p].result.status = "COMPLETED" /\ pc[p] \in InLoop
    PROVE  NothingAmbiguous(p)'
<1>1. Unresolved(p)' = Unresolved(p)
  BY DEF Unresolved, Pending, Reserved
<1>2. QED
  BY <1>1 DEF NothingAmbiguous, Working, InLoop, Judged
(***************************************************************************)
(* Every step preserves the discipline.                                    *)
(***************************************************************************)

LEMMA DisciplineStep == Typed /\ Safe /\ [Next]_vars => Discipline'
<1> SUFFICES ASSUME Typed, Safe, [Next]_vars PROVE Discipline'
  OBVIOUS
<1>0. TypeOK /\ FilesTyped /\ Discipline /\ LockHeld
  BY DEF Safe, TypeOK, Discipline
<1>a. \A q \in Procs : NothingAmbiguous(q) /\ SentOnceAndAfterLink(q) /\ job[q] \in JobType
  BY <1>0 DEF Discipline, TypeOK
<1>1. ASSUME NEW p \in Procs, NEW m \in Manifests, NEW limit \in 1..RunLimit, Start(p, m, limit)
      PROVE  Discipline'
  <2>1. "lock" \in Labels /\ NewJob(m, limit) \in JobType
    BY NewJobTyped, HistoryAssumption DEF Labels, Unlocked
  <2>2. /\ \A q \in Procs : pc'[q] = IF q = p THEN "lock" ELSE pc[q]
        /\ \A q \in Procs \ {p} : job'[q] = job[q]
    BY <1>0, <1>1, <2>1, GotoTyped, UpdateTyped DEF Start
  <2>3. LockHeld'
    BY <1>0, <1>1, <2>2 DEF LockHeld, Unlocked, Start
  <2>4. QED
    BY <1>0, <1>1, <2>2, <2>3, QuietStep DEF Start, files, Unlocked
<1>2. ASSUME NEW p \in Procs, TakeLock(p) PROVE Discipline'
  <2>1. PICK keyed \in BOOLEAN : Update(p, [job[p] EXCEPT !.keyed = keyed])
    BY <1>2 DEF TakeLock
  <2>2. "open" \in Labels
    BY DEF Labels
  <2>3. /\ \A q \in Procs : pc'[q] = IF q = p THEN "open" ELSE pc[q]
        /\ \A q \in Procs \ {p} : job'[q] = job[q]
    BY <1>0, <1>2, <2>1, <2>2, GotoTyped DEF TakeLock, Update, TypeOK
  <2>4. LockHeld'
    BY <1>0, <1>2, <2>3, HistoryAssumption DEF LockHeld, TakeLock, LockFree
  <2>5. QED
    BY <1>0, <1>2, <2>3, <2>4, QuietStep DEF TakeLock, files
<1>3. ASSUME NEW p \in Procs, Open(p) PROVE Discipline'
  <2> DEFINE outcomes == Outcomes(job[p].manifest)
             orphans == Orphans(job[p].manifest, outcomes)
             new == [job[p] EXCEPT !.outcomes = outcomes, !.orphans = orphans]
  <2>1. CASE ~(CheckpointsValid /\ QuotaValid)
    BY <1>0, <1>3, <2>1, RaiseStep DEF Open
  <2>2. CASE CheckpointsValid /\ QuotaValid
    <3>1. /\ Update(p, new) /\ UNCHANGED <<lock, files, sent>>
          /\ \E label \in {"orphan", "close", "loop"} :
                Goto(p, label) /\ (label = "loop" => orphans = {})
      BY <1>3, <2>2 DEF Open
    <3>2. PICK label \in {"orphan", "close", "loop"} :
             Goto(p, label) /\ (label = "loop" => orphans = {})
      BY <3>1
    <3>3. pc[p] \notin Unlocked /\ label \in Labels \ {"reserved", "send"}
      BY <1>3 DEF Open, At, Labels, Unlocked
    <3>4. pc'[p] = label
      BY <1>0, <3>2, <3>3, GotoTyped
    <3>5. job'[p] = new /\ new.outcomes = outcomes /\ new.orphans = orphans
          /\ new.manifest = job[p].manifest
      BY <1>0, <1>a, <3>1 DEF Update, TypeOK, JobType
    <3>6. quota' = quota /\ ledger' = ledger
      BY <3>1 DEF files
    <3>7. label = "loop" => Unresolved(p)' = {}
      <4>1. \A w \in Reserved(job[p].manifest) : outcomes[w] = "pending" => w \in orphans
        BY DEF Orphans
      <4>2. PICK m : m = job[p].manifest
        OBVIOUS
      <4> HIDE DEF outcomes, orphans, new
      <4>3. Reserved(m)' = Reserved(m)
        BY <3>6 DEF Reserved
      <4>4. Unresolved(p)' = {w \in Window : outcomes[w] = "pending"} \cap Reserved(m)
        BY <3>5, <4>2, <4>3 DEF Unresolved, Pending, With, Reserved
      <4>5. QED
        BY <3>2, <4>1, <4>2, <4>4
    <3> HIDE DEF new, outcomes, orphans
    <3>8. NothingAmbiguous(p)'
      BY <3>2, <3>4, <3>5, <3>7 DEF NothingAmbiguous, InLoop, Judged, Working
    <3>9. QED
      BY <1>0, <3>1, <3>2, <3>3, <3>6, <3>8, SameLedgerKeepsLinks, BusyStepElsewhere
  <2>3. QED
    BY <2>1, <2>2
<1>4. ASSUME NEW p \in Procs, TakeOrphan(p) PROVE Discipline'
  <2>1. PICK w \in job[p].orphans : Update(p, [job[p] EXCEPT !.window = w])
    BY <1>4 DEF TakeOrphan
  <2>2. /\ pc[p] \notin Unlocked /\ "reject" \in Labels \ {"reserved", "send"}
        /\ pc'[p] = "reject"
    BY <1>0, <1>4, GotoTyped DEF TakeOrphan, At, Labels, Unlocked
  <2>3. job'[p].orphans = job[p].orphans /\ job'[p].orphans # {}
    BY <1>0, <1>a, <2>1 DEF Update, TypeOK, JobType
  <2>4. NothingAmbiguous(p)'
    BY <2>2, <2>3 DEF NothingAmbiguous, InLoop, Judged
  <2>5. QED
    BY <1>0, <1>4, <2>2, <2>4, SameLedgerKeepsLinks, BusyStepElsewhere DEF TakeOrphan, files
<1>5. ASSUME NEW p \in Procs, Reserve(p) PROVE Discipline'
  <2>0. pc[p] = "loop" /\ pc[p] \notin Unlocked
    BY <1>5 DEF Reserve, At, Unlocked
  <2>1. CASE ~QuotaValid
    BY <1>0, <1>5, <2>1, RaiseStep DEF Reserve
  <2>2. CASE QuotaValid /\ ~QuotaLeft
    <3>1. Goto(p, "close") /\ UNCHANGED <<lock, files, sent>>
      BY <1>5, <2>2 DEF Reserve
    <3>2. "close" \in Labels \ {"reserved", "send"} /\ pc'[p] = "close"
      BY <1>0, <3>1, GotoTyped DEF Labels
    <3>3. NothingAmbiguous(p)'
      BY <3>2 DEF NothingAmbiguous, InLoop, Judged, Working
    <3>4. QED
      BY <1>0, <2>0, <3>1, <3>2, <3>3, SameLedgerKeepsLinks, BusyStepElsewhere DEF files
  <2>3. CASE QuotaValid /\ QuotaLeft
    <3>1. PICK w \in NextWindow(p) :
             /\ quota' = Append(quota, [manifest |-> job[p].manifest,
                                        window |-> w, minute |-> minute])
             /\ Update(p, [job[p] EXCEPT !.window = w])
      BY <1>5, <2>3 DEF Reserve
    <3>2. PICK m, n, r : /\ m = job[p].manifest /\ n = Len(quota) + 1
                         /\ r = [manifest |-> m, window |-> w, minute |-> minute]
      OBVIOUS
    <3>3. Goto(p, "reserved") /\ UNCHANGED <<lock, ledger, sent>>
      BY <1>5, <2>3 DEF Reserve
    <3>4. "reserved" \in Labels /\ pc'[p] = "reserved"
      BY <1>0, <3>3, GotoTyped DEF Labels
    <3>5. /\ job'[p].window = w /\ job'[p].manifest = m /\ job'[p].outcomes = job[p].outcomes
          /\ job'[p].orphans = {}
      BY <1>0, <1>a, <2>0, <3>1, <3>2 DEF Update, TypeOK, JobType, NothingAmbiguous, InLoop
    <3>6. r \in Reservations
      <4>1. w \in Window
        BY <3>1 DEF NextWindow, Pending, With
      <4>2. QED
        BY <1>0, <1>a, <3>2, <4>1 DEF JobType, Reservations, TypeOK
    <3>7. /\ quota' # <<>> /\ Len(quota') = n /\ DOMAIN quota' = DOMAIN quota \cup {n}
          /\ n \notin DOMAIN quota /\ quota'[n] = r
          /\ \A k \in DOMAIN quota : quota'[k] = quota[k]
      BY <1>0, <3>1, <3>2, <3>6, Grown DEF FilesTyped
    <3>8. Key(r) = <<m, w>>
      BY <3>2 DEF Key
    <3>9. w \notin Reserved(m) /\ Unresolved(p) = {}
      BY <1>a, <2>0, <3>1, <3>2 DEF NothingAmbiguous, Unresolved, NextWindow
    <3>10. LinkedReservationsExist'
      BY <1>0, <3>3, <3>7 DEF Discipline, LinkedReservationsExist
    <3>11. NothingAmbiguous(p)'
      <4>1. Reserved(m)' = Reserved(m) \cup {w}
        <5>1. ASSUME NEW v PROVE v \in Reserved(m)' <=> v \in Reserved(m) \/ v = w
          <6>1. v \in Reserved(m)' <=> \E k \in DOMAIN quota' : Key(quota'[k]) = <<m, v>>
            BY ReservedKeys DEF Reserved, Key
          <6>2. v \in Reserved(m) <=> \E k \in DOMAIN quota : Key(quota[k]) = <<m, v>>
            BY ReservedKeys
          <6>3. QED
            BY <3>7, <3>8, <6>1, <6>2
        <5>2. QED
          BY <5>1
      <4>2. Unresolved(p)' \subseteq Unresolved(p) \cup {w}
        <5>1. Reserved(job[p].manifest)' = Reserved(m)'
          BY <3>2, <3>5 DEF Reserved
        <5>2. QED
          BY <3>2, <3>5, <4>1, <5>1 DEF Unresolved, Pending, With
      <4>3. QED
        BY <3>4, <3>5, <3>9, <4>2 DEF NothingAmbiguous, InLoop, Working, Judged
    <3>12. SentOnceAndAfterLink(p)'
      <4>1. CurrentKey(p)' = <<m, w>>
        BY <3>5 DEF CurrentKey
      <4>2. <<m, w>> \notin KeysOf(sent)
        BY <3>9, ReservedKeys DEF Safe, ReservedBeforeSent, KeysOf
      <4>3. LinksTo(Reservation, n)' = {}
        BY <1>0, <3>3, <3>7, LinksExistMeans, SameLedgerKeepsLinks DEF Discipline, LinksKept
      <4>4. CurrentKey(p)' \notin KeysOf(sent)'
        BY <3>3, <4>1, <4>2 DEF KeysOf
      <4>5. LinksTo("market_data_quota_reserved", Len(quota))' = {}
        BY <3>7, <4>3 DEF LinksTo, Reservation
      <4>6. Key(quota[Len(quota)])' = CurrentKey(p)'
        BY <3>7, <3>8, <4>1 DEF Key
      <4>7. QED
        BY <3>4, <3>7, <4>4, <4>5, <4>6 DEF SentOnceAndAfterLink
    <3>13. QED
      BY <1>0, <2>0, <3>3, <3>4, <3>10, <3>11, <3>12, BusyStep
  <2>4. QED
    BY <2>1, <2>2, <2>3
<1>6. ASSUME NEW p \in Procs, LinkReservation(p) PROVE Discipline'
  <2>0. PICK n, key : n = Len(quota) /\ key = CurrentKey(p)
    OBVIOUS
  <2>1. /\ pc[p] = "reserved" /\ pc[p] \notin Unlocked /\ "send" \in Labels /\ pc'[p] = "send"
        /\ UNCHANGED <<lock, quota, sent>> /\ Goto(p, "send")
    BY <1>0, <1>6, GotoTyped DEF LinkReservation, At, Labels, Unlocked
  <2>2. /\ job'[p].window = job[p].window /\ job'[p].manifest = job[p].manifest
        /\ job'[p].outcomes = job[p].outcomes /\ job'[p].orphans = job[p].orphans
    BY <1>0, <1>a, <1>6 DEF LinkReservation, Update, TypeOK, JobType
  <2>3. /\ n \in DOMAIN quota /\ Key(quota[n]) = key /\ LinksTo(Reservation, n) = {}
        /\ key \notin KeysOf(sent)
    <3>1. quota # <<>> => Len(quota) \in DOMAIN quota
      BY <1>0, EmptySeq, LenProperties DEF FilesTyped
    <3>2. QED
      BY <1>a, <2>0, <2>1, <3>1 DEF SentOnceAndAfterLink, Reservation
  <2>4. PICK event \in Events : /\ ledger' = Append(ledger, event)
                                /\ event.type = Reservation /\ event.ref = n
    <3>1. Event(Reservation, job[p].manifest, job[p].window, n) \in Events
      BY <1>0, <1>a, <2>0, LenProperties DEF JobType, Event, Events, EventType, Reservation, FilesTyped
    <3>2. QED
      BY <1>6, <2>0, <3>1 DEF LinkReservation, Log, Event, Reservation
  <2>5. LinksTo(Reservation, n)' = {Len(ledger) + 1}
    BY <1>0, <2>3, <2>4, LinksAfterEvent
  <2>6. LinkedReservationsExist'
    <3>1. \A j \in DOMAIN ledger' : ledger'[j] = event \/ (j \in DOMAIN ledger /\ ledger'[j] = ledger[j])
      BY <1>0, <2>4, Grown DEF FilesTyped
    <3>2. QED
      BY <1>0, <2>1, <2>3, <2>4, <3>1 DEF Discipline, LinkedReservationsExist
  <2>7. NothingAmbiguous(p)'
    BY <1>a, <2>1, <2>2, StillNothingAmbiguous DEF Working, InLoop, Judged
  <2>8. SentOnceAndAfterLink(p)'
    <3>1. CurrentKey(p)' = key /\ key \notin KeysOf(sent)'
      BY <2>0, <2>1, <2>2, <2>3 DEF CurrentKey, KeysOf
    <3>2. LinkedOnce(Reservation, n)'
      <4>1. Len(ledger) + 1 \in DOMAIN ledger'
        BY <1>0, <2>4, Grown DEF FilesTyped
      <4>2. QED
        BY <2>5, <4>1 DEF LinkedOnce
    <3>3. QED
      BY <2>1, <2>3, <3>1, <3>2 DEF SentOnceAndAfterLink, Reservation
  <2>9. QED
    BY <1>0, <2>1, <2>6, <2>7, <2>8, BusyStep
<1>7. ASSUME NEW p \in Procs, EndLoop(p) PROVE Discipline'
  <2>1. /\ pc[p] \notin Unlocked /\ "close" \in Labels \ {"reserved", "send"} /\ pc'[p] = "close"
    BY <1>0, <1>7, GotoTyped DEF EndLoop, At, Labels, Unlocked
  <2>2. NothingAmbiguous(p)'
    BY <2>1 DEF NothingAmbiguous, InLoop, Judged, Working
  <2>3. QED
    BY <1>0, <1>7, <2>1, <2>2, SameLedgerKeepsLinks, BusyStepElsewhere DEF EndLoop, files
<1>8. ASSUME NEW p \in Procs, FetchRefused(p) \/ TransportFails(p) PROVE Discipline'
  <2>1. /\ pc[p] \in {"send", "await"} /\ pc[p] \notin Unlocked
        /\ "reject" \in Labels \ {"reserved", "send"} /\ pc'[p] = "reject"
        /\ Goto(p, "reject") /\ UNCHANGED <<lock, job, quota, ledger, sent>>
    BY <1>0, <1>8, GotoTyped DEF FetchRefused, TransportFails, At, Labels, Unlocked, files
  <2>2. NothingAmbiguous(p)'
    BY <1>a, <2>1, StillNothingAmbiguous DEF Working, InLoop, Judged
  <2>3. QED
    BY <1>0, <2>1, <2>2, SameLedgerKeepsLinks, BusyStepElsewhere
<1>9. ASSUME NEW p \in Procs, Transmit(p) PROVE Discipline'
  <2>1. /\ pc[p] = "send" /\ pc[p] \notin Unlocked
        /\ "await" \in Labels \ {"reserved", "send"} /\ pc'[p] = "await"
        /\ Goto(p, "await") /\ UNCHANGED <<lock, quota, ledger>>
    BY <1>0, <1>9, GotoTyped DEF Transmit, At, Labels, Unlocked, files
  <2>2. /\ job'[p].window = job[p].window /\ job'[p].manifest = job[p].manifest
        /\ job'[p].outcomes = job[p].outcomes /\ job'[p].orphans = job[p].orphans
    BY <1>0, <1>a, <1>9 DEF Transmit, Update, TypeOK, JobType
  <2>3. NothingAmbiguous(p)'
    BY <1>a, <2>1, <2>2, StillNothingAmbiguous DEF Working, InLoop, Judged
  <2>4. QED
    BY <1>0, <2>1, <2>3, SameLedgerKeepsLinks, BusyStepElsewhere
<1>10. ASSUME NEW p \in Procs, Respond(p) PROVE Discipline'
  <2>0. PICK seen : Update(p, [job[p] EXCEPT !.observation = seen])
    BY <1>10 DEF Respond, Assessments
  <2>1. PICK next \in {"accept", "reject"} : Goto(p, next)
    BY <1>10 DEF Respond, Assessments
  <2>2. /\ pc[p] = "await" /\ pc[p] \notin Unlocked
        /\ next \in Labels \ {"reserved", "send"} /\ pc'[p] = next
        /\ UNCHANGED <<lock, quota, ledger, sent>>
    BY <1>0, <1>10, <2>1, GotoTyped DEF Respond, Assessments, At, Labels, Unlocked, files
  <2>3. /\ job'[p].window = job[p].window /\ job'[p].manifest = job[p].manifest
        /\ job'[p].outcomes = job[p].outcomes /\ job'[p].orphans = job[p].orphans
    BY <1>0, <1>a, <2>0 DEF Update, TypeOK, JobType
  <2>4. NothingAmbiguous(p)'
    BY <1>a, <2>2, <2>3, StillNothingAmbiguous DEF Working, InLoop, Judged
  <2>5. QED
    BY <1>0, <2>1, <2>2, <2>4, SameLedgerKeepsLinks, BusyStepElsewhere
<1>11. ASSUME NEW p \in Procs, Register(p) \/ Reject(p) PROVE Discipline'
  <2>1. PICK label \in {"registered", "rejected"} :
           /\ Goto(p, label) /\ UNCHANGED <<lock, job, quota, ledger, sent>>
           /\ pc[p] \in {"accept", "reject"} /\ (label = "registered" => pc[p] = "accept")
    BY <1>11 DEF Register, Reject, At
  <2>2. pc[p] \notin Unlocked /\ label \in Labels \ {"reserved", "send"} /\ pc'[p] = label
    BY <1>0, <2>1, GotoTyped DEF Labels, Unlocked
  <2>3. NothingAmbiguous(p)'
    BY <1>a, <2>1, <2>2, StillNothingAmbiguous DEF Working, InLoop, Judged
  <2>4. QED
    BY <1>0, <2>1, <2>2, <2>3, SameLedgerKeepsLinks, BusyStepElsewhere
<1>12. ASSUME NEW p \in Procs, LinkRecord(p) PROVE Discipline'
  <2>1. LinksKept
    BY <1>0, <1>12, OtherEventsKeepLinks, LenProperties
       DEF LinkRecord, EventType, Reservation, FilesTyped
  <2>2. /\ pc[p] = "registered" /\ pc[p] \notin Unlocked
        /\ "ingest" \in Labels \ {"reserved", "send"} /\ pc'[p] = "ingest"
        /\ Goto(p, "ingest") /\ UNCHANGED <<lock, job, quota, sent>>
    BY <1>0, <1>12, GotoTyped DEF LinkRecord, At, Labels, Unlocked
  <2>3. NothingAmbiguous(p)'
    BY <1>a, <2>2, StillNothingAmbiguous DEF Working, InLoop, Judged
  <2>4. QED
    BY <1>0, <2>1, <2>2, <2>3, BusyStepElsewhere
<1>13. ASSUME NEW p \in Procs, Ingest(p) \/ LinkRejection(p) PROVE Discipline'
  <2>1. LinksKept
    BY <1>0, <1>13, OtherEventsKeepLinks, LenProperties
       DEF Ingest, LinkRejection, EventType, Reservation, FilesTyped
  <2>a. PICK result :
           /\ Update(p, [job[p] EXCEPT !.result = result])
           /\ \/ pc[p] = "ingest" /\ result.status = "COMPLETED" /\ Goto(p, "observe")
              \/ /\ pc[p] = "rejected" /\ result.status = "QUARANTINED"
                 /\ Goto(p, IF job[p].orphans = {} THEN "observe" ELSE "checkpoint")
    <3>1. CASE Ingest(p)
      <4>1. PICK done : done = [status |-> "COMPLETED", ref |-> Len(register)]
        OBVIOUS
      <4>2. /\ Update(p, [job[p] EXCEPT !.result = done]) /\ done.status = "COMPLETED"
            /\ pc[p] = "ingest" /\ Goto(p, "observe")
        BY <3>1, <4>1 DEF Ingest, At
      <4>3. QED
        BY <4>2
    <3>2. CASE LinkRejection(p)
      <4>1. PICK done : done = [status |-> "QUARANTINED", ref |-> Len(quarantine)]
        OBVIOUS
      <4>2. /\ Update(p, [job[p] EXCEPT !.result = done]) /\ done.status = "QUARANTINED"
            /\ pc[p] = "rejected"
            /\ Goto(p, IF job[p].orphans = {} THEN "observe" ELSE "checkpoint")
        BY <3>2, <4>1 DEF LinkRejection, At
      <4>3. QED
        BY <4>2
    <3>3. QED
      BY <1>13, <3>1, <3>2
  <2>2. PICK label \in {"observe", "checkpoint"} :
           /\ Goto(p, label)
           /\ \/ pc[p] = "ingest" /\ result.status = "COMPLETED" /\ label = "observe"
              \/ /\ pc[p] = "rejected" /\ result.status = "QUARANTINED"
                 /\ (label = "observe" => job[p].orphans = {})
    BY <2>a
  <2>3. /\ pc[p] \notin Unlocked /\ label \in Labels \ {"reserved", "send"} /\ pc'[p] = label
        /\ UNCHANGED <<lock, quota, sent>>
    BY <1>0, <1>13, <2>2, GotoTyped DEF Ingest, LinkRejection, Labels, Unlocked
  <2>4. /\ job'[p].window = job[p].window /\ job'[p].manifest = job[p].manifest
        /\ job'[p].outcomes = job[p].outcomes /\ job'[p].orphans = job[p].orphans
        /\ job'[p].result = result
    BY <1>0, <1>a, <2>a DEF Update, TypeOK, JobType
  <2>5. Unresolved(p)' = Unresolved(p)
    BY <2>3, <2>4 DEF Unresolved, Pending, Reserved
  <2>6. NothingAmbiguous(p)'
    BY <1>a, <2>2, <2>3, <2>4, <2>5 DEF NothingAmbiguous, Working, InLoop, Judged
  <2>7. QED
    BY <1>0, <2>1, <2>2, <2>3, <2>6, BusyStepElsewhere
<1>14. ASSUME NEW p \in Procs, Observe(p) PROVE Discipline'
  <2>1. LinksKept
    <3>1. job[p].observation.sent \in Nat
      BY <1>a DEF JobType
    <3>2. QED
      BY <1>0, <1>14, <3>1, OtherEventsKeepLinks, SameLedgerKeepsLinks
         DEF Observe, LastObserved, EventType, Reservation
  <2>2. /\ pc[p] = "observe" /\ pc[p] \notin Unlocked
        /\ "checkpoint" \in Labels \ {"reserved", "send"} /\ pc'[p] = "checkpoint"
        /\ Goto(p, "checkpoint") /\ UNCHANGED <<lock, job, quota, sent>>
    BY <1>0, <1>14, GotoTyped DEF Observe, At, Labels, Unlocked
  <2>3. NothingAmbiguous(p)'
    BY <1>a, <2>2, StillNothingAmbiguous DEF Working, InLoop, Judged
  <2>4. QED
    BY <1>0, <2>1, <2>2, <2>3, BusyStepElsewhere
<1>15. ASSUME NEW p \in Procs, Checkpoint(p) PROVE Discipline'
  <2>0. pc[p] = "checkpoint" /\ pc[p] \notin Unlocked
    BY <1>15 DEF Checkpoint, At, Unlocked
  <2>1. CASE ~(CheckpointsValid /\ OutcomeOf(job[p].manifest, job[p].window) = "pending")
    BY <1>0, <1>15, <2>1, RaiseStep DEF Checkpoint
  <2>2. CASE CheckpointsValid /\ OutcomeOf(job[p].manifest, job[p].window) = "pending"
    <3>1. Goto(p, "checkpointed") /\ UNCHANGED <<lock, job, quota, ledger, sent>>
      BY <1>15, <2>2 DEF Checkpoint
    <3>2. "checkpointed" \in Labels \ {"reserved", "send"} /\ pc'[p] = "checkpointed"
      BY <1>0, <3>1, GotoTyped DEF Labels
    <3>3. NothingAmbiguous(p)'
      BY <1>a, <2>0, <3>1, <3>2, StillNothingAmbiguous DEF Working, InLoop, Judged
    <3>4. QED
      BY <1>0, <2>0, <3>1, <3>2, <3>3, SameLedgerKeepsLinks, BusyStepElsewhere
  <2>3. QED
    BY <2>1, <2>2
<1>16. ASSUME NEW p \in Procs, LinkCheckpoint(p) PROVE Discipline'
  <2> DEFINE j == job[p]
             left == j.orphans \ {j.window}
             stop == j.result.status = "QUARANTINED"
             dry  == ~stop /\ j.observation.left < 1
             new  == [j EXCEPT !.outcomes[j.window] = j.result.status,
                               !.orphans = left, !.result = NoResult, !.pause = dry]
  <2>1. LinksKept
    BY <1>0, <1>16, OtherEventsKeepLinks, LenProperties
       DEF LinkCheckpoint, EventType, Reservation, FilesTyped
  <2>2. /\ pc[p] = "checkpointed" /\ pc[p] \notin Unlocked /\ Update(p, new)
        /\ UNCHANGED <<lock, quota, sent>>
    BY <1>16 DEF LinkCheckpoint, At, Unlocked
  <2>3. PICK label \in {"orphan", "close", "loop"} :
           Goto(p, label) /\ (label = "loop" => left = {} /\ ~stop)
    BY <1>16 DEF LinkCheckpoint
  <2>4. label \in Labels \ {"reserved", "send"} /\ pc'[p] = label
    BY <1>0, <2>3, GotoTyped DEF Labels
  <2>5. /\ job'[p].manifest = j.manifest /\ job'[p].orphans = left
        /\ \A v \in Window : job'[p].outcomes[v] =
              IF v = j.window THEN j.result.status ELSE j.outcomes[v]
    BY <1>0, <1>a, <2>2 DEF Update, TypeOK, JobType
  <2> HIDE DEF new
  <2>6. label = "loop" => Unresolved(p)' = {}
    <3> SUFFICES ASSUME label = "loop" PROVE Unresolved(p)' = {}
      OBVIOUS
    <3>1. j.orphans = {} /\ j.result.status \in {"COMPLETED", "QUARANTINED"}
      BY <1>a, <2>2, <2>3 DEF NothingAmbiguous, Judged
    <3>2. Unresolved(p) \subseteq {j.window}
      BY <1>a, <2>2, <3>1 DEF NothingAmbiguous, Working, Judged
    <3>3. Reserved(job[p].manifest)' = Reserved(job[p].manifest)
      BY <2>2, <2>5 DEF Reserved
    <3>4. QED
      BY <2>5, <3>1, <3>2, <3>3 DEF Unresolved, Pending, With
  <2>7. NothingAmbiguous(p)'
    BY <2>3, <2>4, <2>5, <2>6 DEF NothingAmbiguous, InLoop, Judged, Working
  <2>8. QED
    BY <1>0, <2>1, <2>2, <2>3, <2>4, <2>7, BusyStepElsewhere
<1>17. ASSUME NEW p \in Procs, Close(p) PROVE Discipline'
  <2> DEFINE ok == /\ CheckpointsValid /\ QuotaValid
                   /\ With(job[p].outcomes, "COMPLETED") = Window => MarketStateValid
             event == Event("market_history_reported",
                            job[p].manifest, job[p].window, Len(reports) + 1)
  <2>1. CASE ~ok
    BY <1>0, <1>17, <2>1, RaiseStep DEF Close
  <2>2. CASE ok
    <3>1. Leave(p) /\ ledger' = Append(ledger, event) /\ UNCHANGED <<quota, sent>>
      BY <1>17, <2>2 DEF Close
    <3>2. event \in Events /\ event.type # Reservation
      BY <1>0, <1>a, LenProperties DEF JobType, Event, Events, EventType, Reservation, FilesTyped
    <3>3. LinksKept /\ LinkedReservationsExist'
      BY <1>0, <3>1, <3>2, LinksAfterEvent, LinksExistKept DEF LinksKept, Discipline
    <3>4. LockHeld'
      BY <1>0, <3>1, LeavingKeepsLock
    <3>5. ASSUME NEW q \in Procs PROVE pc'[q] \in Unlocked
      BY <1>0, <1>17, <3>1, LeaveTyped DEF Close, At, LockHeld, Unlocked
    <3>6. \A q \in Procs : NothingAmbiguous(q)' /\ SentOnceAndAfterLink(q)'
      BY <3>5 DEF NothingAmbiguous, SentOnceAndAfterLink, Unlocked, InLoop, Working, Judged
    <3>7. QED
      BY <3>3, <3>4, <3>6 DEF Discipline
  <2>3. QED
    BY <2>1, <2>2
<1>18. ASSUME NEW p \in Procs, Crash(p) PROVE Discipline'
  BY <1>0, <1>18, LeaveStep DEF Crash, files
<1>19. CASE Tick \/ UNCHANGED vars
  <2>1. UNCHANGED <<lock, pc, job, quota, ledger, sent>>
    BY <1>19 DEF Tick, vars, files
  <2>2. LockHeld' /\ LinkedReservationsExist'
    BY <1>0, <2>1 DEF LockHeld, Discipline, LinkedReservationsExist
  <2>3. ASSUME NEW q \in Procs PROVE NothingAmbiguous(q)' /\ SentOnceAndAfterLink(q)'
    <3>1. Unresolved(q)' = Unresolved(q) /\ CurrentKey(q)' = CurrentKey(q)
      BY <2>1 DEF Unresolved, Pending, Reserved, CurrentKey
    <3>2. QED
      BY <1>a, <2>1, <3>1
         DEF NothingAmbiguous, SentOnceAndAfterLink, LinksTo, LinkedOnce
  <2>4. QED
    BY <2>2, <2>3 DEF Discipline
<1>20. QED
  BY <1>1, <1>2, <1>3, <1>4, <1>5, <1>6, <1>7, <1>8, <1>9, <1>10, <1>11, <1>12, <1>13,
     <1>14, <1>15, <1>16, <1>17, <1>18, <1>19 DEF Next, Step

(***************************************************************************)
(* What the discipline buys.                                               *)
(***************************************************************************)

(* The wire changes at Transmit only.                                       *)
LEMMA SentUnchanged ==
    ASSUME [Next]_vars, ~\E p \in Procs : Transmit(p)
    PROVE  sent' = sent
BY DEF Next, Step, vars, files, Start, TakeLock, Open, TakeOrphan, Reserve, LinkReservation,
       EndLoop, FetchRefused, TransportFails, Respond, Register, LinkRecord, Ingest, Reject,
       LinkRejection, Observe, Checkpoint, LinkCheckpoint, Close, Crash, Tick, Raise

(* What Transmit puts on the wire.                                          *)
LEMMA Transmitted ==
    ASSUME TypeOK, NEW p \in Procs, Transmit(p)
    PROVE  \E e : /\ Key(e) = CurrentKey(p)
                  /\ DOMAIN sent' = DOMAIN sent \cup {Len(sent) + 1}
                  /\ Len(sent) + 1 \notin DOMAIN sent
                  /\ \A s \in DOMAIN sent : sent'[s] = sent[s]
                  /\ sent'[Len(sent) + 1] = e
<1>1. PICK e : e = [manifest |-> job[p].manifest, window |-> job[p].window, minute |-> minute]
  OBVIOUS
<1>2. e \in Reservations /\ sent' = Append(sent, e) /\ sent \in Seq(Reservations)
  BY <1>1 DEF Transmit, TypeOK, JobType, Reservations
<1>3. Key(e) = CurrentKey(p)
  BY <1>1 DEF Key, CurrentKey
<1>4. QED
  BY <1>2, <1>3, Grown

LEMMA OnceStep == Safe /\ [Next]_vars => AtMostOneTransmission'
<1> SUFFICES ASSUME Safe, [Next]_vars PROVE AtMostOneTransmission'
  OBVIOUS
<1>1. ASSUME NEW p \in Procs, Transmit(p) PROVE AtMostOneTransmission'
  <2>1. CurrentKey(p) \notin KeysOf(sent)
    BY <1>1 DEF Safe, Discipline, SentOnceAndAfterLink, Transmit, At
  <2>2. \A a, b \in DOMAIN sent : Key(sent[a]) = Key(sent[b]) => a = b
    BY DEF Safe, AtMostOneTransmission, UniqueKeys, Key
  <2>3. \A a, b \in DOMAIN sent' : Key(sent'[a]) = Key(sent'[b]) => a = b
    BY <1>1, <2>1, <2>2, Transmitted DEF KeysOf, Safe
  <2>4. QED
    BY <2>3 DEF AtMostOneTransmission, UniqueKeys, Key
<1>2. CASE ~\E p \in Procs : Transmit(p)
  BY <1>2, SentUnchanged DEF Safe, AtMostOneTransmission, UniqueKeys
<1>3. QED
  BY <1>1, <1>2

(* A linked reservation stays linked exactly once: no step but              *)
(* LinkReservation writes an event of that type, and the one it writes is  *)
(* for a line that had none.                                               *)
LEMMA ReservationStaysLinked ==
    ASSUME TypeOK, Discipline, [Next]_vars, NEW n \in DOMAIN quota, LinkedOnce(Reservation, n)
    PROVE  n \in DOMAIN quota' /\ quota'[n] = quota[n] /\ LinkedOnce(Reservation, n)'
<1>0. FilesTyped /\ \A p \in Procs : job[p] \in JobType
  BY DEF TypeOK
<1>1. n \in DOMAIN quota' /\ quota'[n] = quota[n]
  <2>1. CASE quota' = quota
    BY <2>1
  <2>2. CASE quota' # quota
    <3>1. PICK p \in Procs : Reserve(p)
      BY <2>2 DEF Next, Step, vars, files, Start, TakeLock, Open, TakeOrphan, LinkReservation,
         EndLoop, FetchRefused, Transmit, TransportFails, Respond, Register, LinkRecord, Ingest,
         Reject, LinkRejection, Observe, Checkpoint, LinkCheckpoint, Close, Crash, Tick, Raise
    <3>2. PICK w \in NextWindow(p) :
             quota' = Append(quota, [manifest |-> job[p].manifest, window |-> w, minute |-> minute])
      BY <2>2, <3>1 DEF Reserve, Raise, files
    <3>3. [manifest |-> job[p].manifest, window |-> w, minute |-> minute] \in Reservations
      BY <1>0, <3>2 DEF NextWindow, Pending, With, JobType, Reservations, TypeOK
    <3>4. QED
      BY <1>0, <3>2, <3>3, Grown DEF FilesTyped
  <2>3. QED
    BY <2>1, <2>2
<1>2. LinksTo(Reservation, n)' = LinksTo(Reservation, n)
  <2>1. CASE ledger' = ledger
    BY <2>1, SameLedgerKeepsLinks DEF LinksKept
  <2>2. ASSUME NEW p \in Procs, LinkReservation(p) PROVE LinksTo(Reservation, n)' = LinksTo(Reservation, n)
    <3>1. LinksTo(Reservation, Len(quota)) = {} /\ LinksTo(Reservation, n) # {}
      BY <2>2 DEF Discipline, SentOnceAndAfterLink, LinkReservation, At, Reservation, LinkedOnce
    <3>2. n # Len(quota)
      BY <3>1
    <3>3. PICK event \in Events : ledger' = Append(ledger, event) /\ event.ref = Len(quota)
      <4>1. Event(Reservation, job[p].manifest, job[p].window, Len(quota)) \in Events
        BY <1>0, LenProperties DEF JobType, Event, Events, EventType, Reservation, FilesTyped
      <4>2. QED
        BY <2>2, <4>1 DEF LinkReservation, Log, Event, Reservation
    <3>4. QED
      BY <3>2, <3>3, LinksAfterEvent
  <2>3. ASSUME NEW p \in Procs, Close(p), ledger' # ledger
        PROVE  LinksTo(Reservation, n)' = LinksTo(Reservation, n)
    <3>1. ledger' = Append(ledger, Event("market_history_reported",
                                        job[p].manifest, job[p].window, Len(reports) + 1))
      BY <2>3 DEF Close, Raise, files
    <3>2. PICK event \in Events : ledger' = Append(ledger, event) /\ event.type # Reservation
      <4>1. /\ Event("market_history_reported", job[p].manifest, job[p].window, Len(reports) + 1) \in Events
            /\ Event("market_history_reported", job[p].manifest, job[p].window, Len(reports) + 1).type # Reservation
        BY <1>0, LenProperties DEF JobType, Event, Events, EventType, Reservation, FilesTyped
      <4>2. QED
        BY <3>1, <4>1
    <3>3. QED
      BY <3>2, LinksAfterEvent
  <2>4. ASSUME NEW p \in Procs, NEW type \in EventType \ {Reservation}, NEW k \in Nat, Log(p, type, k)
        PROVE  LinksTo(Reservation, n)' = LinksTo(Reservation, n)
    BY <2>4, OtherEventsKeepLinks DEF LinksKept
  <2>5. ASSUME NEW p \in Procs,
               LinkRecord(p) \/ Ingest(p) \/ LinkRejection(p) \/ LinkCheckpoint(p)
        PROVE  LinksTo(Reservation, n)' = LinksTo(Reservation, n)
    BY <1>0, <2>4, <2>5, LenProperties
       DEF LinkRecord, Ingest, LinkRejection, LinkCheckpoint, EventType, Reservation, FilesTyped
  <2>6. ASSUME NEW p \in Procs, Observe(p), ledger' # ledger
        PROVE  LinksTo(Reservation, n)' = LinksTo(Reservation, n)
    <3>1. Log(p, "market_data_quota_observed", job[p].observation.sent)
      BY <2>6 DEF Observe, LastObserved
    <3>2. job[p].observation.sent \in Nat
      BY <1>0 DEF JobType
    <3>3. QED
      BY <2>4, <3>1, <3>2 DEF EventType, Reservation
  <2>7. CASE ledger' # ledger
    <3>1. \E p \in Procs : \/ LinkReservation(p) \/ Close(p) \/ Observe(p)
                          \/ LinkRecord(p) \/ Ingest(p) \/ LinkRejection(p) \/ LinkCheckpoint(p)
      BY <2>7 DEF Next, Step, vars, files, Start, TakeLock, Open, TakeOrphan, Reserve,
         EndLoop, FetchRefused, Transmit, TransportFails, Respond, Register,
         Reject, Checkpoint, Crash, Tick, Raise
    <3>2. QED
      BY <2>2, <2>3, <2>5, <2>6, <2>7, <3>1
  <2>8. QED
    BY <2>1, <2>7
<1>3. LinkedOnce(Reservation, n)'
  <2>1. PICK j \in DOMAIN ledger : LinksTo(Reservation, n) = {j}
    BY DEF LinkedOnce
  <2>2. LinksTo(Reservation, n)' = {j} /\ j \in LinksTo(Reservation, n)'
    BY <1>2, <2>1
  <2>3. j \in DOMAIN ledger'
    BY <2>2 DEF LinksTo
  <2>4. QED
    BY <2>2, <2>3 DEF LinkedOnce
<1>4. QED
  BY <1>1, <1>3

LEMMA ReservedStep == Safe /\ [Next]_vars => ReservedBeforeSent'
<1> SUFFICES ASSUME Safe, [Next]_vars, NEW s \in DOMAIN sent'
             PROVE  \E n \in DOMAIN quota' : /\ Key(quota'[n]) = Key(sent'[s])
                                            /\ LinkedOnce(Reservation, n)'
  BY DEF ReservedBeforeSent, Reservation, Key
<1>1. CASE s \in DOMAIN sent /\ sent'[s] = sent[s]
  <2>1. PICK n \in DOMAIN quota : Key(quota[n]) = Key(sent[s]) /\ LinkedOnce(Reservation, n)
    BY <1>1 DEF Safe, ReservedBeforeSent, Reservation
  <2>2. QED
    BY <1>1, <2>1, ReservationStaysLinked DEF Safe
<1>2. ASSUME NEW p \in Procs, Transmit(p), s \notin DOMAIN sent
      PROVE  \E n \in DOMAIN quota' : Key(quota'[n]) = Key(sent'[s]) /\ LinkedOnce(Reservation, n)'
  <2>1. PICK n \in DOMAIN quota : Key(quota[n]) = CurrentKey(p) /\ LinkedOnce(Reservation, n)
    BY <1>2 DEF Safe, Discipline, SentOnceAndAfterLink, Transmit, At, Reservation
  <2>2. Key(sent'[s]) = CurrentKey(p)
    BY <1>2, Transmitted DEF Safe
  <2>3. QED
    BY <2>1, <2>2, ReservationStaysLinked DEF Safe
<1>3. QED
  <2>1. CASE \E p \in Procs : Transmit(p)
    BY <1>1, <1>2, <2>1, Transmitted DEF Safe
  <2>2. CASE ~\E p \in Procs : Transmit(p)
    BY <1>1, <2>2, SentUnchanged
  <2>3. QED
    BY <2>1, <2>2

LEMMA InitSafe == Init => Typed /\ Safe
<1> SUFFICES ASSUME Init PROVE Typed /\ Safe
  OBVIOUS
<1>1. Typed /\ TypeOK
  BY InitTyped DEF Typed
<1>2. DOMAIN sent = {} /\ DOMAIN ledger = {}
  BY DEF Init
<1>3. AtMostOneTransmission /\ ReservedBeforeSent /\ LinkedReservationsExist
  BY <1>2 DEF AtMostOneTransmission, UniqueKeys, ReservedBeforeSent, LinkedReservationsExist
<1>4. \A p \in Procs : pc[p] = "idle"
  BY DEF Init
<1>5. LockHeld /\ \A p \in Procs : NothingAmbiguous(p) /\ SentOnceAndAfterLink(p)
  BY <1>4 DEF LockHeld, Unlocked, NothingAmbiguous, SentOnceAndAfterLink, InLoop, Judged, Working
<1>6. QED
  BY <1>1, <1>3, <1>5 DEF Safe, Discipline

THEOREM SafetyInvariant == Spec => [](Typed /\ Safe)
<1>1. Typed /\ Safe /\ [Next]_vars => (Typed /\ Safe)'
  BY TypeStep, DisciplineStep, OnceStep, ReservedStep DEF Typed, Safe
<1>2. QED
  BY InitSafe, <1>1, PTL DEF Spec

(* No request of a manifest reaches the provider twice, whatever dies       *)
(* where and whichever process runs next (history.py 896-934).             *)
THEOREM NoRetransmission == Spec => []AtMostOneTransmission
BY SafetyInvariant, PTL DEF Safe

(* A request on the wire has a reservation the audit ledger vouches for     *)
(* (history.py 977-990).                                                   *)
THEOREM ReservationComesFirst == Spec => []ReservedBeforeSent
BY SafetyInvariant, PTL DEF Safe

(* At most one process at a time is past the lock (history.py 68-76).       *)
THEOREM SingleWriter ==
    Spec => [](\A p, q \in Procs : pc[p] \notin Unlocked /\ pc[q] \notin Unlocked => p = q)
<1>1. Safe => \A p, q \in Procs : pc[p] \notin Unlocked /\ pc[q] \notin Unlocked => p = q
  BY DEF Safe, Discipline, LockHeld
<1>2. QED
  BY SafetyInvariant, <1>1, PTL
=============================================================================
