------------------------------- MODULE History -------------------------------
(***************************************************************************)
(* Historical market-data acquisition: HistoricalAcquisitionCoordinator.run *)
(* of src/athena/history.py with everything it calls - the quota ledger,    *)
(* the checkpoint register, the provider client, market-data intake, the    *)
(* quarantine and evidence registers, and the audit ledger that must hold   *)
(* exactly one event per line of each of those files.                      *)
(*                                                                         *)
(* Every append to a file is an action of its own, so that an invocation   *)
(* may die between a file and the ledger event that vouches for it.  Files *)
(* are sequences; because they are hash-chained and only grow, the position *)
(* of a line stands for its hash and the length of a file for its terminal  *)
(* hash.  Nothing outside these invocations appends to the ledger here     *)
(* (module EvidenceLedger treats the sharing of the ledger itself).        *)
(***************************************************************************)
EXTENDS Naturals, Sequences, FiniteSets

CONSTANTS Procs,          \* `athena acquire-market-history` processes
          Manifests,      \* retained manifests
          FullScope,      \* those of scope FULL_APPROVED_HISTORY
          WindowCount,    \* windows of a manifest, numbered in its order
          RunLimit,       \* policy: maximum_credits_per_run
          MinuteLimit,    \* policy: history_credits_per_minute
          DayLimit,       \* policy: history_credits_per_day
          ProviderMinute, \* policy: the provider's api_credits_per_minute
          ProviderDay,    \* policy: the provider's api_credits_per_day
          MinutesPerDay,  \* minute buckets to a day bucket
          Free,           \* the lock when nobody holds it
          MaxMinute,      \* bound: the clock stops at this minute
          MaxCrashes,     \* bound: invocations that die
          MaxReports      \* bound: no new invocation after this many reports

ASSUME HistoryAssumption ==
    /\ Manifests # {} /\ FullScope \subseteq Manifests
    /\ Free \notin Procs
    /\ {WindowCount, RunLimit, MinuteLimit, DayLimit, MinutesPerDay} \subseteq Nat \ {0}
    /\ {ProviderMinute, ProviderDay} \subseteq Nat
    /\ MinuteLimit < ProviderMinute /\ DayLimit < ProviderDay
    /\ {MaxMinute, MaxCrashes, MaxReports} \subseteq Nat

VARIABLES lock,         \* holder of the flock on the quota ledger's lock file
          pc, job,      \* per process: its place in run() and its local state
          quota,        \* quota-ledger.jsonl
          checkpoints,  \* history-checkpoints.jsonl
          register,     \* evidence-register.jsonl: Dataset records
          quarantine,   \* market-data-quarantine.jsonl
          ledger,       \* ledger.jsonl: the events that link the files above
          reports,      \* completeness reports that have a ledger event
          minute,       \* the UTC clock, in minutes
          sent,         \* history: requests that reached the provider
          crashes,      \* history: invocations that died
          raised        \* history: some invocation ended with an exception

files == <<quota, checkpoints, register, quarantine, ledger, reports>>
vars  == <<lock, pc, job, files, minute, sent, crashes, raised>>

Window  == 1..WindowCount
Outcome == {"pending", "COMPLETED", "QUARANTINED"}
DayOf(t) == t \div MinutesPerDay

(* Position of the process in run(); all but the first two hold the lock. *)
Unlocked == {"idle", "lock"}
Labels == Unlocked \cup
    {"open", "orphan", "loop", "reserved", "send", "await", "accept", "registered",
     "ingest", "reject", "rejected", "observe", "checkpoint", "checkpointed", "close"}

-----------------------------------------------------------------------------
(* Reading the files.                                                      *)

Line(m, w)        == [manifest |-> m, window |-> w]
Event(type, m, w, n) == [type |-> type, manifest |-> m, window |-> w, ref |-> n]

LinksTo(type, n) == {j \in DOMAIN ledger : ledger[j].type = type /\ ledger[j].ref = n}
LinkedOnce(type, n) == \E j \in DOMAIN ledger : LinksTo(type, n) = {j}

(* What each validate(ledger) asks of a file: one event per line, and no   *)
(* event for a line that is not there.                                     *)
Reconciled(file, type) ==
    /\ \A n \in DOMAIN file : LinkedOnce(type, n)
    /\ \A j \in DOMAIN ledger : ledger[j].type = type => ledger[j].ref \in DOMAIN file

UniqueKeys(file) == \A a, b \in DOMAIN file :
    file[a].manifest = file[b].manifest /\ file[a].window = file[b].window => a = b

MinuteUsed(t) == Cardinality({n \in DOMAIN quota : quota[n].minute = t})
DayUsed(d)    == Cardinality({n \in DOMAIN quota : DayOf(quota[n].minute) = d})

QuotaValid ==
    /\ UniqueKeys(quota)
    /\ \A n \in DOMAIN quota : /\ MinuteUsed(quota[n].minute) <= MinuteLimit
                               /\ DayUsed(DayOf(quota[n].minute)) <= DayLimit
    /\ Reconciled(quota, "market_data_quota_reserved")

CheckpointsValid ==
    /\ UniqueKeys(checkpoints)
    /\ Reconciled(checkpoints, "market_history_checkpointed")

(* validate_market_data_state: the two registers and one ingestion event   *)
(* for each Dataset.                                                       *)
MarketStateValid ==
    /\ Reconciled(register, "evidence_record_registered")
    /\ Reconciled(quarantine, "market_data_quarantined")
    /\ \A n \in DOMAIN register : LinkedOnce("market_data_ingested", n)

Reserved(m) == {quota[n].window : n \in {i \in DOMAIN quota : quota[i].manifest = m}}

OutcomeOf(m, w) ==
    IF \E n \in DOMAIN checkpoints : checkpoints[n].manifest = m /\ checkpoints[n].window = w
    THEN checkpoints[CHOOSE n \in DOMAIN checkpoints :
                        checkpoints[n].manifest = m /\ checkpoints[n].window = w].status
    ELSE "pending"

Outcomes(m) == [w \in Window |-> OutcomeOf(m, w)]

With(outcomes, status) == {w \in Window : outcomes[w] = status}

(* Reservations that never reached a terminal checkpoint. *)
NoOrphans(m, outcomes) == {}                                          \* fault
Orphans(m, outcomes) == {w \in Reserved(m) : outcomes[w] = "pending"}

NeverBlocked(outcomes) == FALSE                                       \* fault
Blocked(outcomes) == With(outcomes, "QUARANTINED") # {}

(* The hash a report quotes for the end of a file. *)
PreviousHash(file) == Len(file) - 1                                   \* fault
TerminalHash(file) == Len(file)

-----------------------------------------------------------------------------
(* Local state of an invocation.                                           *)

NoObservation == [sent |-> 0, left |-> 1]
NoResult      == [status |-> "pending", ref |-> 0]

NewJob(m, limit) ==
    [manifest    |-> m,
     limit       |-> limit,          \* credits this run may still reserve
     keyed       |-> FALSE,          \* the API key is in its environment
     outcomes    |-> [w \in Window |-> "pending"],
     orphans     |-> {},             \* reservations without a checkpoint
     window      |-> 1,              \* the window being worked on
     asked       |-> {},             \* history: the requests it has sent
     observation |-> NoObservation,  \* client.last_credit_observation
     result      |-> NoResult,       \* how that window ended
     pause       |-> FALSE]          \* pause_reason is set

NoJob == NewJob(CHOOSE m \in Manifests : TRUE, 1)

Pending(p) == With(job[p].outcomes, "pending")

At(p, label)   == pc[p] = label
Goto(p, label) == pc' = [pc EXCEPT ![p] = label]
Update(p, new) == job' = [job EXCEPT ![p] = new]

(* flock(LOCK_EX) and its release, which the kernel sees to when the       *)
(* process dies.                                                           *)
LockFree == lock = Free

KeptWhenLeaving(p) == lock                                            \* fault
LockAfter(p) == IF lock = p THEN Free ELSE lock

(* The lock is released and everything in memory is gone. *)
Leave(p) ==
    /\ lock' = LockAfter(p)
    /\ Goto(p, "idle")
    /\ Update(p, NoJob)

Raise(p) == Leave(p) /\ raised' = TRUE /\ UNCHANGED <<files, minute, sent, crashes>>

LogNothing(p, type, n) == UNCHANGED ledger                            \* fault
Log(p, type, n) ==
    ledger' = Append(ledger, Event(type, job[p].manifest, job[p].window, n))

Init ==
    /\ lock = Free
    /\ pc = [p \in Procs |-> "idle"]
    /\ job = [p \in Procs |-> NoJob]
    /\ quota = <<>> /\ checkpoints = <<>> /\ register = <<>>
    /\ quarantine = <<>> /\ ledger = <<>> /\ reports = <<>>
    /\ minute = 0 /\ sent = <<>> /\ crashes = 0 /\ raised = FALSE

-----------------------------------------------------------------------------
(* Opening an invocation.                                                  *)

(* `athena acquire-market-history m [--max-credits limit]`, with a client  *)
(* of its own.                                                             *)
Start(p, m, limit) ==
    /\ At(p, "idle") /\ Len(reports) < MaxReports
    /\ Goto(p, "lock")
    /\ Update(p, NewJob(m, limit))
    /\ UNCHANGED <<lock, files, minute, sent, crashes, raised>>

(* _exclusive_lock: flock(LOCK_EX) blocks until no other process has it.   *)
(* Whether the environment holds the provider's API key is fixed for the   *)
(* life of the process; it plays no part before this step.                 *)
TakeLock(p) ==
    /\ At(p, "lock") /\ LockFree
    /\ lock' = p
    /\ \E keyed \in BOOLEAN : Update(p, [job[p] EXCEPT !.keyed = keyed])
    /\ Goto(p, "open")
    /\ UNCHANGED <<files, minute, sent, crashes, raised>>

(* Both control files are validated; reservations that have no terminal    *)
(* checkpoint are orphans; a quarantined window stops the manifest.        *)
Open(p) ==
    LET outcomes == Outcomes(job[p].manifest)
        orphans == Orphans(job[p].manifest, outcomes)
    IN  /\ At(p, "open")
        /\ IF ~(CheckpointsValid /\ QuotaValid)
           THEN Raise(p)
           ELSE /\ Update(p, [job[p] EXCEPT !.outcomes = outcomes, !.orphans = orphans])
                /\ Goto(p, IF orphans # {} THEN "orphan"
                           ELSE IF Blocked(outcomes) THEN "close"
                           ELSE "loop")
                /\ UNCHANGED <<lock, files, minute, sent, crashes, raised>>

(* The orphans are quarantined in the order of their request hashes, which *)
(* is any order.                                                           *)
TakeOrphan(p) ==
    /\ At(p, "orphan")
    /\ \E w \in job[p].orphans : Update(p, [job[p] EXCEPT !.window = w])
    /\ Goto(p, "reject")
    /\ UNCHANGED <<lock, files, minute, sent, crashes, raised>>

-----------------------------------------------------------------------------
(* One window: reservation, request, intake, checkpoint.                   *)

(* The first window of the manifest that has no outcome. *)
NewestWindow(p) == {w \in Pending(p) : \A v \in Pending(p) : w >= v}    \* fault
NextWindow(p) == {w \in Pending(p) : \A v \in Pending(p) : w <= v}

BudgetIgnored(p) == TRUE                                              \* fault
BudgetLeft(p) == job[p].limit > 0

QuotaNotExceeded ==                                                   \* fault
    MinuteUsed(minute) <= MinuteLimit /\ DayUsed(DayOf(minute)) <= DayLimit
QuotaLeft == MinuteUsed(minute) < MinuteLimit /\ DayUsed(DayOf(minute)) < DayLimit

(* quota.reserve: the quota ledger is validated, then QuotaPause ends the  *)
(* loop or the line is appended.                                           *)
Reserve(p) ==
    /\ At(p, "loop") /\ Pending(p) # {} /\ BudgetLeft(p)
    /\ IF ~QuotaValid THEN Raise(p)
       ELSE \/ /\ ~QuotaLeft
               /\ Update(p, [job[p] EXCEPT !.pause = TRUE])
               /\ Goto(p, "close")
               /\ UNCHANGED <<lock, files, minute, sent, crashes, raised>>
            \/ /\ QuotaLeft
               /\ \E w \in NextWindow(p) :
                     /\ quota' = Append(quota, [manifest |-> job[p].manifest,
                                                window |-> w, minute |-> minute])
                     /\ Update(p, [job[p] EXCEPT !.window = w])
               /\ Goto(p, "reserved")
               /\ UNCHANGED <<lock, checkpoints, register, quarantine, ledger, reports,
                              minute, sent, crashes, raised>>

LinkReservation(p) ==
    /\ At(p, "reserved")
    /\ Log(p, "market_data_quota_reserved", Len(quota))
    /\ Update(p, [job[p] EXCEPT !.limit = @ - 1])
    /\ Goto(p, "send")
    /\ UNCHANGED <<lock, quota, checkpoints, register, quarantine, reports,
                   minute, sent, crashes, raised>>

(* The loop ends: no window is left, or the credit budget of this run is   *)
(* used up, which is a pause.                                              *)
EndLoop(p) ==
    /\ At(p, "loop") /\ (Pending(p) = {} \/ ~BudgetLeft(p))
    /\ Update(p, [job[p] EXCEPT !.pause = (Pending(p) # {})])
    /\ Goto(p, "close")
    /\ UNCHANGED <<lock, files, minute, sent, crashes, raised>>

(* fetch() raises before the request leaves, for want of the API key. *)
FetchRefused(p) ==
    /\ At(p, "send") /\ ~job[p].keyed
    /\ Goto(p, "reject")
    /\ UNCHANGED <<lock, job, files, minute, sent, crashes, raised>>

Transmit(p) ==
    /\ At(p, "send") /\ job[p].keyed
    /\ sent' = Append(sent,
           [manifest |-> job[p].manifest, window |-> job[p].window, minute |-> minute])
    /\ Update(p, [job[p] EXCEPT !.asked = @ \cup {Len(sent) + 1}])
    /\ Goto(p, "await")
    /\ UNCHANGED <<lock, files, minute, crashes, raised>>

(* HTTP error, timeout, broken connection: fetch() raises MarketDataError  *)
(* and leaves last_credit_observation as it was.                           *)
TransportFails(p) ==
    /\ At(p, "await")
    /\ Goto(p, "reject")
    /\ UNCHANGED <<lock, job, files, minute, sent, crashes, raised>>

(* What ingest_payload may make of a payload: it passes the controls of    *)
(* normalize_provider_payload, or is to be quarantined.                    *)
Assessments == {"accept", "reject"}

(* A response: without credit headers, or reporting credits left (0 or     *)
(* some).                                                                  *)
Respond(p) ==
    /\ At(p, "await")
    /\ \E seen \in {NoObservation} \cup [sent : {Len(sent)}, left : {0, 1}] :
           Update(p, [job[p] EXCEPT !.observation = seen])
    /\ \E next \in Assessments : Goto(p, next)
    /\ UNCHANGED <<lock, files, minute, sent, crashes, raised>>

(* ingest_payload, accepted: the record is new because acquired_at is part *)
(* of its identity; the register line, its link, the ingestion event.      *)
Register(p) ==
    /\ At(p, "accept")
    /\ register' = Append(register, Line(job[p].manifest, job[p].window))
    /\ Goto(p, "registered")
    /\ UNCHANGED <<lock, job, quota, checkpoints, quarantine, ledger, reports,
                   minute, sent, crashes, raised>>

LinkRecordOnly(p) ==                                                  \* fault
    /\ At(p, "registered")
    /\ Log(p, "evidence_record_registered", Len(register))
    /\ Update(p, [job[p] EXCEPT !.result = [status |-> "COMPLETED", ref |-> Len(register)]])
    /\ Goto(p, "observe")
    /\ UNCHANGED <<lock, quota, checkpoints, register, quarantine, reports,
                   minute, sent, crashes, raised>>

LinkRecord(p) ==
    /\ At(p, "registered")
    /\ Log(p, "evidence_record_registered", Len(register))
    /\ Goto(p, "ingest")
    /\ UNCHANGED <<lock, job, quota, checkpoints, register, quarantine, reports,
                   minute, sent, crashes, raised>>

Ingest(p) ==
    /\ At(p, "ingest")
    /\ Log(p, "market_data_ingested", Len(register))
    /\ Update(p, [job[p] EXCEPT !.result = [status |-> "COMPLETED", ref |-> Len(register)]])
    /\ Goto(p, "observe")
    /\ UNCHANGED <<lock, quota, checkpoints, register, quarantine, reports,
                   minute, sent, crashes, raised>>

(* MarketDataQuarantineRegister.append, for a rejected payload, a failed   *)
(* fetch or an orphan: it validates nothing before it writes.              *)
Reject(p) ==
    /\ At(p, "reject")
    /\ quarantine' = Append(quarantine, Line(job[p].manifest, job[p].window))
    /\ Goto(p, "rejected")
    /\ UNCHANGED <<lock, job, quota, checkpoints, register, ledger, reports,
                   minute, sent, crashes, raised>>

LinkRejection(p) ==
    /\ At(p, "rejected")
    /\ Log(p, "market_data_quarantined", Len(quarantine))
    /\ Update(p, [job[p] EXCEPT !.result = [status |-> "QUARANTINED", ref |-> Len(quarantine)]])
    /\ Goto(p, IF job[p].orphans = {} THEN "observe" ELSE "checkpoint")
    /\ UNCHANGED <<lock, quota, checkpoints, register, quarantine, reports,
                   minute, sent, crashes, raised>>

(* client.last_credit_observation is logged for this window if it is not   *)
(* empty.  A failed fetch leaves it as it was, so it may be that of an     *)
(* earlier window of this run.                                             *)
LatestOfAnyRun(p) == Len(sent)                                        \* fault
LastObserved(p) == job[p].observation.sent

Observe(p) ==
    LET seen == LastObserved(p)
    IN  /\ At(p, "observe")
        /\ IF seen = 0 THEN UNCHANGED ledger
                       ELSE Log(p, "market_data_quota_observed", seen)
        /\ Goto(p, "checkpoint")
        /\ UNCHANGED <<lock, job, quota, checkpoints, register, quarantine, reports,
                       minute, sent, crashes, raised>>

(* checkpoints.append: the register is validated, and a request that has a *)
(* terminal checkpoint is refused, before the line is written.             *)
Checkpoint(p) ==
    /\ At(p, "checkpoint")
    /\ IF CheckpointsValid /\ OutcomeOf(job[p].manifest, job[p].window) = "pending"
       THEN /\ checkpoints' = Append(checkpoints,
                   [manifest |-> job[p].manifest, window |-> job[p].window,
                    status |-> job[p].result.status, ref |-> job[p].result.ref])
            /\ Goto(p, "checkpointed")
            /\ UNCHANGED <<lock, job, quota, register, quarantine, ledger, reports,
                           minute, sent, crashes, raised>>
       ELSE Raise(p)

(* The link; then the next orphan, the next window, or the end: a          *)
(* quarantine or a zero balance stops the run.                             *)
LinkCheckpoint(p) ==
    LET j == job[p]
        left == j.orphans \ {j.window}
        stop == j.result.status = "QUARANTINED"
        dry  == ~stop /\ j.observation.left < 1
    IN  /\ At(p, "checkpointed")
        /\ Log(p, "market_history_checkpointed", Len(checkpoints))
        /\ Update(p, [j EXCEPT !.outcomes[j.window] = j.result.status,
                               !.orphans = left, !.result = NoResult, !.pause = dry])
        /\ Goto(p, IF left # {} THEN "orphan" ELSE IF stop \/ dry THEN "close" ELSE "loop")
        /\ UNCHANGED <<lock, quota, checkpoints, register, quarantine, reports,
                       minute, sent, crashes, raised>>

-----------------------------------------------------------------------------
(* Closing an invocation.                                                  *)

(* _completeness_body *)
PauseFirst(outcomes, pause) ==                                        \* fault
    IF Blocked(outcomes) THEN "BLOCKED_QUARANTINE"
    ELSE IF pause THEN "PAUSED_QUOTA"
    ELSE IF With(outcomes, "pending") = {} THEN "COMPLETE" ELSE "IN_PROGRESS"

StatusOf(outcomes, pause) ==
    IF Blocked(outcomes) THEN "BLOCKED_QUARANTINE"
    ELSE IF With(outcomes, "pending") = {} THEN "COMPLETE"
    ELSE IF pause THEN "PAUSED_QUOTA" ELSE "IN_PROGRESS"

ReportOf(p) ==
    LET m == job[p].manifest
        status == StatusOf(job[p].outcomes, job[p].pause)
    IN  [manifest   |-> m,
         status     |-> status,
         outcomes   |-> job[p].outcomes,
         ready      |-> status = "COMPLETE" /\ m \in FullScope,
         checkpoint |-> TerminalHash(checkpoints),
         quota      |-> TerminalHash(quota)]

(* Both control files are validated again and, when every window is        *)
(* COMPLETED, the whole market-data state; then the report and its event.  *)
(* A report file whose event was not written is never read.                *)
Close(p) ==
    /\ At(p, "close")
    /\ IF CheckpointsValid /\ QuotaValid
          /\ (With(job[p].outcomes, "COMPLETED") = Window => MarketStateValid)
       THEN /\ reports' = Append(reports, ReportOf(p))
            /\ ledger' = Append(ledger, Event("market_history_reported",
                                     job[p].manifest, job[p].window, Len(reports) + 1))
            /\ Leave(p)
            /\ UNCHANGED <<quota, checkpoints, register, quarantine,
                           minute, sent, crashes, raised>>
       ELSE Raise(p)

(* The process dies, or an exception such as a failed write leaves run():  *)
(* the kernel or the context manager releases the lock.                    *)
Crash(p) ==
    /\ pc[p] # "idle" /\ crashes < MaxCrashes
    /\ Leave(p)
    /\ crashes' = crashes + 1
    /\ UNCHANGED <<files, minute, sent, raised>>

Tick ==
    /\ minute < MaxMinute
    /\ minute' = minute + 1
    /\ UNCHANGED <<lock, pc, job, files, sent, crashes, raised>>

Step(p) ==
    \/ TakeLock(p) \/ Open(p) \/ TakeOrphan(p)
    \/ Reserve(p) \/ LinkReservation(p) \/ EndLoop(p)
    \/ FetchRefused(p) \/ Transmit(p) \/ TransportFails(p) \/ Respond(p)
    \/ Register(p) \/ LinkRecord(p) \/ Ingest(p)
    \/ Reject(p) \/ LinkRejection(p)
    \/ Observe(p) \/ Checkpoint(p) \/ LinkCheckpoint(p) \/ Close(p)

Next ==
    \/ \E p \in Procs :
          \/ \E m \in Manifests, limit \in 1..RunLimit : Start(p, m, limit)
          \/ Step(p)
          \/ Crash(p)
    \/ Tick

Spec == Init /\ [][Next]_vars

-----------------------------------------------------------------------------
(* Properties.                                                             *)

Key(e)     == <<e.manifest, e.window>>
KeysOf(s)  == {Key(s[n]) : n \in DOMAIN s}
Terminal(m, status) == {w \in Window : OutcomeOf(m, w) = status}

Lines == [manifest : Manifests, window : Window]

JobType ==
    [manifest : Manifests, limit : 0..RunLimit, keyed : BOOLEAN,
     outcomes : [Window -> Outcome],
     orphans : SUBSET Window, window : Window, asked : SUBSET Nat,
     observation : [sent : Nat, left : {0, 1}],
     result : [status : Outcome, ref : Nat], pause : BOOLEAN]

EventType    == {"market_data_quota_reserved", "market_data_quota_observed",
                 "evidence_record_registered", "market_data_ingested",
                 "market_data_quarantined", "market_history_checkpointed",
                 "market_history_reported"}
ReportStatus == {"COMPLETE", "BLOCKED_QUARANTINE", "PAUSED_QUOTA", "IN_PROGRESS"}
Events       == [type : EventType, manifest : Manifests, window : Window, ref : Nat]
Reservations == [manifest : Manifests, window : Window, minute : Nat]
Terminals    == [manifest : Manifests, window : Window, status : Outcome, ref : Nat]
Reports      == [manifest : Manifests, status : ReportStatus, outcomes : [Window -> Outcome],
                 ready : BOOLEAN, checkpoint : Nat, quota : Nat]

FilesTyped ==
    /\ quota \in Seq(Reservations) /\ checkpoints \in Seq(Terminals)
    /\ register \in Seq(Lines) /\ quarantine \in Seq(Lines)
    /\ ledger \in Seq(Events) /\ reports \in Seq(Reports)

TypeOK ==
    /\ lock \in Procs \cup {Free}
    /\ pc \in [Procs -> Labels] /\ job \in [Procs -> JobType]
    /\ FilesTyped
    /\ sent \in Seq(Reservations)
    /\ minute \in Nat /\ crashes \in Nat /\ raised \in BOOLEAN

(* No request of a manifest reaches the provider twice, whatever dies      *)
(* where and whoever runs next: "automatic retransmission is prohibited"   *)
(* (history.py 896-934, automatic_retries = 0).                            *)
AtMostOneTransmission == UniqueKeys(sent)

(* A request on the wire is covered by a line of the quota ledger that the *)
(* audit ledger vouches for (history.py 977-990).                          *)
ReservedBeforeSent ==
    \A s \in DOMAIN sent : \E n \in DOMAIN quota :
        /\ Key(quota[n]) = Key(sent[s])
        /\ LinkedOnce("market_data_quota_reserved", n)

(* What the provider sees stays within what the provider grants in every   *)
(* minute and on every day.  The local ceilings do not by themselves see to *)
(* that, and are exceeded themselves: a reservation counts in the minute   *)
(* in which it is made and its request may leave in a later one, which has *)
(* all its own requests besides.  That one such request per minute is all  *)
(* there can be, through deaths and rival invocations, is why ceilings     *)
(* below the provider's limits are enough (history.py 122-133, 642-652,    *)
(* 873-888).                                                               *)
SentIn(t)    == Cardinality({s \in DOMAIN sent : sent[s].minute = t})
SentOnDay(d) == Cardinality({s \in DOMAIN sent : DayOf(sent[s].minute) = d})

ProviderQuotaRespected ==
    \A t \in 0..minute : SentIn(t) <= ProviderMinute /\ SentOnDay(DayOf(t)) <= ProviderDay

(* A COMPLETED checkpoint names a registered Dataset of that request with  *)
(* its registration and its ingestion on the ledger; a QUARANTINED one     *)
(* names a linked quarantine line (history.py 507-559, market_data.py      *)
(* 764-918).                                                               *)
CheckpointsGrounded ==
    \A n \in DOMAIN checkpoints :
        LET c == checkpoints[n]
        IN  \/ /\ c.status = "COMPLETED" /\ c.ref \in DOMAIN register
               /\ Key(register[c.ref]) = Key(c)
               /\ LinkedOnce("evidence_record_registered", c.ref)
               /\ LinkedOnce("market_data_ingested", c.ref)
            \/ /\ c.status = "QUARANTINED" /\ c.ref \in DOMAIN quarantine
               /\ Key(quarantine[c.ref]) = Key(c)
               /\ LinkedOnce("market_data_quarantined", c.ref)

(* A report is true of the checkpoint prefix whose terminal hash it quotes: *)
(* it is built from outcomes kept in memory, while the hash is read from   *)
(* the file.  Readiness is claimed only for a full-scope manifest with all *)
(* windows COMPLETED, and a stop with pending windows and no quarantine is *)
(* always a stated pause, so IN_PROGRESS is never reported (745-812).      *)
ReportsHonest ==
    \A i \in DOMAIN reports :
        LET r == reports[i]
            Done(w, status) == \E n \in 1..r.checkpoint :
                Key(checkpoints[n]) = <<r.manifest, w>> /\ checkpoints[n].status = status
        IN  /\ \A w \in Window, status \in {"COMPLETED", "QUARANTINED"} :
                   r.outcomes[w] = status <=> Done(w, status)
            /\ r.status = "COMPLETE" <=> \A w \in Window : Done(w, "COMPLETED")
            /\ r.ready => r.manifest \in FullScope /\ r.status = "COMPLETE"
            /\ r.status # "IN_PROGRESS"

(* Requests leave in manifest order, each only when all earlier windows of *)
(* its manifest are COMPLETED and linked; so a quarantined or ambiguous    *)
(* window stops its manifest for ever.  And none leaves while a control    *)
(* file and the ledger disagree, whichever manifest caused it (890-962).   *)
FrontierOnly ==
    [][sent' # sent =>
        LET k == sent'[Len(sent')]
        IN  /\ \A w \in 1..(k.window - 1) : OutcomeOf(k.manifest, w) = "COMPLETED"
            /\ CheckpointsValid /\ QuotaValid]_vars

(* What makes AtMostOneTransmission and ReservedBeforeSent inductive.  The  *)
(* lock is held from `open` on, so one process at a time has obligations:  *)
(* past the orphan check nothing but its current window is both reserved   *)
(* and without outcome, and that window is sent only after its reservation *)
(* is linked.                                                              *)
LockHeld == \A p \in Procs : pc[p] \notin Unlocked => lock = p

CurrentKey(p) == <<job[p].manifest, job[p].window>>
InLoop   == {"loop", "reserved", "send", "await", "accept", "registered", "ingest", "observe"}
Judged   == {"observe", "checkpoint", "checkpointed"}
Working  == (InLoop \ {"loop"}) \cup {"reject", "rejected"} \cup Judged

Unresolved(p) == Pending(p) \cap Reserved(job[p].manifest)

NothingAmbiguous(p) ==
    /\ pc[p] \in InLoop => job[p].orphans = {}
    /\ pc[p] \in Judged =>
          job[p].result.status \in IF job[p].orphans = {} THEN {"COMPLETED", "QUARANTINED"}
                                   ELSE {"QUARANTINED"}
    /\ pc[p] = "loop" => Unresolved(p) = {}
    /\ pc[p] \in Working /\ job[p].orphans = {} => Unresolved(p) \subseteq {job[p].window}

SentOnceAndAfterLink(p) ==
    /\ pc[p] \in {"reserved", "send"} => CurrentKey(p) \notin KeysOf(sent)
    /\ pc[p] = "reserved" =>
          /\ quota # <<>> /\ Key(quota[Len(quota)]) = CurrentKey(p)
          /\ LinksTo("market_data_quota_reserved", Len(quota)) = {}
    /\ pc[p] = "send" => \E n \in DOMAIN quota :
          Key(quota[n]) = CurrentKey(p) /\ LinkedOnce("market_data_quota_reserved", n)

LinkedReservationsExist == \A j \in DOMAIN ledger :
    ledger[j].type = "market_data_quota_reserved" => ledger[j].ref \in DOMAIN quota

Discipline ==
    /\ LockHeld /\ LinkedReservationsExist
    /\ \A p \in Procs : NothingAmbiguous(p) /\ SentOnceAndAfterLink(p)

(* validate_historical_state for manifest m. *)
Latest(m) == CHOOSE i \in DOMAIN reports : /\ reports[i].manifest = m
                 /\ \A k \in DOMAIN reports : reports[k].manifest = m => k <= i

ObservationsValid(m) ==
    LET observed == {j \in DOMAIN ledger : ledger[j].type = "market_data_quota_observed"
                                              /\ ledger[j].manifest = m}
    IN  /\ \A j \in observed : OutcomeOf(m, ledger[j].window) # "pending"
        /\ \A i, j \in observed : ledger[i].window = ledger[j].window => i = j

HistoryValid(m) ==
    /\ CheckpointsValid /\ QuotaValid /\ MarketStateValid
    /\ Reserved(m) = Window \ Terminal(m, "pending")
    /\ ObservationsValid(m)
    /\ (\E i \in DOMAIN reports : reports[i].manifest = m) =>
           LET r == reports[Latest(m)]
           IN  /\ r.checkpoint = Len(checkpoints) /\ r.quota = Len(quota)
               /\ \A status \in Outcome :
                    Cardinality(With(r.outcomes, status)) = Cardinality(Terminal(m, status))

(* What an invocation leaves behind when it reports, validate-market-      *)
(* history accepts - after any earlier crashes, as long as they left the   *)
(* Dataset and quarantine registers reconciled (1075-1181 against 858-1072). *)
LastReportAccepted == MarketStateValid => HistoryValid(reports[Len(reports)].manifest)
ReportsValidate == [][reports' # reports => LastReportAccepted']_vars

(* "Every invocation writes a content-addressed completeness report linked *)
(* to the ledger" (docs/HISTORICAL_ACQUISITION.md, step 9): none ends with  *)
(* an exception instead.                                                   *)
EveryInvocationReports == ~raised

(* It takes a death for that.  Failed and refused requests, quarantines,   *)
(* orphans, pauses, rival invocations and other manifests in the same      *)
(* files never leave anything behind that a validation of this or a later  *)
(* invocation raises for (history.py 610, 733, 889-934, 971-1051,          *)
(* market_data.py 397-440, 792-918).                                       *)
RaisedOnlyAfterCrash == raised => crashes > 0

(* Whoever logs a credit observation logs that of a request which the same *)
(* invocation has sent, for this window or an earlier one of its manifest: *)
(* the client's field is only set by a response and read after every       *)
(* window, a window may fail without setting it, and other invocations of  *)
(* the same manifest send before and after (history.py 1020-1031,          *)
(* market_data.py 305, 366).                                               *)
ObservationOfThisRun ==
    [][\A p \in Procs : ledger' # ledger /\ pc'[p] # pc[p] =>
        LET e == ledger'[Len(ledger')]
        IN  e.type = "market_data_quota_observed" =>
                /\ e.ref \in job[p].asked
                /\ sent[e.ref].manifest = e.manifest /\ sent[e.ref].window <= e.window]_vars

(* The acquisition implements the life cycle of WindowLifecycle: a window's *)
(* stage is read off the checkpoint and quota files, so the refinement says *)
(* that no crash, restart or second process can make a file take a window  *)
(* back, forward out of order, or to a second request.                     *)
StageOf(m, w) ==
    IF OutcomeOf(m, w) # "pending" THEN OutcomeOf(m, w)
    ELSE IF w \in Reserved(m) THEN "reserved" ELSE "planned"

Lifecycle == INSTANCE WindowLifecycle WITH
    stage    <- [m \in Manifests |-> [w \in Window |-> StageOf(m, w)]],
    requests <- [m \in Manifests |-> [w \in Window |->
                    Cardinality({s \in DOMAIN sent : Key(sent[s]) = <<m, w>>})]]

ImplementsLifecycle == Lifecycle!Spec

=============================================================================
