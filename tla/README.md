# A verification project for ATHENA

ATHENA (`src/athena`) is a governed research pipeline run as short-lived
commands over plain files: it registers evidence, ingests papers and market data,
lets a Decision Court judge strategies, and keeps a hash-chained audit ledger that
must vouch for every line of every other file. Beside the files, a runtime layer
migrates a PostgreSQL schema, keeps immutable objects in an S3 bucket and
transient items in Redis. What is hard is what happens *between* two accesses:
commands that overlap, commands that die between a file and its ledger event,
requests and commits whose answer is lost, and state that is read once and used later.

The project models that core in TLA+, checks it with TLC on small instances, and
proves the most important results with TLAPS for every value of the constants.

## 1. Inventory

| Component (source) | State it keeps | Operations | Talks to | What is hard | What makes it correct |
|---|---|---|---|---|---|
| Audit ledger (`evidence.py`) | `ledger.jsonl`, a SHA-256 chain | `append`, `validate`, `entries` | called by every command | no lock: validate, read and write are three file accesses | chain valid unless appends overlap; a break is noticed, contained, permanent |
| Evidence register (`records.py`) | `evidence-register.jsonl` | `append`, `validate` | ledger | record and event are two writes; identity compared before an unlocked append | one version per identity, relations present, exactly one event per record |
| Historical acquisition (`history.py`) | quota ledger, checkpoint register, reports, manifests, an `flock` | planning, `run`, `reserve`, `append`, `validate*` | market-data intake, client, registers, ledger, clock | crashes between file and event; a request whose answer is lost; two invocations; the minute or day that ends; windows' borders | no request twice; reservation before request; honest reports; provider quota; every manifest settles; windows divide the period |
| Market-data intake and client (`market_data.py`) | objects, quarantine register, last credit observation | `fetch`, `ingest_payload`, payload controls, `append`, `validate_market_data_state` | provider, registers, ledger | failed or late responses, stale observation, what controls on one window let through in all of them | each checkpoint backed by a Dataset or a rejection; bounded gaps; good answers never quarantined |
| Research intake (`intake.py`) | objects, quarantine register | `ingest`, `validate_intake_state` | register, ledger | duplicate rules decided on a snapshot; packages of several records | accepted means whole; bytes retained; no identity or paper twice |
| Research cycle (`orchestrator.py`) | `status.json` and its temporary file | `run_cycle` | register, Court, ledger, policy file | two reads of the policy; a death at any step; one temporary file for all cycles | evidence before verdict; published status backed by the ledger and the register |
| Decision Court, metrics (`court.py`, `metrics.py`, `models.py`) | none | `adjudicate`, metrics | cycle | drawdown in one pass, gate severity, gates that move together | worst fall; verdict monotone in the evidence |
| Runtime persistence (`persistence.py`) | PostgreSQL schema, S3 versions, proof-store files, Redis keys | `apply`, `put_immutable`, `get_verified`, backup and recovery proof, `enqueue` | external services | advisory lock, rollback, lost commits; head-then-put, foreign versions, files truncated in place; `SET NX EX` | one whole catalog, executed once; a returned reference restores; an item accepted once in its lifetime |
| Freeze (`freeze.py`) | none | document checks | - | - | - |
| Command line (`cli.py`) | none | dispatch | all | - | - |
| Dashboard, schemas, deployment | static | - | - | - | - |

The shared files are the only channel between commands: all append to one
ledger, intake and cycle share the evidence register, market-data commands share
their quarantine register, and all manifests of historical acquisition share the
quota ledger and the checkpoint register. Only `acquire-market-history` takes a file
lock. The runtime services share no state with the files, nor with each other.

The hazards this leaves, with the lines where they bite and the properties that
would catch them, are listed in `PROJECT.json` under `hazards`.

## 2. The modules

    EvidenceLedger        History --- implements ---> WindowLifecycle
    ResearchIntake        HistoryPlan
    Court <- ResearchCycle
    RuntimeClients <- Migrations, ObjectStore, TransientQueue <- RuntimePersistence

(`<-`: extended by.) Each `MC*` module gives a module its instance for TLC, each
`*Proofs` module holds its theorems; `InductionLemmas` has what several proofs need of
the integers. `HistoryProofs` and `AcquisitionProofs` are about `History`, the theorems on
`Court` are in `ResearchCycleProofs`, those on the three stores in `RuntimePersistenceProofs`.

### EvidenceLedger
`EvidenceLedger.append` by any number of commands. `Validate`, `Read` and `Write`
are the three accesses `append` makes to the file (55, 56-64, 65-69); a
`Crash` may come in between. A line is its body (sequence, previous hash, and
the command that wrote it in place of the payload) and its hash; `Digest` is an
injective constructor. Lines torn by a partial write are not modelled.

All other modules treat an append to the ledger as one step; this module is what
takes that step apart.

### History and WindowLifecycle
`History` is `HistoricalAcquisitionCoordinator.run` with everything it
calls. The program counter of a process names its place in `run`; every append to
a file, and every event, is an action of its own:

| code | actions |
|---|---|
| `cli.main`, `_exclusive_lock` | `Start`, `TakeLock`, (`Leave` releases) |
| validation at the start, orphans (889-934) | `Open`, `TakeOrphan` |
| the loop and `reserve` (971-989, 632-679) | `EndLoop`, `Reserve`, `LinkReservation` |
| `fetch` (323-372) | `FetchRefused`, `Transmit`, `TransportFails`, `Respond` |
| `ingest_payload` accepted (792-918) | `Register`, `LinkRecord`, `Ingest` |
| rejected or failed (397-440) | `Reject`, `LinkRejection` |
| credit observation, checkpoint (1020-1044) | `Observe`, `Checkpoint`, `LinkCheckpoint` |
| final validations and report (1045-1072) | `Close` |
| the process dies or a file access raises | `Crash` |
| UTC clock | `Tick` |

Files are sequences; since they are hash-chained and only grow, the position of a
line stands for its hash and the length of a file for its terminal hash. A window
is its number in the manifest. The provider answers arbitrarily: refused before it
is sent, failed, or a response with or without credit headers whose payload passes
the controls or does not. `HistoryValid` is `validate_historical_state`.

Left out: lines torn by a partial write; a clock that runs backwards; the
`DUPLICATE` answer of `ingest_payload` (unreachable here because `acquired_at` is
part of the Dataset's identity); the error for a `max_credits` outside the policy
(raised before any effect); a change of the API key while a process runs; a report
file and its event are one action, because a report without event is never read.

`WindowLifecycle` is the abstract specification: a window is planned, reserved,
requested at most once, and ends once, in manifest order. `History` implements
it under a mapping that reads the stage of a window off the files.

### HistoryPlan
What a manifest asks for, and which answers pass: `Plan` is `_partition_windows`
with the manifest's own validation, `Answer` the controls of
`normalize_provider_payload` on one window after the other. Days are numbers
(day 0 is a Friday, as 2010-01-01 was), a bar is the number of its interval. An
answer is any set of bars of the window and perhaps one of the day before or
after it; everything the controls ask of a bar but its time is one flag
(`AnswerMalformed`). `History` leaves open which answers pass, so the two
modules complement each other. A plan has one series, any of `Series`, from any of the
`Overrides` to any of the series' ends. `Closures` are the weekdays on which the other
markets are closed; `OrderlyCalendar` says which closures the three controls tolerate, and
`MarketsAnswerAccepted` is proved under it.

### ResearchIntake
`ResearchIntake.ingest` by several processes: `Submit`, `Preflight` (the manifest's
controls and the duplicate rules on the records read at that moment),
`Duplicate`, the quarantine path `NumberRejection`/`Reject`/`LinkRejection`, and
the accepting path `Persist`, then `Check`/`Write`/`Link` for every record, `Accept`,
`Reconcile`. A manifest is its locator, its bytes, its author and whether it passes the
manifest's own controls (one flag for all of `_validate_request`). One author per
manifest; "card" stands for the Research Card with the hypotheses and formulas
after it. The author record embeds locator and provenance, so a second paper by the same
author key always conflicts; the model shows that as it is.

### ResearchCycle and Court
`run_cycle`: `Begin` (load the request, read the policy and build the records),
`Check`/`Write`/`Link` for Dataset, Strategy and Experiment, `Submit`, `Deliver` (read
the policy again, adjudicate, log), `Check`/`Write`/`Link` for the ValidationResult,
`Draft` (validate, write the temporary file) and `Publish` (rename). `EditPolicy` changes
the policy file. The reads of the policy share a step with the next
effect, which is sound because nothing else in between depends on them. A record
carries the request it came from, since its provenance holds the digest of the
request file: a revised request of the same strategy is refused at its Strategy
record after its Dataset was registered. Requests that fail `load_request` or
`packet.validate` are left out: they have no effect. So is a status file that is truncated
while it is being written.

`Court` is `adjudicate` with every gate that a packet of a cycle can fail, and the
metrics they read; `Deliver` logs its verdict on the packet of the request. Outcomes are
whole numbers of a fraction of R and every quotient is multiplied out, the Wilson bound
included (its lower end reaches *c* exactly if the hit rate is *z* standard errors of
*c* above it).

### The runtime stores
`RuntimeClients` has what the clients of the three services share: one operation at
a time, a bounded number of operations and faults. A client may die at every step.

| code | actions |
|---|---|
| `PostgresMigrationCatalog.apply`: transaction, `pg_advisory_xact_lock` (779-792) | `BeginApply`, `LockMigrations` |
| `SELECT` of the applied rows (793-797) | `ReadApplied` |
| the loop: skip, refuse, execute and insert (798-812) | `Skip`, `Refuse`, `Execute` |
| commit, or rollback (813-821) | `Commit`, `CommitUnanswered`, `Abort` |
| `S3CompatibleObjectStore.put_immutable`, `get_verified` (381-463) | `BeginPut`, `HeadMisses`, `HeadHits`, `Put`, `Verify` |
| the SDK repeats a put; another writer | `PutTwice`, `ForeignPut` |
| `FilesystemProofStore.put_immutable` (473-501) | `LookMisses`, `LookHits`, `Compare`, `Truncate`, `Fill`, `Describe`, `Finish` |
| backup, manifest, `restore_verified` (664-716) | `Returns` leads from one put to the next, `Restore` |
| `RedisTransientQueue.enqueue` (847-874) | `Enqueue`, `EnqueueUnanswered`, `Tick` |

PostgreSQL, the bucket and Redis are external and modelled by what the code relies on:
a transaction is invisible until it commits and its advisory lock ends with it; each
put adds a version with an id of its own; an item is dropped when its lifetime ends.
A version is whole if its bytes are those its key names, the digest being injective.
A file of the proof store is truncated before it is filled, so a reader
may find it torn. `RuntimePersistence` composes the three.

## 3. What is checked

| run | instance | shows |
|---|---|---|
| `ledger` | 3 commands, 4 lines | `SerialAppendsKeepChain`, `BreakIsContained`, `BreakIsPermanent` |
| `acquisition` | 2 manifests of 2 windows, 2 processes, 1 crash, minutes of 1 credit | `AtMostOneTransmission`, `ReservedBeforeSent`, `CheckpointsGrounded`, `ReportsHonest`, `ProviderQuotaRespected`, `ObservationOfThisRun`, `FrontierOnly`, `ReportsValidate`, `RaisedOnlyAfterCrash`, `ImplementsLifecycle` |
| `live` | 1 manifest of 3 windows, 2 processes, 1 crash, days of 1 credit | `Settles`, `ProviderQuotaRespected` |
| `controls` | 4 series over two and a half weeks, all answers | `PlanDividesPeriod`, `CryptoGapsAtBordersOnly`, `SilenceIsBounded`, `MarketsAnswerAccepted` |
| `intake` | 2 processes, 5 manifests, 2 invocations, 1 crash | `AcceptedIsWhole`, `PapersRetained`, `SerialCorpusUnique`, `ReconcilesUnlessInterrupted`, `ConfirmedUnlessInterrupted` |
| `cycle` | 2 processes, a request and its revision, 2 policies, 2 cycles, 1 mishap; all packets of at most 4 trades | `EvidenceFirst`, `StatusBacked`, `SerialIdentities`, `StatusMovesForward`, `DrawdownIsWorstFall`, `VerdictIsMonotone` |
| `runtime` | 2 clients, 3 operations, 2 faults, 3 catalogs | `DatabaseIsACatalog`, `ValidMeansInstalled`, `RefusedOnlyForOtherBytes`, `AppliesEnd`; `ReferencesRestore`, `ManifestsRestore`, `RefusedOnlyAfterMishap`, `PutsAreIdempotent`; `StoredOncePerLifetime` |

`runtime` checks its type invariant besides; every module's is a theorem. The five other runs
are the findings of section 5.

### Bounds
- `ledger`: three commands make a race of two and a third that meets the broken
  file afterwards; four lines hold a valid prefix, a break and lines on top.
- `acquisition`: two manifests are the smallest number that shares files; two windows give
  one that ends before the other begins. A minute has a local ceiling of one
  request and a day of two, and the provider grants one more of each (in the policy: seven of
  eight, 720 of 800). The run reaches two requests in one minute, so that the provider's limit
  is attained and the local ceiling exceeded (section 5). Two reports allow a run, a resumption after a crash or pause, and a
  second process that waits.
- `live`: a bucket of the clock is a day, so that the daily limits are the ones that bind
  (a local ceiling of one, the provider's of two); three windows need three days. Reports are not the limit (at most 9), and the
  property excuses a clock that has run out.
- `controls`: windows of 3 to 8 days cross weekends at every offset, with a last window that is
  full, short, or one day; one closed weekday; both kinds of interval. With a
  percentage of 50 the rounded-up percentage exceeds the boundary allowance, as it does
  in the long windows of the policy file.
- `intake`: the manifests are one per rule: the original, other bytes under its locator,
  its bytes elsewhere, another paper of its author, and an unfit one. Every rule compares two papers.
- `cycle`: two cycles are the fewest that overlap, repeat a request, revise it, or
  follow one that died. The mishap is a death or an edit of the policy, at any
  point. Processes are interchangeable (`SYMMETRY`; no liveness is checked there).
  Four trades of -2..2 have falls that begin before and after the peak; every gate is
  decided both ways under one of the two policies.
- `runtime`: two clients race, the third operation retries; the catalogs extend and
  contradict each other. `OneService` draws the service at the start: the services share
  no state, so a behaviour that mixes them is an interleaving of behaviours that do
  not. The theorems are about the composition as it is.
- `MaxCrashes`, `MaxMinute`, `MaxReports`, `MaxInvocations`, `MaxCycles`, `MaxMishaps`,
  `MaxEntries`, `MaxOperations`, `MaxFaults`, `MaxNow` and `MaxTrades` are the only limits that
  the code does not have. None is in a proof's way: the theorems hold for every value of them.

`CHECK_DEADLOCK FALSE` is set since every instance really stops: commands end, and the
bounds keep new ones from starting.

### Fairness
`LiveSpec` of `MCHistory` assumes weak fairness of the steps of a running
process (a command that does not die goes on, each HTTP request has a timeout), of the clock, and of `Resume`: the
operator resumes a manifest that has not settled when the quota allows, which is what
the status table of `docs/HISTORICAL_ACQUISITION.md` tells the operator to do. Nothing is assumed of
crashes. Under it every manifest settles as `COMPLETE` or `BLOCKED_QUARANTINE`,
unless a crash left a file and the ledger unreconciled, which is the first finding.

`Fairness` of `RuntimePersistence` assumes that a client inside `apply` goes on, the wait
for the advisory lock included when it is free. Deaths are not forced; that
`AppliesEnd` holds shows that the lock never outlives its transaction.

### Faults
A definition marked `fault` is a plausible bug in the definition after it. Each checked property fails
when one such fault replaces its definition (`PROJECT.json`, `mutants`), so each
depends on the code it is about.

## 4. What is proved

Every safety and action property of a passing run is a theorem about every value of the constants.

| theorem (module) | statement |
|---|---|
| `LedgerTypes`, `SerialAppendsAreSafe`, `BreaksAreContained`, `BreaksArePermanent` (`EvidenceLedgerProofs`) | type invariant and the three ledger properties, any number of commands and lines |
| `HistoryTypes`, `NoRetransmission`, `ReservationComesFirst`, `SingleWriter` (`HistoryProofs`) | type invariant of `History`; no request reaches the provider twice; a request is covered by a reservation that the ledger vouches for; one process at a time past the lock |
| `CheckpointsAreGrounded`, `ReportsAreHonest`, `ObservationsAreOwn`, `RequestsAtTheFrontier`, `ReportsAreAccepted`, `QuotaIsRespected`, `RaisesNeedADeath`, `AcquisitionFollowsLifecycle` (`AcquisitionProofs`) | the other safety and action properties of `History`, and the refinement of `WindowLifecycle`, any number of processes, manifests, windows and crashes |
| `PlanTypes`, `PeriodDivided`, `CryptoComplete`, `SilenceBounded`, `MarketsAccepted` (`HistoryPlanProofs`) | `TypeOK`, `PlanDividesPeriod`, `CryptoGapsAtBordersOnly`, `SilenceIsBounded` and, under `OrderlyCalendar`, `MarketsAnswerAccepted`, for any series, widths, periods and policies |
| `IntakeTypes`, `AcceptedStaysWhole`, `BytesStayRetained`, `SerialIntakesUnique`, `UninterruptedReconciles`, `AcceptanceIsConfirmed` (`ResearchIntakeProofs`) | type invariant of `ResearchIntake`; `AcceptedIsWhole`, `PapersRetained`, `SerialCorpusUnique`, `ReconcilesUnlessInterrupted`, `ConfirmedUnlessInterrupted` for any processes, manifests and bounds |
| `CycleTypes`, `VerdictsRest`, `StatusOnRecord`, `IdentitiesUnique`, `StatusForward` (`ResearchCycleProofs`) | type invariant of `ResearchCycle`; `EvidenceFirst`, `StatusBacked`, `SerialIdentities`, `StatusMovesForward` for any processes, requests, policies and bounds |
| `DrawdownsMeasured`, `VerdictsMonotone` (`ResearchCycleProofs`) | `DrawdownIsWorstFall` and `VerdictIsMonotone`, for packets of any number of trades of any whole sizes and every policy |
| `CommittedWhole`, `ValidLasts`, `RefusedForCause` (`RuntimePersistenceProofs`) | the database is always one whole catalog; "valid" is for good; nobody is refused for being second |
| `ReferencesLast`, `ManifestsLast`, `RefusalHasCause`, `RetriesAddNothing`, `AcceptedOnce`, `RuntimeTypes` (`RuntimePersistenceProofs`) | returned references and retained manifests restore; a put raises only after a mishap; a retry adds no second version; an item is accepted once in its lifetime; type invariant of the three stores |

The assumptions are the named `ASSUME`s of the modules: bounds are natural numbers,
the policy's limits are positive and its ceilings below the provider's limits (the
policy is refused otherwise, `history.py` 122-133), there is a manifest, request or source, catalogs
repeat no migration, `Free` is not a process, foreign bytes are not a payload
(`HistoryAssumption`, `IntakeAssumption`, `CycleAssumption`, `CatalogAssumption`, `PayloadAssumption`, ...). `PlanAssumption` says
that widths and bars of a day are positive, a daily series has one bar a day, days are natural
numbers and the percentage is one; `CourtAssumption` that outcomes and thresholds are whole
numbers and the two requirements truth values - thresholds may be negative or beyond 100.
One theorem has a premise of its own: `MarketsAccepted` assumes `OrderlyCalendar`, a condition on
constants that `MCHistoryPlan` has TLC evaluate for the instance of `controls`
(`InOrder`). It could not do without: a market that is closed for four days in a row, weekends included,
has its daily series quarantined, although nothing is missing.
The theorems about the runtime stores are about `Spec` of their composition, `RuntimePersistence`.

Induction over days, windows and trades is done over sets: that the numbers with a property have
no least counterexample (`LeastNatural`, `NaturalsFromZero`, `NaturalsUpTo` of `InductionLemmas`), from the
library's theorem on well-founded relations.

**The ledger.** `SerialAppendsKeepChain` is not inductive: it says nothing of what a
command has read and will write. `BasisCurrent` adds that, until two appends
overlap, whoever is about to write has read the end of the file as it still is.
`BreakIsContained` needs that authors of late lines have left `append` (`LateLinesContained`), from
where validation keeps them. `Chain` is the conjunction of both with the type invariant.

**Acquisition.** `Typed` adds to the type invariant that an invocation inside the loop
has a credit in hand (`CreditInHand`), without which the remaining limit could not be
shown to stay a natural number. `AtMostOneTransmission` and `ReservedBeforeSent` speak of files and requests
only; `Discipline` adds what a process owes them: the lock is held from `open` on (so there is one writer), past the
orphan check only the current window is both reserved and without outcome, a window
reserved and not yet sent has no request, and it is sent only after its reservation is
linked. `Safe` is the conjunction; the step lemma has one step per action.

**Acquisition, files.** The remaining properties of `History` need the contents of the files,
hence what the holder of the lock knows of them. `FilesInv` is about the files alone: checkpoints are
unique, grounded and reserved, observations are unique by window,
the quota ledger keeps its limits, reports are true of their prefix. `ConductInv` says of each process, by its place, which
line it has written and not yet linked (`Duty`), that its outcomes in memory agree with the checkpoint file (`Recall`), that the windows
before its own are COMPLETED and its orphans without outcome (`Front`), which requests it has sent itself and which observation it holds (`Wire`; the job's history field `asked`, which the
code does not have and no guard reads, gives an invocation its requests), what it has
reserved (`Booked`) and that its window has no observation yet (`Noting`). Without the lock none
of this would survive a second process; with it, a step concerns its process only
(`ConductOfStep`), and a death leaves the files as they are. For the provider's quota `Paced` adds
that a reservation not yet sent leaves room for its request in its minute and day, and that no request
is younger than it; the local ceilings and that one request add up to no more than the
provider's limits. That only a death makes an invocation raise (`RaisedOnlyAfterCrash`) needs the converse of what the
files may lack: as long as nobody has died, every line has its event but the one that the holder of the lock has just
written (`Intact`), so that whoever validates finds nothing to raise for, and a window about to be
checkpointed has no checkpoint (`StillPending`). The refinement maps `Reserve`, `Transmit` and `Checkpoint` to the steps of the
life cycle and every other step to a stutter.

**Plan.** The windows have a closed form, `Pieces`: the *i*-th begins *i* - 1 widths after the
first day. `PartitionIs` shows that the recursion of `_partition_windows` computes it, by
induction on the days that are left, and `PiecesDivide` that the pieces divide the period.
`PlanInv` keeps that the windows `Divide` the period and that every retained answer was `Accepted`; the properties
follow from it without another step of the state machine. Crypto: two successive bars of an accepted answer
have no interval between them (`Straddle`, `GapAllowed`), so a bar is missing only before the first
or after the last, and the border controls put these on the outer days. Silence: before the first bar of
a window at most `Boundary` weekdays are silent (`HeadOfWindow`), after its last one as many
(`TailOfWindow`), between two bars at most three (`GapOfDays`). A silent stretch lies in one window
or across one border, since every accepted window has a bar on a weekday (`SilenceInOneWindow`,
`SilenceAcrossBorder`), hence `Boundary` twice. The market's own answer passes each control because the
calendar leaves it no gap longer (`MarketsGaps`), no coverage lower (`MarketsCoverage`) and no first or last bar
further from the border (`MarketsFirst`, `MarketsLast`) than the control permits.

**Intake.** `Corpus` says of the files that every record has its bytes and its relations, every
record event its record and no twin, and every acceptance a whole package; `Progress` what a process
knows of its own package at each place. Both survive overlap and death, and `AcceptedIsWhole` and
`PapersRetained` follow. `SerialInv` adds, until two invocations overlap, that one is at work
(`Alone`) and that what its preflight found still holds (`Prospect`). `SettledInv` adds, until one dies,
that a line lacks its event only while its writer is about to log it, and
`QuarantineInv` that the quarantine lines are numbered and a number just read is still the next.
From them follow what `validate-intake` finds at rest and what the final
reconciliation of an intake finds.

**Cycle.** `Progress` says of a cycle at work which of its records are in the register
and on the ledger, and that its submission precedes its verdict; `Numbers` that no two cycles have
one number, so that a verdict or ValidationResult belongs to one of them; `Events` that every
record event has its record and is unique; `Status` that a draft, wherever it is, is
backed. Since another cycle may rename a draft, `Status` speaks of the temporary
and the published file alike. `Serial` adds, until two cycles overlap, that one
cycle is at work, that it is the latest, and that nothing of its identity was there
when it decided to write.

**Court.** `TotalRuns` and `CurveRuns` turn the folds over the trades into sequences of states, each one trade
after the one before. What the single pass holds after *n* trades is then, by induction on *n*
(`DrawdownIsGreatest`), the sum of the first *n*, the greatest partial sum so far and the greatest distance from a
partial sum down to a later one; a segment's total is a difference of partial sums (`TotalOfSegment`), so that the drawdown is
the maximum of `Falls` (`DrawdownIsDeepestFall`). For the monotone verdict each gate is shown to survive one more win of at least the
required expectancy: no fall is deepened (`OneMoreTrade`), wins grow with the trades
(`OneMoreWin`), gross profit grows and gross loss does not (`GrossOfAppend`), and the Wilson comparison, a quadratic in the
excess of wins, keeps its sign (`WilsonOfWin`). Fewer failed gates of either kind never lower the
rank (`RankFollowsGates`); sources and challenges touch no performance gate, so they lift nothing out of REJECT.

**Migrations.** While a client holds the lock the rows it has read are those of
the database, what it has executed and inserted continues the schema along its catalog, and
the committed schema is whole; nobody else changes the database, because a commit
needs the lock. `Conflicts` is then never met by the holder, which is why a
refusal has other bytes as its cause; "valid" lasts because a commit only adds rows.

**Objects.** In the bucket versions are never changed, so a reference restores from the moment
it is verified. In the proof store `KeyInv` says, key by key and as long as no
two puts of the key overlap, how much of file and metadata is written, by the place of the
client at work on it or by its having died there; every action moves one key by
one step (`Moves`) and leaves the others. A manifest is put after its backup's
reference was returned, which the job of the client records. That a retry adds no second
version (`PutsAreIdempotent`) is not inductive: what carries it is `SoleInv`, that as long as the
puts of a key do not overlap, a client between its head and its put is alone with the key and
the key still has no version at all - a foreign writer writes only to keys that are there,
and never the bytes of this code, which is why `Foreign` is neither payload nor pair.

**Queue.** A stored item is in the queue until its lifetime ends, and `SET NX` refuses while it is.

**Runtime types.** Most of `TypeOK` is part of the invariants above. The rest is carried by `Counted` (operations
and faults), `Between` (a client in no apply has no transaction), `QueueTyped`, and `Places` with `FilesTyped`: keys and
references stay with the store they belong to. Each is kept by the steps of one service and left alone by the others.

**With TLC only.** Liveness (`Settles`, `AppliesEnd`), which is beyond the prover, and the
violations of section 5.

## 5. Where documents and code disagree

Each is a run that expects a violation, with the quoted line in `PROJECT.json`:

- `gap` - after a crash between a control file and its event no later invocation
  reports: validation raises before the orphan handling, and nothing mends the line.
- `plan` - with the numbers of the policy file the daily windows of a crypto
  instrument reach the output cap when they are answered in full: the plan of BTC/USD from 2010 cannot complete.
- `intake_race` - a paper and its mirror submitted at once are both accepted.
- `intake_retry` - a paper whose intake died half-way is answered `DUPLICATE`
  for ever and never completed.
- `cycle_policy` - an edit of the policy during a cycle makes the Court apply
  another policy than the Experiment record is bound to, and nothing refuses.

The properties of passing runs are stated so that they hold of the code as it is. Where
that took a qualification, the qualification is worth knowing:

- **The local ceilings are not kept.** PCP-003 (`docs/proposals`, 50-51) says "The eighth same-minute history
  request is not transmitted", and `docs/HISTORICAL_ACQUISITION.md` (36-38) gives "stricter ceilings
  of seven per run, seven per minute, and 720 per day". The code counts a reservation in the minute and on the day in which
  it is made (`history.py` 642-652) and sends the request later (991). One reserved at 12:00:59 and sent at 12:01:00 is followed by
  seven that are reserved and sent at 12:01 (by that run and the next): the eighth is transmitted; likewise the 721st
  at midnight. `ProviderQuotaRespected` says what does hold: the provider's own limits, eight and 800, are
  kept, because at most one request can straddle a boundary. The capacity that the ceilings
  are to leave to other commands is not always there.
- A failed request is logged with the credit observation of an earlier response.
  `ObservationOfThisRun` says only that it is of a request which the same invocation has sent, for
  this window or an earlier one.
- `docs/HISTORICAL_ACQUISITION.md` (99) describes a report of status `IN_PROGRESS`; no
  invocation ever writes one (`ReportsHonest`), since every stop with pending windows is a quarantine or a pause.
- `docs/GOVERNANCE.md` (48) asks that a ledger integrity failure "mark status `ERROR`". A cycle
  stops, but never writes that status: `status.json` goes on showing the last verdict that was published.
  `StatusBacked` is about what is published only.
- Acquiring a second manifest makes the report of the first one stale, since it
  quotes the terminal hashes of shared files; `ReportsValidate` is about the moment of the report.
- A window of another than a crypto instrument that has no weekday can never be
  accepted (one session date is required); `MarketsAnswerAccepted` excuses it.
- Intraday bars missing at the borders of a crypto window are neither refused nor
  counted (`CryptoGapsAtBordersOnly`), while `docs/MARKET_DATA.md` lists "incomplete crypto
  boundaries" among what is rejected: the control compares days.
- Several properties of the intake and the cycle end where two invocations overlap
  (`SerialCorpusUnique`, `ReconcilesUnlessInterrupted`, `ConfirmedUnlessInterrupted`, `SerialIdentities`):
  they delimit the races of the unlocked registers, which do break what these properties say.
- Two puts of the same bytes that overlap in the proof store can leave a returned
  reference that does not restore until they end, or at all if one dies (`Contended`).
- The Court's evidence count and weight include barred sources (`source_eligibility`
  fails only when every source is barred); the monotonicity of the verdict is about the code's rule.

## 6. What is not modelled, and why

- Field contracts of records, policies, manifests, schemas and the compose file; freeze
  and traceability: checks of JSON documents that change no state.
- Prices and metadata of a provider's bars: one flag.
- `ingest-market-data` and the fixture and smoke commands: they call what
  `History` models without lock or reservation. The credit they spend is not counted, so
  the provider's ceiling is beyond what `ProviderQuotaRespected` can say of them.
- Files torn by a partial write, but for those of the proof store: the registers, the ledger and
  the object files of market data are written by one call each.
- The second read of the request file by a cycle (for its digest); the rounding of floating point in the metrics.
- What an invocation returns, but for the exception that may follow a logged acceptance
  (`raised` of `ResearchIntake`) and the answers of the runtime clients.
- Dashboard, schemas, deployment files: static.

## 7. Plan

1. The safety half of the two liveness properties: every step of an apply shrinks what is left of it and the
   holder of the advisory lock always has a step; every step of an acquisition moves its window
   forward. `AppliesEnd` and `Settles` themselves stay with TLC.
2. `ingest-market-data` as a second command of `History`, sharing registers and
   the provider's credit; torn object files and what a retry makes of them.
3. Composition of `EvidenceLedger` with the register, to see how a broken chain
   meets `ResearchIntake` and `ResearchCycle`.
