-------------------------- MODULE AcquisitionProofs --------------------------
(***************************************************************************)
(* What historical acquisition leaves in its files, for any number of      *)
(* processes, manifests, windows and crashes: grounded checkpoints, honest *)
(* reports, requests in manifest order and within the provider's quota,    *)
(* observations of the right run, no exception unless a process has died,  *)
(* and the life cycle of WindowLifecycle.                                  *)
(*                                                                         *)
(* Conduct says what a process past the lock knows and owes at each place: *)
(* its memory agrees with the checkpoint register, the line it has written *)
(* is the last one and has no event yet, the outcome it holds is grounded. *)
(* The files' own invariants (Vouched, Noted, Counted, Reported) survive   *)
(* because only the holder of the lock writes.                             *)
(***************************************************************************)
EXTENDS HistoryProofs, FiniteSetTheorems

Rec      == "evidence_record_registered"
Ing      == "market_data_ingested"
Quar     == "market_data_quarantined"
Cp       == "market_history_checkpointed"
Obs      == "market_data_quota_observed"
Rep      == "market_history_reported"
Linking  == {Reservation, Rec, Ing, Quar, Cp}

LinkSet(L, type, n) == {k \in DOMAIN L : L[k].type = type /\ L[k].ref = n}
Once(L, type, n)    == \E k : LinkSet(L, type, n) = {k}
RefsIn(L, type, F)  == \A k \in DOMAIN L : L[k].type = type => L[k].ref \in DOMAIN F
HasKey(F, key)      == \E n \in DOMAIN F : Key(F[n]) = key

KeyOf(j)        == <<j.manifest, j.window>>
CheckpointOf(j) == [manifest |-> j.manifest, window |-> j.window,
                    status |-> j.result.status, ref |-> j.result.ref]

(***************************************************************************)
(* The files: register R, quarantine Q, checkpoints C, ledger L, quota B   *)
(* and the requests S.                                                     *)
(***************************************************************************)

Grounded(R, Q, L, c) ==
    \/ /\ c.status = "COMPLETED" /\ c.ref \in DOMAIN R /\ Key(R[c.ref]) = Key(c)
       /\ Once(L, Rec, c.ref) /\ Once(L, Ing, c.ref)
    \/ /\ c.status = "QUARANTINED" /\ c.ref \in DOMAIN Q /\ Key(Q[c.ref]) = Key(c)
       /\ Once(L, Quar, c.ref)

Vouched(R, Q, C, L, B) ==
    /\ RefsIn(L, Rec, R) /\ RefsIn(L, Ing, R) /\ RefsIn(L, Quar, Q) /\ RefsIn(L, Cp, C)
    /\ \A n \in DOMAIN C : Grounded(R, Q, L, C[n]) /\ HasKey(B, Key(C[n]))
    /\ \A a, b \in DOMAIN C : Key(C[a]) = Key(C[b]) => a = b

Noted(L, B, S) ==
    /\ \A k \in DOMAIN L : L[k].type = Obs =>
           /\ HasKey(B, Key(L[k])) /\ L[k].ref \in DOMAIN S
           /\ S[L[k].ref].manifest = L[k].manifest /\ S[L[k].ref].window <= L[k].window
    /\ \A k, l \in DOMAIN L : L[k].type = Obs /\ L[l].type = Obs /\ Key(L[k]) = Key(L[l]) => k = l

Counted ==
    /\ \A a, b \in DOMAIN quota : Key(quota[a]) = Key(quota[b]) => a = b
    /\ \A n \in DOMAIN quota : /\ MinuteUsed(quota[n].minute) <= MinuteLimit
                               /\ DayUsed(DayOf(quota[n].minute)) <= DayLimit

DoneIn(C, m, w, status, upto) ==
    \E n \in 1..upto : Key(C[n]) = <<m, w>> /\ C[n].status = status

Honest(C, r) ==
    /\ r.checkpoint \in 0..Len(C)
    /\ \A w \in Window, status \in {"COMPLETED", "QUARANTINED"} :
           r.outcomes[w] = status <=> DoneIn(C, r.manifest, w, status, r.checkpoint)
    /\ r.status = "COMPLETE" <=> \A w \in Window : DoneIn(C, r.manifest, w, "COMPLETED", r.checkpoint)
    /\ r.ready => r.manifest \in FullScope /\ r.status = "COMPLETE"
    /\ r.status # "IN_PROGRESS"

Reported(C, reps) == \A i \in DOMAIN reps : Honest(C, reps[i])

(***************************************************************************)
(* A process at `label` with local state j.                                *)
(***************************************************************************)

(* The line it has written and what became of its window. *)
Duty(R, Q, L, label, j) ==
    /\ label \in {"registered", "ingest"} =>
           /\ Len(R) \in DOMAIN R /\ Key(R[Len(R)]) = KeyOf(j)
           /\ LinkSet(L, Ing, Len(R)) = {}
    /\ label = "registered" => LinkSet(L, Rec, Len(R)) = {}
    /\ label = "ingest" => Once(L, Rec, Len(R))
    /\ label = "rejected" => /\ Len(Q) \in DOMAIN Q /\ Key(Q[Len(Q)]) = KeyOf(j)
                             /\ LinkSet(L, Quar, Len(Q)) = {}
    /\ label \in Judged => Grounded(R, Q, L, CheckpointOf(j))

RemembersAt(C, j, w) ==
    \/ j.outcomes[w] = "pending" /\ ~HasKey(C, <<j.manifest, w>>)
    \/ \E n \in DOMAIN C : /\ Key(C[n]) = <<j.manifest, w>> /\ C[n].status = j.outcomes[w]
                           /\ j.outcomes[w] \in {"COMPLETED", "QUARANTINED"}

(* Its memory of the checkpoint register, and that register's events. *)
Recalling == {"orphan", "loop"} \cup Working
Recall(C, L, label, j) ==
    /\ label \in (Recalling \cup {"close"}) \ {"checkpointed"} =>
           \A w \in Window : RemembersAt(C, j, w)
    /\ label \in Recalling \ {"checkpointed"} => \A n \in DOMAIN C : Once(L, Cp, n)
    /\ label = "checkpointed" =>
           /\ Len(C) \in DOMAIN C /\ C[Len(C)] = CheckpointOf(j) /\ LinkSet(L, Cp, Len(C)) = {}
           /\ \A n \in DOMAIN C \ {Len(C)} : Once(L, Cp, n)
           /\ \A w \in Window \ {j.window} : RemembersAt(C, j, w)

(* Its place in the manifest, or among the orphans. *)
Front(label, j) ==
    /\ label \in Recalling => \A w \in j.orphans : j.outcomes[w] = "pending"
    /\ label \in Working /\ j.orphans # {} => j.window \in j.orphans
    /\ label = "loop" => \A w \in Window : j.outcomes[w] # "QUARANTINED"
    /\ label \in Working /\ j.orphans = {} =>
           /\ \A w \in Window : j.outcomes[w] # "QUARANTINED"
           /\ j.outcomes[j.window] = "pending"
           /\ \A v \in 1..(j.window - 1) : j.outcomes[v] = "COMPLETED"
    /\ label = "close" => \/ j.pause \/ With(j.outcomes, "pending") = {}
                          \/ \E w \in Window : j.outcomes[w] = "QUARANTINED"

(* Its requests and the credit observation that came with one of them. *)
Wire(S, label, j) ==
    /\ label \in {"idle", "lock", "open", "orphan"} \/ j.orphans # {} => j.observation.sent = 0
    /\ j.observation.sent # 0 =>
           /\ j.observation.sent \in DOMAIN S /\ S[j.observation.sent].manifest = j.manifest
           /\ j.observation.sent \in j.asked
           /\ label \in Working => S[j.observation.sent].window <= j.window
           /\ label = "loop" => \A v \in Window : v <= S[j.observation.sent].window =>
                                                      j.outcomes[v] # "pending"
    /\ label = "await" => /\ Len(S) \in DOMAIN S /\ Key(S[Len(S)]) = KeyOf(j)
                          /\ Len(S) \in j.asked
    /\ label \in {"accept", "registered", "ingest"} => HasKey(S, KeyOf(j))
    /\ label \in Judged /\ j.result.status = "COMPLETED" => HasKey(S, KeyOf(j))

(* Its reservations, and the events of the quota ledger. *)
Booked(B, L, label, j) ==
    /\ label \in Working => HasKey(B, KeyOf(j))
    /\ label \in Recalling => \A w \in j.orphans : HasKey(B, <<j.manifest, w>>)
    /\ label = "reserved" => \A n \in DOMAIN B \ {Len(B)} : Once(L, Reservation, n)
    /\ label = "send" => \A n \in DOMAIN B : Once(L, Reservation, n)
    /\ label = "orphan" \/ (label \in Working /\ j.orphans # {}) => \A w \in Window :
           HasKey(B, <<j.manifest, w>>) /\ j.outcomes[w] = "pending" => w \in j.orphans
    /\ label = "close" => \A w \in Window :
           HasKey(B, <<j.manifest, w>>) => j.outcomes[w] # "pending"

(* The observation it has not logged yet. *)
Noting(L, label, j) ==
    label \in Working \ {"checkpoint", "checkpointed"} /\ j.orphans = {} =>
        \A k \in DOMAIN L : L[k].type = Obs => Key(L[k]) # KeyOf(j)

Conduct(R, Q, C, L, B, S, label, j) ==
    /\ Duty(R, Q, L, label, j) /\ Recall(C, L, label, j) /\ Front(label, j)
    /\ Wire(S, label, j) /\ Booked(B, L, label, j) /\ Noting(L, label, j)

FilesInv == /\ Vouched(register, quarantine, checkpoints, ledger, quota)
            /\ Noted(ledger, quota, sent) /\ Counted /\ Reported(checkpoints, reports)

ConductInv == \A p \in Procs :
    Conduct(register, quarantine, checkpoints, ledger, quota, sent, pc[p], job[p])

Acquiring == Typed /\ Safe /\ FilesInv /\ ConductInv

(***************************************************************************)
(* Files that grow.                                                        *)
(***************************************************************************)

Longer(s, t) == /\ Len(s) \in Nat /\ DOMAIN s = 1..Len(s) /\ DOMAIN t = 1..Len(t)
                /\ DOMAIN s \subseteq DOMAIN t /\ \A n \in DOMAIN s : t[n] = s[n]

LEMMA LongerByOne ==
    ASSUME NEW S, NEW s \in Seq(S), NEW e \in S
    PROVE  /\ Longer(s, s) /\ Longer(s, Append(s, e)) /\ Append(s, e) \in Seq(S)
           /\ Len(s) \in Nat /\ Len(Append(s, e)) = Len(s) + 1 /\ Append(s, e)[Len(s) + 1] = e
           /\ DOMAIN s = 1..Len(s) /\ DOMAIN Append(s, e) = 1..(Len(s) + 1)
           /\ DOMAIN Append(s, e) = DOMAIN s \cup {Len(s) + 1} /\ Len(s) + 1 \notin DOMAIN s
<1>1. Append(s, e) \in Seq(S)
  BY AppendProperties
<1>2. QED
  BY <1>1, Grown DEF Longer

LEMMA FilesAre ==
    ASSUME TypeOK
    PROVE  /\ quota \in Seq(Reservations) /\ checkpoints \in Seq(Terminals)
           /\ register \in Seq(Lines) /\ quarantine \in Seq(Lines)
           /\ ledger \in Seq(Events) /\ reports \in Seq(Reports) /\ sent \in Seq(Reservations)
           /\ pc \in [Procs -> Labels] /\ job \in [Procs -> JobType]
           /\ Len(quota) \in Nat /\ DOMAIN quota = 1..Len(quota)
           /\ Len(checkpoints) \in Nat /\ DOMAIN checkpoints = 1..Len(checkpoints)
           /\ Len(register) \in Nat /\ DOMAIN register = 1..Len(register)
           /\ Len(quarantine) \in Nat /\ DOMAIN quarantine = 1..Len(quarantine)
           /\ Len(ledger) \in Nat /\ DOMAIN ledger = 1..Len(ledger)
           /\ Len(reports) \in Nat /\ DOMAIN reports = 1..Len(reports)
           /\ Len(sent) \in Nat /\ DOMAIN sent = 1..Len(sent)
BY LenProperties DEF TypeOK, FilesTyped

LEMMA Readings ==
    /\ \A type, n : LinksTo(type, n) = LinkSet(ledger, type, n)
    /\ \A type, n : LinkedOnce(type, n) <=> Once(ledger, type, n)
<1>1. \A type, n : LinksTo(type, n) = LinkSet(ledger, type, n)
  BY DEF LinksTo, LinkSet
<1>2. \A type, n, k : LinkSet(ledger, type, n) = {k} => k \in DOMAIN ledger
  BY DEF LinkSet
<1>3. QED
  BY <1>1, <1>2 DEF LinkedOnce, Once

(* An event that links a line links no other, and keeps what is linked.    *)
Fresh(L, e) == e.type \in Linking => LinkSet(L, e.type, e.ref) = {}

LEMMA EventEffect ==
    ASSUME NEW L \in Seq(Events), NEW e \in Events
    PROVE  /\ \A type, n : e.type # type \/ e.ref # n =>
                  LinkSet(Append(L, e), type, n) = LinkSet(L, type, n)
           /\ LinkSet(L, e.type, e.ref) = {} => Once(Append(L, e), e.type, e.ref)
           /\ Fresh(L, e) => \A type \in Linking : \A n :
                  Once(L, type, n) => Once(Append(L, e), type, n)
<1>1. Longer(L, Append(L, e)) /\ DOMAIN Append(L, e) = DOMAIN L \cup {Len(L) + 1}
      /\ Len(L) + 1 \notin DOMAIN L /\ Append(L, e)[Len(L) + 1] = e
  BY LongerByOne
<1>2. ASSUME NEW type, NEW n, e.type # type \/ e.ref # n
      PROVE  LinkSet(Append(L, e), type, n) = LinkSet(L, type, n)
  BY <1>1, <1>2 DEF LinkSet, Longer
<1>3. ASSUME LinkSet(L, e.type, e.ref) = {} PROVE Once(Append(L, e), e.type, e.ref)
  <2>1. LinkSet(Append(L, e), e.type, e.ref) = {Len(L) + 1}
    BY <1>1, <1>3 DEF LinkSet, Longer
  <2>2. QED
    BY <2>1 DEF Once
<1>4. ASSUME Fresh(L, e), NEW type \in Linking, NEW n, Once(L, type, n)
      PROVE  Once(Append(L, e), type, n)
  <2>1. LinkSet(L, type, n) # {}
    BY <1>4 DEF Once
  <2>2. e.type # type \/ e.ref # n
    BY <1>4, <2>1 DEF Fresh
  <2>3. QED
    BY <1>2, <1>4, <2>2 DEF Once
<1>5. QED
  BY <1>2, <1>3, <1>4

(* What was linked once stays so. *)
StillOnce(L, M) == \A type \in Linking : \A n : Once(L, type, n) => Once(M, type, n)

LEMMA GroundedStays ==
    ASSUME NEW R, NEW R2, NEW Q, NEW Q2, NEW L, NEW L2, Longer(R, R2), Longer(Q, Q2), StillOnce(L, L2),
           NEW c, Grounded(R, Q, L, c)
    PROVE  Grounded(R2, Q2, L2, c)
BY DEF Grounded, Longer, StillOnce, Linking

LEMMA HasKeyStays ==
    ASSUME NEW F, NEW F2, Longer(F, F2), NEW key, HasKey(F, key)
    PROVE  HasKey(F2, key)
BY DEF HasKey, Longer

(* A step of the files that adds neither checkpoint nor event loses nothing. *)
LEMMA VouchedLines ==
    ASSUME NEW R, NEW R2, NEW Q, NEW Q2, NEW C, NEW L, NEW B, NEW B2, Vouched(R, Q, C, L, B),
           Longer(R, R2), Longer(Q, Q2), Longer(B, B2)
    PROVE  Vouched(R2, Q2, C, L, B2)
<1>1. StillOnce(L, L)
  BY DEF StillOnce
<1>2. \A n \in DOMAIN C : Grounded(R2, Q2, L, C[n]) /\ HasKey(B2, Key(C[n]))
  BY <1>1, GroundedStays, HasKeyStays DEF Vouched
<1>3. RefsIn(L, Rec, R2) /\ RefsIn(L, Ing, R2) /\ RefsIn(L, Quar, Q2) /\ RefsIn(L, Cp, C)
  BY DEF Vouched, RefsIn, Longer
<1>4. QED
  BY <1>2, <1>3 DEF Vouched

LEMMA VouchedEvent ==
    ASSUME NEW R, NEW Q, NEW C, NEW B, NEW L \in Seq(Events), NEW e \in Events,
           Vouched(R, Q, C, L, B), Fresh(L, e), Longer(R, R), Longer(Q, Q),
           e.type \in {Rec, Ing} => e.ref \in DOMAIN R,
           e.type = Quar => e.ref \in DOMAIN Q, e.type = Cp => e.ref \in DOMAIN C
    PROVE  Vouched(R, Q, C, Append(L, e), B)
<1>1. StillOnce(L, Append(L, e))
  BY EventEffect DEF StillOnce
<1>2. \A n \in DOMAIN C : Grounded(R, Q, Append(L, e), C[n]) /\ HasKey(B, Key(C[n]))
  BY <1>1, GroundedStays DEF Vouched
<1>3. Longer(L, Append(L, e)) /\ DOMAIN Append(L, e) = DOMAIN L \cup {Len(L) + 1}
      /\ Append(L, e)[Len(L) + 1] = e
  BY LongerByOne
<1>4. /\ RefsIn(Append(L, e), Rec, R) /\ RefsIn(Append(L, e), Ing, R)
      /\ RefsIn(Append(L, e), Quar, Q) /\ RefsIn(Append(L, e), Cp, C)
  BY <1>3 DEF Vouched, RefsIn, Longer
<1>5. QED
  BY <1>2, <1>4 DEF Vouched

LEMMA NotedStays ==
    ASSUME NEW L, NEW B, NEW B2, NEW S, NEW S2, Noted(L, B, S), Longer(B, B2), Longer(S, S2)
    PROVE  Noted(L, B2, S2)
BY HasKeyStays DEF Noted, Longer

LEMMA NotedEvent ==
    ASSUME NEW B, NEW S, NEW L \in Seq(Events), NEW e \in Events, Noted(L, B, S), e.type # Obs
    PROVE  Noted(Append(L, e), B, S)
<1>1. Longer(L, Append(L, e)) /\ DOMAIN Append(L, e) = DOMAIN L \cup {Len(L) + 1}
      /\ Append(L, e)[Len(L) + 1] = e
  BY LongerByOne
<1>2. QED
  BY <1>1 DEF Noted, Longer

(* A report is about a prefix of the checkpoint register. *)
LEMMA HonestStays ==
    ASSUME NEW C, NEW D, Longer(C, D), Len(D) \in Nat, NEW r, Honest(C, r)
    PROVE  Honest(D, r)
<1>1. r.checkpoint \in 0..Len(C) /\ Len(C) \in Nat
  BY DEF Honest, Longer
<1>2. Len(C) <= Len(D)
  <2>1. CASE Len(C) = 0
    BY <1>1, <2>1
  <2>2. CASE Len(C) # 0
    BY <1>1, <2>2 DEF Longer
  <2>3. QED
    BY <2>1, <2>2
<1>3. \A m, w, status : DoneIn(C, m, w, status, r.checkpoint) <=> DoneIn(D, m, w, status, r.checkpoint)
  BY <1>1 DEF DoneIn, Longer
<1>4. r.checkpoint \in 0..Len(D)
  BY <1>1, <1>2
<1>5. QED
  BY <1>3, <1>4 DEF Honest

(***************************************************************************)
(* What a step needs to show.                                              *)
(***************************************************************************)

Moved(p, label, j) == pc' = [pc EXCEPT ![p] = label] /\ job' = [job EXCEPT ![p] = j]

LEMMA Resting ==
    ASSUME NEW R, NEW Q, NEW C, NEW L, NEW B, NEW S, NEW label \in Unlocked \cup {"open"},
           NEW j \in JobType, j.observation.sent = 0
    PROVE  Conduct(R, Q, C, L, B, S, label, j)
<1>1. label \notin Recalling \cup {"close"} /\ label \in {"idle", "lock", "open"}
  BY DEF Unlocked, Recalling, Working, InLoop, Judged
<1>2. Duty(R, Q, L, label, j) /\ Recall(C, L, label, j) /\ Noting(L, label, j)
  BY <1>1 DEF Duty, Recall, Noting, Recalling, Working, Judged
<1>3. Front(label, j) /\ Wire(S, label, j) /\ Booked(B, L, label, j)
  BY <1>1 DEF Front, Wire, Booked, Recalling, Working, InLoop, Judged
<1>4. QED
  BY <1>2, <1>3 DEF Conduct

LEMMA NoJobRests == NoJob \in JobType /\ NoJob.observation.sent = 0
BY NoJobTyped DEF NoJob, NewJob, NoObservation

(* What is known of the process about to step. *)
LEMMA AtWork ==
    ASSUME Acquiring, NEW p \in Procs
    PROVE  /\ job[p] \in JobType /\ job = [job EXCEPT ![p] = job[p]]
           /\ Conduct(register, quarantine, checkpoints, ledger, quota, sent, pc[p], job[p])
           /\ NothingAmbiguous(p) /\ SentOnceAndAfterLink(p)
           /\ TypeOK /\ Discipline /\ LockHeld
           /\ Vouched(register, quarantine, checkpoints, ledger, quota)
           /\ Noted(ledger, quota, sent) /\ Counted /\ Reported(checkpoints, reports)
           /\ job[p].manifest \in Manifests /\ job[p].window \in Window
           /\ job[p].outcomes \in [Window -> Outcome] /\ job[p].orphans \in SUBSET Window
           /\ job[p].result.status \in Outcome /\ job[p].result.ref \in Nat
           /\ job[p].observation.sent \in Nat
<1>1. TypeOK /\ Discipline /\ LockHeld
  BY DEF Acquiring, Safe, Discipline
<1>2. job[p] \in JobType /\ job = [job EXCEPT ![p] = job[p]]
  BY <1>1 DEF TypeOK
<1>3. /\ job[p].manifest \in Manifests /\ job[p].window \in Window
      /\ job[p].outcomes \in [Window -> Outcome] /\ job[p].orphans \in SUBSET Window
      /\ job[p].result.status \in Outcome /\ job[p].result.ref \in Nat
      /\ job[p].observation.sent \in Nat
  BY <1>2 DEF JobType
<1>4. QED
  BY <1>1, <1>2, <1>3 DEF Acquiring, FilesInv, ConductInv, Discipline

(* Past the lock a step concerns its process only. *)
LEMMA ConductOfStep ==
    ASSUME Acquiring, NEW p \in Procs, pc[p] \notin Unlocked, NEW label, NEW j, Moved(p, label, j),
           Conduct(register', quarantine', checkpoints', ledger', quota', sent', label, j)
    PROVE  ConductInv'
<1>1. pc \in [Procs -> Labels] /\ job \in [Procs -> JobType] /\ LockHeld
  BY AtWork, FilesAre
<1>2. ASSUME NEW q \in Procs
      PROVE  Conduct(register', quarantine', checkpoints', ledger', quota', sent', pc'[q], job'[q])
  <2>1. CASE q = p
    <3>1. pc'[q] = label /\ job'[q] = j
      BY <1>1, <2>1 DEF Moved
    <3>2. QED
      BY <3>1
  <2>2. CASE q # p
    <3>1. pc'[q] = pc[q] /\ job'[q] = job[q]
      BY <1>1, <2>2 DEF Moved
    <3>2. pc[q] \in Unlocked
      BY <1>1, <2>2 DEF LockHeld
    <3>3. job[q].observation.sent = 0 /\ job[q] \in JobType
      BY <3>2, AtWork DEF Conduct, Wire, Unlocked
    <3>4. QED
      BY <3>1, <3>2, <3>3, Resting
  <2>3. QED
    BY <2>1, <2>2
<1>3. QED
  BY <1>2 DEF ConductInv

LEMMA SameFilesInv ==
    ASSUME FilesInv, UNCHANGED <<files, sent>>
    PROVE  FilesInv'
<1>1. UNCHANGED <<quota, checkpoints, register, quarantine, ledger, reports, sent>>
  BY DEF files
<1>2. Counted'
  BY <1>1 DEF FilesInv, Counted, MinuteUsed, DayUsed
<1>3. QED
  BY <1>1, <1>2 DEF FilesInv

(* A step past the lock that leaves the files alone. *)
LEMMA LocalStep ==
    ASSUME Acquiring, NEW p \in Procs, pc[p] \notin Unlocked, UNCHANGED <<files, sent>>,
           NEW label, NEW j, Moved(p, label, j),
           Conduct(register, quarantine, checkpoints, ledger, quota, sent, label, j)
    PROVE  FilesInv' /\ ConductInv'
<1>1. UNCHANGED <<quota, checkpoints, register, quarantine, ledger, reports, sent>>
  BY DEF files
<1>2. Conduct(register', quarantine', checkpoints', ledger', quota', sent', label, j)
  BY <1>1
<1>3. QED
  BY <1>2, SameFilesInv, ConductOfStep DEF Acquiring

(* A process that comes to rest, or is at rest, while the files stay. *)
LEMMA RestStep ==
    ASSUME Acquiring, UNCHANGED <<files, sent>>,
           \A q \in Procs : \/ pc'[q] = pc[q] /\ job'[q] = job[q]
                            \/ /\ pc'[q] \in Unlocked \cup {"open"} /\ job'[q] \in JobType
                               /\ job'[q].observation.sent = 0
    PROVE  FilesInv' /\ ConductInv'
<1>1. UNCHANGED <<quota, checkpoints, register, quarantine, ledger, reports, sent>>
  BY DEF files
<1>2. ASSUME NEW q \in Procs
      PROVE  Conduct(register', quarantine', checkpoints', ledger', quota', sent', pc'[q], job'[q])
  <2>1. CASE pc'[q] = pc[q] /\ job'[q] = job[q]
    BY <1>1, <2>1, AtWork
  <2>2. CASE pc'[q] \in Unlocked \cup {"open"} /\ job'[q] \in JobType /\ job'[q].observation.sent = 0
    BY <2>2, Resting
  <2>3. QED
    BY <2>1, <2>2
<1>3. QED
  BY <1>2, SameFilesInv DEF ConductInv, Acquiring

LEMMA StartAcquires ==
    ASSUME Acquiring, NEW p \in Procs, NEW m \in Manifests, NEW limit \in 1..RunLimit, Start(p, m, limit)
    PROVE  FilesInv' /\ ConductInv'
<1>1. NewJob(m, limit) \in JobType /\ NewJob(m, limit).observation.sent = 0
  <2>1. limit \in 0..RunLimit
    BY HistoryAssumption
  <2>2. QED
    BY <2>1, NewJobTyped DEF NewJob, NoObservation
<1>2. \A q \in Procs : \/ pc'[q] = pc[q] /\ job'[q] = job[q]
                       \/ pc'[q] = "lock" /\ job'[q] = NewJob(m, limit)
  BY AtWork, FilesAre DEF Start, Goto, Update
<1>3. QED
  BY <1>1, <1>2, RestStep DEF Start, Unlocked

LEMMA TakeLockAcquires ==
    ASSUME Acquiring, NEW p \in Procs, TakeLock(p)
    PROVE  FilesInv' /\ ConductInv'
<1>1. PICK keyed \in BOOLEAN : Update(p, [job[p] EXCEPT !.keyed = keyed])
  BY DEF TakeLock
<1> DEFINE j == [job[p] EXCEPT !.keyed = keyed]
<1>2. job[p] \in JobType /\ job[p].observation.sent = 0
  BY AtWork DEF TakeLock, At, Conduct, Wire
<1>3. j \in JobType /\ j.observation.sent = 0
  BY <1>2 DEF JobType
<1> HIDE DEF j
<1>4. \A q \in Procs : \/ pc'[q] = pc[q] /\ job'[q] = job[q]
                       \/ pc'[q] = "open" /\ job'[q] = j
  BY <1>1, AtWork, FilesAre DEF TakeLock, Goto, Update, j
<1>5. QED
  BY <1>3, <1>4, RestStep DEF TakeLock

LEMMA LeaveRests ==
    ASSUME Acquiring, NEW p \in Procs, Leave(p), UNCHANGED <<files, sent>>
    PROVE  FilesInv' /\ ConductInv'
<1>1. \A q \in Procs : \/ pc'[q] = pc[q] /\ job'[q] = job[q]
                       \/ pc'[q] = "idle" /\ job'[q] = NoJob
  BY AtWork, FilesAre DEF Leave, Goto, Update
<1>2. QED
  BY <1>1, NoJobRests, RestStep DEF Unlocked

LEMMA RaiseRests ==
    ASSUME Acquiring, NEW p \in Procs, Raise(p)
    PROVE  FilesInv' /\ ConductInv'
BY LeaveRests DEF Raise

(***************************************************************************)
(* Reading outcomes off the checkpoint register.                           *)
(***************************************************************************)

OutcomeIn(C, m, w) ==
    IF \E n \in DOMAIN C : C[n].manifest = m /\ C[n].window = w
    THEN C[CHOOSE n \in DOMAIN C : C[n].manifest = m /\ C[n].window = w].status
    ELSE "pending"

LEMMA OutcomeInIs ==
    ASSUME NEW R, NEW Q, NEW C, NEW L, NEW B, Vouched(R, Q, C, L, B)
    PROVE  /\ \A n \in DOMAIN C : /\ C[n].status \in {"COMPLETED", "QUARANTINED"}
                                  /\ OutcomeIn(C, C[n].manifest, C[n].window) = C[n].status
           /\ \A m, w : ~HasKey(C, <<m, w>>) => OutcomeIn(C, m, w) = "pending"
<1>1. /\ \A n \in DOMAIN C : C[n].status \in {"COMPLETED", "QUARANTINED"}
      /\ \A a, b \in DOMAIN C : Key(C[a]) = Key(C[b]) => a = b
  BY DEF Vouched, Grounded
<1>2. ASSUME NEW n \in DOMAIN C
      PROVE  OutcomeIn(C, C[n].manifest, C[n].window) = C[n].status
  <2> PICK m, w : m = C[n].manifest /\ w = C[n].window
    OBVIOUS
  <2> DEFINE P(k) == C[k].manifest = m /\ C[k].window = w
  <2>1. n \in DOMAIN C /\ P(n)
    OBVIOUS
  <2>2. \A k \in DOMAIN C : P(k) => k = n
    BY <1>1 DEF Key
  <2>3. (CHOOSE k \in DOMAIN C : P(k)) = n
    BY <2>1, <2>2
  <2>4. QED
    BY <2>1, <2>3 DEF OutcomeIn
<1>3. \A m, w : ~HasKey(C, <<m, w>>) => OutcomeIn(C, m, w) = "pending"
  BY DEF OutcomeIn, HasKey, Key
<1>4. QED
  BY <1>1, <1>2, <1>3

LEMMA OutcomeIs ==
    ASSUME Vouched(register, quarantine, checkpoints, ledger, quota)
    PROVE  /\ \A n \in DOMAIN checkpoints :
                  /\ checkpoints[n].status \in {"COMPLETED", "QUARANTINED"}
                  /\ OutcomeOf(checkpoints[n].manifest, checkpoints[n].window) = checkpoints[n].status
           /\ \A m, w : ~HasKey(checkpoints, <<m, w>>) => OutcomeOf(m, w) = "pending"
<1>1. \A m, w : OutcomeOf(m, w) = OutcomeIn(checkpoints, m, w)
  BY DEF OutcomeOf, OutcomeIn
<1>2. QED
  BY <1>1, OutcomeInIs

(* So memory that agrees with the file holds its outcomes. *)
LEMMA RemembersOutcome ==
    ASSUME Vouched(register, quarantine, checkpoints, ledger, quota), NEW j, NEW w
    PROVE  RemembersAt(checkpoints, j, w) <=> j.outcomes[w] = OutcomeOf(j.manifest, w)
<1>1. CASE HasKey(checkpoints, <<j.manifest, w>>)
  <2>1. PICK n \in DOMAIN checkpoints : Key(checkpoints[n]) = <<j.manifest, w>>
    BY <1>1 DEF HasKey
  <2>2. checkpoints[n].manifest = j.manifest /\ checkpoints[n].window = w
    BY <2>1 DEF Key
  <2>3. /\ OutcomeOf(j.manifest, w) = checkpoints[n].status
        /\ checkpoints[n].status \in {"COMPLETED", "QUARANTINED"}
    BY <2>2, OutcomeIs
  <2>4. \A k \in DOMAIN checkpoints : Key(checkpoints[k]) = <<j.manifest, w>> => k = n
    BY <2>1 DEF Vouched
  <2>5. QED
    BY <1>1, <2>1, <2>3, <2>4 DEF RemembersAt
<1>2. CASE ~HasKey(checkpoints, <<j.manifest, w>>)
  <2>1. OutcomeOf(j.manifest, w) = "pending"
    BY <1>2, OutcomeIs
  <2>2. QED
    BY <1>2, <2>1 DEF RemembersAt, HasKey
<1>3. QED
  BY <1>1, <1>2

(***************************************************************************)
(* Steps that leave the files alone.                                       *)
(***************************************************************************)

LEMMA ReservedIsBooked == \A m, w : w \in Reserved(m) <=> HasKey(quota, <<m, w>>)
BY ReservedKeys DEF HasKey

LEMMA OpenAcquires ==
    ASSUME Acquiring, NEW p \in Procs, Open(p)
    PROVE  FilesInv' /\ ConductInv'
<1> DEFINE outcomes == Outcomes(job[p].manifest)
           orphans == Orphans(job[p].manifest, outcomes)
           j == [job[p] EXCEPT !.outcomes = outcomes, !.orphans = orphans]
<1>1. CASE ~(CheckpointsValid /\ QuotaValid)
  BY <1>1, RaiseRests DEF Open
<1>2. CASE CheckpointsValid /\ QuotaValid
  <2>1. PICK label : /\ label = IF orphans # {} THEN "orphan" ELSE IF Blocked(outcomes) THEN "close"
                                ELSE "loop"
                     /\ Moved(p, label, j)
    BY <1>2 DEF Open, Goto, Update, Moved
  <2>2. /\ pc[p] = "open" /\ pc[p] \notin Unlocked /\ UNCHANGED <<files, sent>>
        /\ job[p].observation.sent = 0 /\ job[p] \in JobType
    BY <1>2, AtWork DEF Open, At, Unlocked, Conduct, Wire
  <2>3. /\ j.outcomes = outcomes /\ j.orphans = orphans /\ j.manifest = job[p].manifest
        /\ j.observation = job[p].observation /\ j.asked = job[p].asked
    BY <2>2 DEF JobType
  <2>4. /\ \A w \in Window : outcomes[w] = OutcomeOf(job[p].manifest, w)
        /\ \A w : w \in orphans <=> HasKey(quota, <<job[p].manifest, w>>) /\ outcomes[w] = "pending"
    BY ReservedIsBooked DEF Outcomes, Orphans
  <2>5. Blocked(outcomes) <=> \E w \in Window : outcomes[w] = "QUARANTINED"
    BY DEF Blocked, With
  <2>6. \A n \in DOMAIN checkpoints : Once(ledger, Cp, n)
    BY <1>2, Readings DEF CheckpointsValid, Reconciled, Cp
  <2> HIDE DEF j, outcomes, orphans
  <2>7. \A w \in Window : RemembersAt(checkpoints, j, w)
    BY <2>3, <2>4, AtWork, RemembersOutcome
  <2>8. label \in {"orphan", "close", "loop"} /\ (label = "orphan" <=> orphans # {})
        /\ (label = "close" => Blocked(outcomes)) /\ (label = "loop" => ~Blocked(outcomes))
    BY <2>1
  <2>9. Duty(register, quarantine, ledger, label, j) /\ Noting(ledger, label, j)
        /\ Recall(checkpoints, ledger, label, j)
    BY <2>6, <2>7, <2>8 DEF Duty, Noting, Recall, Working, InLoop, Judged
  <2>10. Front(label, j) /\ Wire(sent, label, j)
    BY <2>2, <2>3, <2>4, <2>5, <2>8 DEF Front, Recalling, Wire, Working, InLoop, Judged
  <2>11. Booked(quota, ledger, label, j)
    BY <2>3, <2>4, <2>8 DEF Booked, Recalling, Working, InLoop, Judged
  <2>12. QED
    BY <2>1, <2>2, <2>9, <2>10, <2>11, LocalStep DEF Conduct
<1>3. QED
  BY <1>1, <1>2

LEMMA TakeOrphanAcquires ==
    ASSUME Acquiring, NEW p \in Procs, TakeOrphan(p)
    PROVE  FilesInv' /\ ConductInv'
<1>1. PICK w \in job[p].orphans : Update(p, [job[p] EXCEPT !.window = w])
  BY DEF TakeOrphan
<1> DEFINE j == [job[p] EXCEPT !.window = w]
<1>2. /\ pc[p] = "orphan" /\ pc[p] \notin Unlocked /\ UNCHANGED <<files, sent>> /\ Moved(p, "reject", j)
  BY <1>1 DEF TakeOrphan, At, Unlocked, Moved, Goto, Update
<1>3. job[p] \in JobType
  BY AtWork
<1>4. /\ j.window = w /\ j.orphans = job[p].orphans /\ j.manifest = job[p].manifest
      /\ j.outcomes = job[p].outcomes /\ j.observation = job[p].observation /\ j.orphans # {}
      /\ j.asked = job[p].asked
  BY <1>1, <1>3 DEF JobType
<1>5. Conduct(register, quarantine, checkpoints, ledger, quota, sent, "orphan", job[p])
  BY <1>2, AtWork
<1> HIDE DEF j
<1>6. \A v \in Window : RemembersAt(checkpoints, job[p], v) <=> RemembersAt(checkpoints, j, v)
  BY <1>4 DEF RemembersAt
<1>7. /\ Duty(register, quarantine, ledger, "reject", j) /\ Noting(ledger, "reject", j)
      /\ Recall(checkpoints, ledger, "reject", j)
  BY <1>4, <1>5, <1>6 DEF Conduct, Duty, Noting, Recall, Recalling, Working, InLoop, Judged
<1>8. Front("reject", j) /\ Wire(sent, "reject", j)
  BY <1>1, <1>4, <1>5 DEF Conduct, Front, Recalling, Wire, Working, InLoop, Judged
<1>9. Booked(quota, ledger, "reject", j)
  BY <1>1, <1>4, <1>5 DEF Conduct, Booked, Recalling, Working, InLoop, Judged, KeyOf
<1>10. QED
  BY <1>2, <1>7, <1>8, <1>9, LocalStep DEF Conduct

(* The loop is left because it pauses or nothing is pending. *)
LEMMA LoopEnds ==
    ASSUME Acquiring, NEW p \in Procs, pc[p] = "loop", NEW pause,
           pause \/ With(job[p].outcomes, "pending") = {},
           Moved(p, "close", [job[p] EXCEPT !.pause = pause]), UNCHANGED <<files, sent>>
    PROVE  FilesInv' /\ ConductInv'
<1> DEFINE j == [job[p] EXCEPT !.pause = pause]
<1>1. job[p] \in JobType /\ pc[p] \notin Unlocked
  BY AtWork DEF Unlocked
<1>2. /\ j.window = job[p].window /\ j.orphans = job[p].orphans /\ j.manifest = job[p].manifest
      /\ j.outcomes = job[p].outcomes /\ j.observation = job[p].observation /\ j.pause = pause
      /\ j.asked = job[p].asked
  BY <1>1 DEF JobType
<1>3. /\ Conduct(register, quarantine, checkpoints, ledger, quota, sent, "loop", job[p])
      /\ Unresolved(p) = {}
  BY AtWork DEF NothingAmbiguous
<1>4. Moved(p, "close", j)
  OBVIOUS
<1> HIDE DEF j
<1>5. \A v \in Window : RemembersAt(checkpoints, job[p], v) <=> RemembersAt(checkpoints, j, v)
  BY <1>2 DEF RemembersAt
<1>6. /\ Duty(register, quarantine, ledger, "close", j) /\ Noting(ledger, "close", j)
      /\ Recall(checkpoints, ledger, "close", j)
  BY <1>3, <1>5 DEF Conduct, Duty, Noting, Recall, Recalling, Working, InLoop, Judged
<1>7. Front("close", j) /\ Wire(sent, "close", j)
  BY <1>2, <1>3 DEF Conduct, Front, Recalling, Wire, Working, InLoop, Judged
<1>8. \A w \in Window : HasKey(quota, <<j.manifest, w>>) => j.outcomes[w] # "pending"
  BY <1>2, <1>3, ReservedIsBooked DEF Unresolved, Pending, With
<1>9. Booked(quota, ledger, "close", j)
  BY <1>8 DEF Booked, Recalling, Working, InLoop, Judged
<1>10. QED
  BY <1>1, <1>4, <1>6, <1>7, <1>9, LocalStep DEF Conduct

LEMMA EndLoopAcquires ==
    ASSUME Acquiring, NEW p \in Procs, EndLoop(p)
    PROVE  FilesInv' /\ ConductInv'
<1>1. PICK pause : pause = (With(job[p].outcomes, "pending") # {})
  OBVIOUS
<1>2. Moved(p, "close", [job[p] EXCEPT !.pause = pause]) /\ UNCHANGED <<files, sent>> /\ pc[p] = "loop"
  BY <1>1 DEF EndLoop, Pending, Moved, Goto, Update, At
<1>3. QED
  BY <1>1, <1>2, LoopEnds

LEMMA RequestFails ==
    ASSUME Acquiring, NEW p \in Procs, FetchRefused(p) \/ TransportFails(p)
    PROVE  FilesInv' /\ ConductInv'
<1>1. /\ pc[p] \in {"send", "await"} /\ pc[p] \notin Unlocked /\ UNCHANGED <<files, sent>>
      /\ Moved(p, "reject", job[p])
  BY AtWork DEF FetchRefused, TransportFails, At, Unlocked, Moved, Goto
<1>2. Conduct(register, quarantine, checkpoints, ledger, quota, sent, pc[p], job[p])
  BY AtWork
<1>3. /\ Duty(register, quarantine, ledger, "reject", job[p]) /\ Noting(ledger, "reject", job[p])
      /\ Recall(checkpoints, ledger, "reject", job[p])
  BY <1>1, <1>2 DEF Conduct, Duty, Noting, Recall, Recalling, Working, InLoop, Judged
<1>4. Front("reject", job[p]) /\ Wire(sent, "reject", job[p])
  BY <1>1, <1>2 DEF Conduct, Front, Recalling, Wire, Working, InLoop, Judged
<1>5. Booked(quota, ledger, "reject", job[p])
  BY <1>1, <1>2 DEF Conduct, Booked, Recalling, Working, InLoop, Judged
<1>6. QED
  BY <1>1, <1>3, <1>4, <1>5, LocalStep DEF Conduct

LEMMA RespondAcquires ==
    ASSUME Acquiring, NEW p \in Procs, Respond(p)
    PROVE  FilesInv' /\ ConductInv'
<1>1. PICK seen \in {NoObservation} \cup [sent : {Len(sent)}, left : {0, 1}] :
          Update(p, [job[p] EXCEPT !.observation = seen])
  BY DEF Respond
<1>2. PICK label \in {"accept", "reject"} : Goto(p, label)
  BY DEF Respond, Assessments
<1> DEFINE j == [job[p] EXCEPT !.observation = seen]
<1>3. /\ pc[p] = "await" /\ pc[p] \notin Unlocked /\ UNCHANGED <<files, sent>> /\ Moved(p, label, j)
  BY <1>1, <1>2 DEF Respond, At, Unlocked, Moved, Goto, Update
<1>4. job[p] \in JobType /\ seen.sent \in {0, Len(sent)}
  BY <1>1, AtWork DEF NoObservation
<1>5. /\ j.window = job[p].window /\ j.orphans = job[p].orphans /\ j.manifest = job[p].manifest
      /\ j.outcomes = job[p].outcomes /\ j.observation = seen /\ j.asked = job[p].asked
  BY <1>4 DEF JobType
<1>6. /\ Conduct(register, quarantine, checkpoints, ledger, quota, sent, "await", job[p])
      /\ job[p].orphans = {} /\ job[p].window \in Window
  BY <1>3, AtWork DEF NothingAmbiguous, InLoop
<1> HIDE DEF j
<1>7. KeyOf(j) = KeyOf(job[p])
      /\ \A v \in Window : RemembersAt(checkpoints, job[p], v) <=> RemembersAt(checkpoints, j, v)
  BY <1>5 DEF RemembersAt, KeyOf
<1>8. /\ Duty(register, quarantine, ledger, label, j) /\ Noting(ledger, label, j)
      /\ Recall(checkpoints, ledger, label, j)
  BY <1>5, <1>6, <1>7 DEF Conduct, Duty, Noting, Recall, Recalling, Working, InLoop, Judged
<1>9. Front(label, j)
  BY <1>5, <1>6 DEF Conduct, Front, Working, InLoop, Judged
<1>10. Wire(sent, label, j)
  <2>1. Len(sent) \in DOMAIN sent /\ Key(sent[Len(sent)]) = KeyOf(j) /\ Len(sent) \in j.asked
    BY <1>5, <1>6, <1>7 DEF Conduct, Wire
  <2>2. sent[Len(sent)].manifest = j.manifest /\ sent[Len(sent)].window = j.window /\ j.window \in Int
    BY <1>5, <1>6, <2>1 DEF Key, KeyOf, Window
  <2>3. HasKey(sent, KeyOf(j))
    BY <2>1 DEF HasKey
  <2>4. QED
    BY <1>4, <1>5, <1>6, <2>1, <2>2, <2>3 DEF Wire, Judged
<1>11. Booked(quota, ledger, label, j)
  BY <1>5, <1>6, <1>7 DEF Conduct, Booked, Recalling, Working, InLoop, Judged
<1>12. QED
  BY <1>3, <1>8, <1>9, <1>10, <1>11, LocalStep DEF Conduct

(***************************************************************************)
(* A window being worked on: nothing but its own line, event or request.   *)
(***************************************************************************)

Alike(i, j) == /\ j.manifest = i.manifest /\ j.window = i.window /\ j.outcomes = i.outcomes
               /\ j.orphans = i.orphans /\ j.observation = i.observation
               /\ i.asked \subseteq j.asked

Observed(L, M) == \A k \in DOMAIN M : M[k].type = Obs => k \in DOMAIN L /\ M[k] = L[k]

LEMMA WorkingStep ==
    ASSUME Acquiring, NEW p \in Procs, pc[p] \in Working \ {"checkpointed"},
           NEW label \in Working \ {"checkpointed", "reserved", "send"}, NEW j,
           Moved(p, label, j), Alike(job[p], j),
           UNCHANGED <<quota, checkpoints>>, StillOnce(ledger, ledger'), Longer(sent, sent'),
           label # "checkpoint" => pc[p] # "checkpoint" /\ Observed(ledger, ledger'),
           Duty(register', quarantine', ledger', label, j),
           label = "await" => /\ Len(sent') \in DOMAIN sent' /\ Key(sent'[Len(sent')]) = KeyOf(j)
                              /\ Len(sent') \in j.asked,
           label \in {"accept", "registered", "ingest"} => HasKey(sent', KeyOf(j)),
           label \in Judged /\ j.result.status = "COMPLETED" => HasKey(sent', KeyOf(j))
    PROVE  ConductInv'
<1>1. Conduct(register, quarantine, checkpoints, ledger, quota, sent, pc[p], job[p])
  BY AtWork
<1>2. KeyOf(j) = KeyOf(job[p])
      /\ \A v \in Window : RemembersAt(checkpoints, job[p], v) <=> RemembersAt(checkpoints, j, v)
  BY DEF Alike, RemembersAt, KeyOf
<1>3. /\ pc[p] \notin Unlocked /\ pc[p] \in Recalling /\ label \in Recalling
      /\ pc[p] \notin {"loop", "orphan", "close", "open", "idle", "lock"}
      /\ label \notin {"loop", "orphan", "close", "open", "idle", "lock"}
  BY DEF Working, InLoop, Judged, Unlocked, Recalling
<1>4. Recall(checkpoints', ledger', label, j)
  BY <1>1, <1>2, <1>3 DEF Conduct, Recall, StillOnce, Linking
<1>5. Front(label, j)
  BY <1>1, <1>3 DEF Conduct, Front, Alike
<1>6. Wire(sent', label, j)
  BY <1>1, <1>3 DEF Conduct, Wire, Alike, Longer
<1>7. Booked(quota', ledger', label, j)
  BY <1>1, <1>2, <1>3 DEF Conduct, Booked, Alike
<1>8. Noting(ledger', label, j)
  BY <1>1, <1>2, <1>3 DEF Conduct, Noting, Alike, Observed
<1>9. QED
  BY <1>3, <1>4, <1>5, <1>6, <1>7, <1>8, ConductOfStep DEF Conduct

(* The event that links a line. *)
LEMMA LoggedFiles ==
    ASSUME Acquiring, NEW p \in Procs, NEW type \in Linking, NEW n \in Nat, Log(p, type, n),
           UNCHANGED <<quota, checkpoints, register, quarantine, reports, sent>>,
           LinkSet(ledger, type, n) = {}, type \in {Rec, Ing} => n \in DOMAIN register,
           type = Quar => n \in DOMAIN quarantine, type = Cp => n \in DOMAIN checkpoints
    PROVE  /\ FilesInv' /\ StillOnce(ledger, ledger') /\ Once(ledger', type, n)
           /\ \A t, k : t # type \/ k # n => LinkSet(ledger', t, k) = LinkSet(ledger, t, k)
           /\ Observed(ledger, ledger')
<1> DEFINE e == Event(type, job[p].manifest, job[p].window, n)
<1>1. type \in EventType /\ type # Obs
  BY DEF Linking, EventType, Reservation, Rec, Ing, Quar, Cp, Obs
<1>2. e \in Events /\ e.type = type /\ e.ref = n
  BY <1>1, AtWork DEF Event, Events
<1>3. ledger' = Append(ledger, e) /\ ledger \in Seq(Events)
  BY AtWork, FilesAre DEF Log
<1> HIDE DEF e
<1>4. Fresh(ledger, e)
  BY <1>2 DEF Fresh
<1>5. /\ StillOnce(ledger, ledger') /\ Once(ledger', type, n)
      /\ \A t, k : t # type \/ k # n => LinkSet(ledger', t, k) = LinkSet(ledger, t, k)
  BY <1>2, <1>3, <1>4, EventEffect DEF StillOnce
<1>6. Observed(ledger, ledger')
  BY <1>1, <1>2, <1>3, LongerByOne DEF Observed, Longer
<1>7. Longer(register, register) /\ Longer(quarantine, quarantine)
  BY AtWork, FilesAre DEF Longer
<1>8. Vouched(register, quarantine, checkpoints, ledger', quota)
  BY <1>2, <1>3, <1>4, <1>7, AtWork, VouchedEvent
<1>9. Noted(ledger', quota, sent)
  BY <1>1, <1>2, <1>3, AtWork, NotedEvent
<1>10. Counted'
  BY AtWork DEF Counted, MinuteUsed, DayUsed
<1>11. QED
  BY <1>5, <1>6, <1>8, <1>9, <1>10, AtWork DEF FilesInv

LEMMA TransmitAcquires ==
    ASSUME Acquiring, NEW p \in Procs, Transmit(p)
    PROVE  FilesInv' /\ ConductInv'
<1> DEFINE j == [job[p] EXCEPT !.asked = @ \cup {Len(sent) + 1}]
<1>1. /\ pc[p] = "send" /\ Moved(p, "await", j)
      /\ UNCHANGED <<quota, checkpoints, register, quarantine, ledger, reports>>
  BY DEF Transmit, At, Moved, Goto, Update, files
<1>2. Alike(job[p], j) /\ Len(sent) + 1 \in j.asked
  BY AtWork DEF Alike, JobType
<1> HIDE DEF j
<1>3. PICK e \in Reservations : Key(e) = KeyOf(job[p]) /\ sent' = Append(sent, e)
  BY AtWork DEF Transmit, Key, KeyOf, Reservations, TypeOK
<1>4. /\ Longer(sent, sent') /\ Len(sent') \in DOMAIN sent' /\ sent'[Len(sent')] = e
      /\ Len(sent') = Len(sent) + 1
  BY <1>3, AtWork, FilesAre, LongerByOne
<1>5. Longer(quota, quota)
  BY AtWork, FilesAre, LongerByOne
<1>6. Noted(ledger, quota, sent')
  BY <1>4, <1>5, AtWork, NotedStays
<1>7. Counted'
  BY <1>1, AtWork DEF Counted, MinuteUsed, DayUsed
<1>8. FilesInv'
  BY <1>1, <1>6, <1>7, AtWork DEF FilesInv
<1>9. Duty(register', quarantine', ledger', "await", j)
  BY DEF Duty, Judged
<1>10. /\ StillOnce(ledger, ledger') /\ Observed(ledger, ledger')
      /\ Key(sent'[Len(sent')]) = KeyOf(j) /\ Len(sent') \in j.asked
  BY <1>1, <1>2, <1>3, <1>4 DEF StillOnce, Observed, Alike, KeyOf
<1>11. /\ pc[p] \in Working \ {"checkpointed"} /\ "await" \notin Judged
       /\ "await" \in Working \ {"checkpointed", "reserved", "send"}
  BY <1>1 DEF Working, InLoop, Judged
<1>12. ConductInv'
  BY <1>1, <1>2, <1>4, <1>9, <1>10, <1>11, WorkingStep
<1>13. QED
  BY <1>8, <1>12

LEMMA LinkReservationAcquires ==
    ASSUME Acquiring, NEW p \in Procs, LinkReservation(p)
    PROVE  FilesInv' /\ ConductInv'
<1> DEFINE j == [job[p] EXCEPT !.limit = @ - 1]
<1>1. /\ pc[p] = "reserved" /\ Moved(p, "send", j) /\ Log(p, Reservation, Len(quota))
      /\ UNCHANGED <<quota, checkpoints, register, quarantine, reports, sent>>
  BY DEF LinkReservation, At, Moved, Goto, Update, Reservation
<1>2. Alike(job[p], j)
  BY AtWork DEF Alike, JobType
<1> HIDE DEF j
<1>3. Conduct(register, quarantine, checkpoints, ledger, quota, sent, "reserved", job[p])
      /\ LinkSet(ledger, Reservation, Len(quota)) = {}
  BY <1>1, AtWork, Readings DEF SentOnceAndAfterLink, Reservation
<1>4. Len(quota) \in Nat /\ Reservation \in Linking
  BY AtWork, FilesAre DEF Linking
<1>5. /\ FilesInv' /\ StillOnce(ledger, ledger') /\ Once(ledger', Reservation, Len(quota))
      /\ Observed(ledger, ledger')
  BY <1>1, <1>3, <1>4, LoggedFiles DEF Reservation, Rec, Ing, Quar, Cp
<1>6. KeyOf(j) = KeyOf(job[p])
      /\ \A v \in Window : RemembersAt(checkpoints, job[p], v) <=> RemembersAt(checkpoints, j, v)
  BY <1>2 DEF Alike, RemembersAt, KeyOf
<1>7. Duty(register, quarantine, ledger', "send", j) /\ Front("send", j) /\ Wire(sent, "send", j)
  BY <1>2, <1>3 DEF Conduct, Duty, Front, Recalling, Wire, Alike, Working, InLoop, Judged
<1>8. Recall(checkpoints, ledger', "send", j)
  BY <1>3, <1>5, <1>6 DEF Conduct, Recall, Recalling, Working, InLoop, Judged, StillOnce, Linking
<1>9. Booked(quota, ledger', "send", j)
  <2>1. \A n \in DOMAIN quota : Once(ledger', Reservation, n)
    BY <1>3, <1>4, <1>5 DEF Conduct, Booked, StillOnce
  <2>2. QED
    BY <1>2, <1>3, <1>6, <2>1 DEF Conduct, Booked, Recalling, Working, InLoop, Judged, Alike
<1>10. Noting(ledger', "send", j)
  BY <1>2, <1>3, <1>5, <1>6 DEF Conduct, Noting, Observed, Alike, Working, InLoop, Judged
<1>11. Conduct(register', quarantine', checkpoints', ledger', quota', sent', "send", j)
  BY <1>1, <1>7, <1>8, <1>9, <1>10 DEF Conduct
<1>12. QED
  BY <1>1, <1>5, <1>11, ConductOfStep DEF Unlocked

LEMMA RegisterAcquires ==
    ASSUME Acquiring, NEW p \in Procs, Register(p)
    PROVE  FilesInv' /\ ConductInv'
<1>1. /\ pc[p] = "accept" /\ Moved(p, "registered", job[p])
      /\ UNCHANGED <<quota, checkpoints, quarantine, ledger, reports, sent>>
  BY AtWork DEF Register, At, Moved, Goto
<1>2. PICK e \in Lines : Key(e) = KeyOf(job[p]) /\ register' = Append(register, e)
  BY AtWork DEF Register, Line, Lines, Key, KeyOf
<1>3. /\ Longer(register, register') /\ Len(register') \in DOMAIN register'
      /\ register'[Len(register')] = e /\ Len(register') \notin DOMAIN register
  BY <1>2, AtWork, FilesAre, LongerByOne
<1>4. /\ Longer(quota, quota) /\ Longer(quarantine, quarantine) /\ Longer(sent, sent)
  BY AtWork, FilesAre DEF Longer
<1>5. Vouched(register', quarantine, checkpoints, ledger, quota)
  BY <1>3, <1>4, AtWork, VouchedLines
<1>6. Counted'
  BY <1>1, AtWork DEF Counted, MinuteUsed, DayUsed
<1>7. FilesInv'
  BY <1>1, <1>5, <1>6, AtWork DEF FilesInv
<1>8. LinkSet(ledger, Rec, Len(register')) = {} /\ LinkSet(ledger, Ing, Len(register')) = {}
  BY <1>3, AtWork DEF Vouched, RefsIn, LinkSet
<1>9. Duty(register', quarantine', ledger', "registered", job[p])
  BY <1>1, <1>2, <1>3, <1>8 DEF Duty, Judged
<1>10. StillOnce(ledger, ledger') /\ Observed(ledger, ledger') /\ Alike(job[p], job[p])
  BY <1>1 DEF StillOnce, Observed, Alike
<1>11. /\ pc[p] \in Working \ {"checkpointed"} /\ "registered" \notin Judged
       /\ "registered" \in Working \ {"checkpointed", "reserved", "send"}
  BY <1>1 DEF Working, InLoop, Judged
<1>12. HasKey(sent, KeyOf(job[p]))
  BY <1>1, AtWork DEF Conduct, Wire
<1>13. ConductInv'
  BY <1>1, <1>4, <1>9, <1>10, <1>11, <1>12, WorkingStep
<1>14. QED
  BY <1>7, <1>13

LEMMA LinkRecordAcquires ==
    ASSUME Acquiring, NEW p \in Procs, LinkRecord(p)
    PROVE  FilesInv' /\ ConductInv'
<1>1. /\ pc[p] = "registered" /\ Moved(p, "ingest", job[p]) /\ Log(p, Rec, Len(register))
      /\ UNCHANGED <<quota, checkpoints, register, quarantine, reports, sent>>
  BY AtWork DEF LinkRecord, At, Moved, Goto, Rec
<1>2. Conduct(register, quarantine, checkpoints, ledger, quota, sent, "registered", job[p])
  BY <1>1, AtWork
<1>3. /\ Len(register) \in DOMAIN register /\ Key(register[Len(register)]) = KeyOf(job[p])
      /\ LinkSet(ledger, Rec, Len(register)) = {} /\ LinkSet(ledger, Ing, Len(register)) = {}
      /\ HasKey(sent, KeyOf(job[p]))
  BY <1>2 DEF Conduct, Duty, Wire
<1>4. Len(register) \in Nat /\ Rec \in Linking /\ Longer(sent, sent)
  BY AtWork, FilesAre DEF Linking, Longer
<1>5. /\ FilesInv' /\ StillOnce(ledger, ledger') /\ Once(ledger', Rec, Len(register))
      /\ LinkSet(ledger', Ing, Len(register)) = LinkSet(ledger, Ing, Len(register))
      /\ Observed(ledger, ledger')
  BY <1>1, <1>3, <1>4, LoggedFiles DEF Rec, Ing, Quar, Cp
<1>6. Duty(register', quarantine', ledger', "ingest", job[p])
  BY <1>1, <1>3, <1>5 DEF Duty, Judged
<1>7. /\ pc[p] \in Working \ {"checkpointed"} /\ "ingest" \notin Judged /\ Alike(job[p], job[p])
      /\ "ingest" \in Working \ {"checkpointed", "reserved", "send"}
  BY <1>1 DEF Working, InLoop, Judged, Alike
<1>8. ConductInv'
  BY <1>1, <1>3, <1>4, <1>5, <1>6, <1>7, WorkingStep
<1>9. QED
  BY <1>5, <1>8

LEMMA IngestAcquires ==
    ASSUME Acquiring, NEW p \in Procs, Ingest(p)
    PROVE  FilesInv' /\ ConductInv'
<1> DEFINE r == [status |-> "COMPLETED", ref |-> Len(register)]
           j == [job[p] EXCEPT !.result = r]
<1>1. /\ pc[p] = "ingest" /\ Moved(p, "observe", j) /\ Log(p, Ing, Len(register))
      /\ UNCHANGED <<quota, checkpoints, register, quarantine, reports, sent>>
  BY DEF Ingest, At, Moved, Goto, Update, Ing
<1>2. Conduct(register, quarantine, checkpoints, ledger, quota, sent, "ingest", job[p])
  BY <1>1, AtWork
<1>3. /\ Len(register) \in DOMAIN register /\ Key(register[Len(register)]) = KeyOf(job[p])
      /\ Once(ledger, Rec, Len(register)) /\ LinkSet(ledger, Ing, Len(register)) = {}
      /\ HasKey(sent, KeyOf(job[p]))
  BY <1>2 DEF Conduct, Duty, Wire
<1>4. Len(register) \in Nat /\ Ing \in Linking /\ Rec \in Linking /\ Longer(sent, sent)
  BY AtWork, FilesAre DEF Linking, Longer
<1>5. /\ FilesInv' /\ StillOnce(ledger, ledger') /\ Once(ledger', Ing, Len(register))
      /\ Observed(ledger, ledger')
  BY <1>1, <1>3, <1>4, LoggedFiles DEF Rec, Ing, Quar, Cp
<1>6. Alike(job[p], j) /\ j.result = r /\ r.status = "COMPLETED" /\ r.ref = Len(register)
  BY AtWork DEF Alike, JobType
<1> HIDE DEF j, r
<1>7. KeyOf(j) = KeyOf(job[p]) /\ Key(CheckpointOf(j)) = KeyOf(j)
      /\ CheckpointOf(j).status = r.status /\ CheckpointOf(j).ref = r.ref
  BY <1>6 DEF KeyOf, Alike, Key, CheckpointOf
<1>8. Duty(register', quarantine', ledger', "observe", j)
  BY <1>1, <1>3, <1>4, <1>5, <1>6, <1>7 DEF Duty, Grounded, StillOnce
<1>9. /\ pc[p] \in Working \ {"checkpointed"}
      /\ "observe" \in Working \ {"checkpointed", "reserved", "send"}
  BY <1>1 DEF Working, InLoop, Judged
<1>10. ConductInv'
  BY <1>1, <1>3, <1>4, <1>5, <1>6, <1>7, <1>8, <1>9, WorkingStep
<1>11. QED
  BY <1>5, <1>10

LEMMA RejectAcquires ==
    ASSUME Acquiring, NEW p \in Procs, Reject(p)
    PROVE  FilesInv' /\ ConductInv'
<1>1. /\ pc[p] = "reject" /\ Moved(p, "rejected", job[p])
      /\ UNCHANGED <<quota, checkpoints, register, ledger, reports, sent>>
  BY AtWork DEF Reject, At, Moved, Goto
<1>2. PICK e \in Lines : Key(e) = KeyOf(job[p]) /\ quarantine' = Append(quarantine, e)
  BY AtWork DEF Reject, Line, Lines, Key, KeyOf
<1>3. /\ Longer(quarantine, quarantine') /\ Len(quarantine') \in DOMAIN quarantine'
      /\ quarantine'[Len(quarantine')] = e /\ Len(quarantine') \notin DOMAIN quarantine
  BY <1>2, AtWork, FilesAre, LongerByOne
<1>4. /\ Longer(quota, quota) /\ Longer(register, register) /\ Longer(sent, sent)
  BY AtWork, FilesAre DEF Longer
<1>5. Vouched(register, quarantine', checkpoints, ledger, quota)
  BY <1>3, <1>4, AtWork, VouchedLines
<1>6. Counted'
  BY <1>1, AtWork DEF Counted, MinuteUsed, DayUsed
<1>7. FilesInv'
  BY <1>1, <1>5, <1>6, AtWork DEF FilesInv
<1>8. LinkSet(ledger, Quar, Len(quarantine')) = {}
  BY <1>3, AtWork DEF Vouched, RefsIn, LinkSet
<1>9. Duty(register', quarantine', ledger', "rejected", job[p])
  BY <1>1, <1>2, <1>3, <1>8 DEF Duty, Judged
<1>10. StillOnce(ledger, ledger') /\ Observed(ledger, ledger') /\ Alike(job[p], job[p])
  BY <1>1 DEF StillOnce, Observed, Alike
<1>11. /\ pc[p] \in Working \ {"checkpointed"} /\ "rejected" \notin Judged
       /\ "rejected" \in Working \ {"checkpointed", "reserved", "send"}
  BY <1>1 DEF Working, InLoop, Judged
<1>12. ConductInv'
  BY <1>1, <1>4, <1>9, <1>10, <1>11, WorkingStep
<1>13. QED
  BY <1>7, <1>12

LEMMA LinkRejectionAcquires ==
    ASSUME Acquiring, NEW p \in Procs, LinkRejection(p)
    PROVE  FilesInv' /\ ConductInv'
<1> DEFINE r == [status |-> "QUARANTINED", ref |-> Len(quarantine)]
           j == [job[p] EXCEPT !.result = r]
<1>1. PICK label \in {"observe", "checkpoint"} : Moved(p, label, j)
  BY DEF LinkRejection, Moved, Goto, Update
<1>2. /\ pc[p] = "rejected" /\ Log(p, Quar, Len(quarantine))
      /\ UNCHANGED <<quota, checkpoints, register, quarantine, reports, sent>>
  BY DEF LinkRejection, At, Quar
<1>3. Conduct(register, quarantine, checkpoints, ledger, quota, sent, "rejected", job[p])
  BY <1>2, AtWork
<1>4. /\ Len(quarantine) \in DOMAIN quarantine /\ Key(quarantine[Len(quarantine)]) = KeyOf(job[p])
      /\ LinkSet(ledger, Quar, Len(quarantine)) = {}
  BY <1>3 DEF Conduct, Duty
<1>5. Len(quarantine) \in Nat /\ Quar \in Linking /\ Longer(sent, sent)
  BY AtWork, FilesAre DEF Linking, Longer
<1>6. /\ FilesInv' /\ StillOnce(ledger, ledger') /\ Once(ledger', Quar, Len(quarantine))
      /\ Observed(ledger, ledger')
  BY <1>2, <1>4, <1>5, LoggedFiles DEF Rec, Ing, Quar, Cp
<1>7. Alike(job[p], j) /\ j.result = r /\ r.status = "QUARANTINED" /\ r.ref = Len(quarantine)
  BY AtWork DEF Alike, JobType
<1> HIDE DEF j, r
<1>8. KeyOf(j) = KeyOf(job[p]) /\ Key(CheckpointOf(j)) = KeyOf(j)
      /\ CheckpointOf(j).status = r.status /\ CheckpointOf(j).ref = r.ref
  BY <1>7 DEF KeyOf, Alike, Key, CheckpointOf
<1>9. Duty(register', quarantine', ledger', label, j)
  BY <1>2, <1>4, <1>6, <1>7, <1>8 DEF Duty, Grounded
<1>10. /\ pc[p] \in Working \ {"checkpointed"}
       /\ label \in Working \ {"checkpointed", "reserved", "send"}
  BY <1>2 DEF Working, InLoop, Judged
<1>11. ConductInv'
  BY <1>1, <1>2, <1>5, <1>6, <1>7, <1>9, <1>10, WorkingStep
<1>12. QED
  BY <1>6, <1>11

LEMMA ObserveAcquires ==
    ASSUME Acquiring, NEW p \in Procs, Observe(p)
    PROVE  FilesInv' /\ ConductInv'
<1>1. /\ pc[p] = "observe" /\ Moved(p, "checkpoint", job[p])
      /\ UNCHANGED <<quota, checkpoints, register, quarantine, reports, sent>>
  BY AtWork DEF Observe, At, Moved, Goto
<1>2. /\ Conduct(register, quarantine, checkpoints, ledger, quota, sent, "observe", job[p])
      /\ job[p].orphans = {}
  BY <1>1, AtWork DEF NothingAmbiguous, InLoop
<1>3. Longer(sent, sent) /\ Longer(register, register) /\ Longer(quarantine, quarantine)
  BY AtWork, FilesAre DEF Longer
<1>4. Counted'
  BY <1>1, AtWork DEF Counted, MinuteUsed, DayUsed
<1>5. FilesInv' /\ StillOnce(ledger, ledger')
  <2>1. CASE job[p].observation.sent = 0
    <3>1. ledger' = ledger
      BY <2>1 DEF Observe, LastObserved
    <3>2. QED
      BY <1>1, <1>4, <3>1, AtWork DEF FilesInv, StillOnce
  <2>2. CASE job[p].observation.sent # 0
    <3> DEFINE e == Event(Obs, job[p].manifest, job[p].window, job[p].observation.sent)
    <3>1. e \in Events /\ e.type = Obs /\ Key(e) = KeyOf(job[p])
          /\ e.ref = job[p].observation.sent /\ e.manifest = job[p].manifest
          /\ e.window = job[p].window
      BY AtWork DEF Event, Events, EventType, Obs, Key, KeyOf
    <3>2. ledger' = Append(ledger, e) /\ ledger \in Seq(Events)
      BY <2>2, AtWork, FilesAre DEF Observe, LastObserved, Log, Obs
    <3> HIDE DEF e
    <3>3. Fresh(ledger, e) /\ e.type \notin {Rec, Ing, Quar, Cp}
      BY <3>1 DEF Fresh, Linking, Reservation, Rec, Ing, Quar, Cp, Obs
    <3>4. StillOnce(ledger, ledger')
      BY <3>1, <3>2, <3>3, EventEffect DEF StillOnce
    <3>5. Vouched(register, quarantine, checkpoints, ledger', quota)
      BY <1>3, <3>1, <3>2, <3>3, AtWork, VouchedEvent
    <3>6. /\ HasKey(quota, KeyOf(job[p])) /\ e.ref \in DOMAIN sent
          /\ sent[e.ref].manifest = e.manifest /\ sent[e.ref].window <= e.window
      BY <1>2, <2>2, <3>1 DEF Conduct, Booked, Wire, Working, Judged
    <3>7. \A k \in DOMAIN ledger : ledger[k].type = Obs => Key(ledger[k]) # Key(e)
      BY <1>2, <3>1 DEF Conduct, Noting, Working, Judged
    <3>8. Longer(ledger, ledger') /\ DOMAIN ledger' = DOMAIN ledger \cup {Len(ledger) + 1}
          /\ ledger'[Len(ledger) + 1] = e
      BY <3>1, <3>2, LongerByOne
    <3>9. Noted(ledger, quota, sent)
      BY AtWork
    <3>10. Noted(ledger', quota, sent)
      BY <3>1, <3>6, <3>7, <3>8, <3>9 DEF Noted, Longer
    <3>11. QED
      BY <1>1, <1>4, <3>4, <3>5, <3>10, AtWork DEF FilesInv
  <2>3. QED
    BY <2>1, <2>2
<1>6. Duty(register', quarantine', ledger', "checkpoint", job[p])
  BY <1>1, <1>2, <1>3, <1>5, GroundedStays DEF Conduct, Duty, Judged
<1>7. /\ pc[p] \in Working \ {"checkpointed"} /\ Alike(job[p], job[p])
      /\ "checkpoint" \in Working \ {"checkpointed", "reserved", "send"}
  BY <1>1 DEF Working, InLoop, Judged, Alike
<1>8. job[p].result.status = "COMPLETED" => HasKey(sent, KeyOf(job[p]))
  BY <1>2 DEF Conduct, Wire, Judged
<1>9. ConductInv'
  BY <1>1, <1>3, <1>5, <1>6, <1>7, <1>8, WorkingStep
<1>10. QED
  BY <1>5, <1>9

LEMMA CheckpointAcquires ==
    ASSUME Acquiring, NEW p \in Procs, Checkpoint(p)
    PROVE  FilesInv' /\ ConductInv'
<1> DEFINE c == CheckpointOf(job[p])
<1>1. CASE ~(CheckpointsValid /\ OutcomeOf(job[p].manifest, job[p].window) = "pending")
  BY <1>1, RaiseRests DEF Checkpoint
<1>2. CASE CheckpointsValid /\ OutcomeOf(job[p].manifest, job[p].window) = "pending"
  <2>1. /\ pc[p] = "checkpoint" /\ Moved(p, "checkpointed", job[p])
        /\ checkpoints' = Append(checkpoints, c)
        /\ UNCHANGED <<quota, register, quarantine, ledger, reports, sent>>
    BY <1>2, AtWork DEF Checkpoint, At, Moved, Goto, CheckpointOf
  <2>2. Conduct(register, quarantine, checkpoints, ledger, quota, sent, "checkpoint", job[p])
    BY <2>1, AtWork
  <2>3. c \in Terminals /\ Key(c) = KeyOf(job[p])
    BY AtWork DEF CheckpointOf, Terminals, Key, KeyOf
  <2> HIDE DEF c
  <2>4. /\ Longer(checkpoints, checkpoints') /\ Len(checkpoints) \in Nat
        /\ DOMAIN checkpoints' = DOMAIN checkpoints \cup {Len(checkpoints) + 1}
        /\ Len(checkpoints) + 1 \notin DOMAIN checkpoints
        /\ Len(checkpoints') = Len(checkpoints) + 1
        /\ checkpoints'[Len(checkpoints) + 1] = c
    BY <2>1, <2>3, AtWork, FilesAre, LongerByOne
  <2>5. ~HasKey(checkpoints, KeyOf(job[p]))
    <3>1. ASSUME NEW n \in DOMAIN checkpoints, Key(checkpoints[n]) = KeyOf(job[p]) PROVE FALSE
      <4>1. checkpoints[n].manifest = job[p].manifest /\ checkpoints[n].window = job[p].window
        BY <3>1 DEF Key, KeyOf
      <4>2. QED
        BY <1>2, <4>1, AtWork, OutcomeIs
    <3>2. QED
      BY <3>1 DEF HasKey
  <2>6. Grounded(register, quarantine, ledger, c) /\ HasKey(quota, KeyOf(job[p]))
    BY <2>2 DEF Conduct, Duty, Booked, Judged, Working, c
  <2>7. Vouched(register, quarantine, checkpoints', ledger, quota)
    <3>1. Vouched(register, quarantine, checkpoints, ledger, quota)
      BY AtWork
    <3>2. \A n \in DOMAIN checkpoints' :
              Grounded(register, quarantine, ledger, checkpoints'[n]) /\ HasKey(quota, Key(checkpoints'[n]))
      BY <2>3, <2>4, <2>6, <3>1 DEF Vouched, Longer
    <3>3. \A a, b \in DOMAIN checkpoints' : Key(checkpoints'[a]) = Key(checkpoints'[b]) => a = b
      BY <2>3, <2>4, <2>5, <3>1 DEF Vouched, Longer, HasKey
    <3>4. RefsIn(ledger, Cp, checkpoints')
      BY <2>4, <3>1 DEF Vouched, RefsIn
    <3>5. QED
      BY <3>1, <3>2, <3>3, <3>4 DEF Vouched
  <2>8. Reported(checkpoints', reports)
    BY <2>4, AtWork, HonestStays DEF Reported
  <2>9. Counted'
    BY <2>1, AtWork DEF Counted, MinuteUsed, DayUsed
  <2>10. FilesInv'
    BY <2>1, <2>7, <2>8, <2>9, AtWork DEF FilesInv
  <2>11. LinkSet(ledger, Cp, Len(checkpoints')) = {}
    BY <2>4, AtWork DEF Vouched, RefsIn, LinkSet
  <2>12. \A w \in Window \ {job[p].window} : RemembersAt(checkpoints', job[p], w)
    <3>1. ASSUME NEW w \in Window \ {job[p].window} PROVE RemembersAt(checkpoints', job[p], w)
      <4>1. RemembersAt(checkpoints, job[p], w)
        BY <2>2 DEF Conduct, Recall, Recalling, Working, Judged
      <4>2. KeyOf(job[p]) # <<job[p].manifest, w>>
        BY DEF KeyOf
      <4>3. QED
        BY <2>3, <2>4, <4>1, <4>2 DEF RemembersAt, HasKey, Longer
    <3>2. QED
      BY <3>1
  <2>13. \A n \in DOMAIN checkpoints' \ {Len(checkpoints')} : Once(ledger, Cp, n)
    BY <2>2, <2>4 DEF Conduct, Recall, Recalling, Working, Judged
  <2>14. Recall(checkpoints', ledger, "checkpointed", job[p])
    BY <2>4, <2>11, <2>12, <2>13 DEF Recall, c
  <2>15. Duty(register, quarantine, ledger, "checkpointed", job[p])
         /\ Front("checkpointed", job[p]) /\ Wire(sent, "checkpointed", job[p])
    BY <2>2 DEF Conduct, Duty, Front, Recalling, Wire, Working, InLoop, Judged
  <2>16. Booked(quota, ledger, "checkpointed", job[p]) /\ Noting(ledger, "checkpointed", job[p])
    BY <2>2 DEF Conduct, Booked, Noting, Recalling, Working, InLoop, Judged
  <2>17. QED
    BY <2>1, <2>10, <2>14, <2>15, <2>16, ConductOfStep DEF Conduct, Unlocked
<1>3. QED
  BY <1>1, <1>2

LEMMA ReportIsHonest ==
    ASSUME Acquiring, NEW p \in Procs, pc[p] = "close"
    PROVE  ReportOf(p) \in Reports /\ Honest(checkpoints, ReportOf(p))
<1> DEFINE j == job[p]
           o == job[p].outcomes
           r == ReportOf(p)
           status == StatusOf(o, job[p].pause)
<1>1. /\ Conduct(register, quarantine, checkpoints, ledger, quota, sent, "close", j)
      /\ Vouched(register, quarantine, checkpoints, ledger, quota)
      /\ o \in [Window -> Outcome] /\ Len(checkpoints) \in Nat /\ Len(quota) \in Nat
      /\ DOMAIN checkpoints = 1..Len(checkpoints) /\ j \in JobType /\ j.manifest \in Manifests
  BY AtWork, FilesAre
<1>2. /\ r.manifest = j.manifest /\ r.status = status /\ r.outcomes = o
      /\ r.ready = (status = "COMPLETE" /\ j.manifest \in FullScope)
      /\ r.checkpoint = Len(checkpoints) /\ r.quota = Len(quota)
  BY DEF ReportOf, TerminalHash
<1>3. r \in Reports
  <2>1. status \in ReportStatus
    BY DEF StatusOf, ReportStatus
  <2>2. (status = "COMPLETE" /\ j.manifest \in FullScope) \in BOOLEAN
    OBVIOUS
  <2>3. QED
    BY <1>1, <2>1, <2>2 DEF ReportOf, Reports, TerminalHash
<1>4. ASSUME NEW w \in Window, NEW s \in {"COMPLETED", "QUARANTINED"}
      PROVE  o[w] = s <=> DoneIn(checkpoints, j.manifest, w, s, Len(checkpoints))
  <2>1. RemembersAt(checkpoints, j, w)
    BY <1>1 DEF Conduct, Recall
  <2>2. QED
    BY <1>1, <1>4, <2>1 DEF RemembersAt, DoneIn, HasKey, Vouched
<1>5. status = "COMPLETE" <=> \A w \in Window : o[w] = "COMPLETED"
  BY <1>1 DEF StatusOf, Blocked, With, Outcome
<1>6. status # "IN_PROGRESS"
  BY <1>1 DEF Conduct, Front, StatusOf, Blocked, With
<1> HIDE DEF j, o, r, status
<1>7. Honest(checkpoints, r)
  <2>1. \A w \in Window : o[w] = "COMPLETED" <=>
            DoneIn(checkpoints, r.manifest, w, "COMPLETED", r.checkpoint)
    BY <1>2, <1>4
  <2>2. \A w \in Window, s \in {"COMPLETED", "QUARANTINED"} :
            r.outcomes[w] = s <=> DoneIn(checkpoints, r.manifest, w, s, r.checkpoint)
    BY <1>2, <1>4
  <2>3. r.status = "COMPLETE" <=>
            \A w \in Window : DoneIn(checkpoints, r.manifest, w, "COMPLETED", r.checkpoint)
    BY <1>2, <1>5, <2>1
  <2>4. r.checkpoint \in 0..Len(checkpoints)
    BY <1>1, <1>2
  <2>5. (r.ready => r.manifest \in FullScope /\ r.status = "COMPLETE") /\ r.status # "IN_PROGRESS"
    BY <1>2, <1>6
  <2>6. QED
    BY <2>2, <2>3, <2>4, <2>5 DEF Honest
<1>8. QED
  BY <1>3, <1>7 DEF r

LEMMA CloseAcquires ==
    ASSUME Acquiring, NEW p \in Procs, Close(p)
    PROVE  FilesInv' /\ ConductInv'
<1> DEFINE e == Event(Rep, job[p].manifest, job[p].window, Len(reports) + 1)
<1>1. CASE ~(/\ CheckpointsValid /\ QuotaValid
             /\ With(job[p].outcomes, "COMPLETED") = Window => MarketStateValid)
  BY <1>1, RaiseRests DEF Close
<1>2. CASE /\ CheckpointsValid /\ QuotaValid
           /\ With(job[p].outcomes, "COMPLETED") = Window => MarketStateValid
  <2>1. /\ pc[p] = "close" /\ Moved(p, "idle", NoJob)
        /\ reports' = Append(reports, ReportOf(p)) /\ ledger' = Append(ledger, e)
        /\ UNCHANGED <<quota, checkpoints, register, quarantine, sent>>
    BY <1>2 DEF Close, At, Moved, Leave, Goto, Update, Rep
  <2>2. e \in Events /\ e.type = Rep /\ ledger \in Seq(Events) /\ reports \in Seq(Reports)
    BY AtWork, FilesAre DEF Event, Events, EventType, Rep
  <2> HIDE DEF e
  <2>3. Fresh(ledger, e) /\ e.type \notin {Rec, Ing, Quar, Cp, Obs}
    BY <2>2 DEF Fresh, Linking, Reservation, Rec, Ing, Quar, Cp, Obs, Rep
  <2>4. Longer(register, register) /\ Longer(quarantine, quarantine)
    BY AtWork, FilesAre DEF Longer
  <2>5. Vouched(register, quarantine, checkpoints, ledger', quota)
    BY <2>1, <2>2, <2>3, <2>4, AtWork, VouchedEvent
  <2>6. Noted(ledger', quota, sent)
    BY <2>1, <2>2, <2>3, AtWork, NotedEvent
  <2>7. ReportOf(p) \in Reports /\ Honest(checkpoints, ReportOf(p))
    BY <2>1, ReportIsHonest
  <2>8. Reported(checkpoints, reports')
    BY <2>1, <2>2, <2>7, AtWork, LongerByOne DEF Reported, Longer
  <2>9. Counted'
    BY <2>1, AtWork DEF Counted, MinuteUsed, DayUsed
  <2>10. FilesInv'
    BY <2>1, <2>5, <2>6, <2>8, <2>9 DEF FilesInv
  <2>11. "idle" \in Unlocked \cup {"open"} /\ pc[p] \notin Unlocked
    BY <2>1 DEF Unlocked
  <2>12. Conduct(register', quarantine', checkpoints', ledger', quota', sent', "idle", NoJob)
    BY <2>11, NoJobRests, Resting
  <2>13. QED
    BY <2>1, <2>10, <2>11, <2>12, ConductOfStep
<1>3. QED
  BY <1>1, <1>2

LEMMA CrashAcquires ==
    ASSUME Acquiring, NEW p \in Procs, Crash(p)
    PROVE  FilesInv' /\ ConductInv'
BY LeaveRests DEF Crash

LEMMA LinkCheckpointAcquires ==
    ASSUME Acquiring, NEW p \in Procs, LinkCheckpoint(p)
    PROVE  FilesInv' /\ ConductInv'
<1> DEFINE i == job[p]
           left == i.orphans \ {i.window}
           stop == i.result.status = "QUARANTINED"
           dry  == ~stop /\ i.observation.left < 1
           j == [i EXCEPT !.outcomes[i.window] = i.result.status,
                          !.orphans = left, !.result = NoResult, !.pause = dry]
           label == IF left # {} THEN "orphan" ELSE IF stop \/ dry THEN "close" ELSE "loop"
<1>1. /\ pc[p] = "checkpointed" /\ Moved(p, label, j) /\ Log(p, Cp, Len(checkpoints))
      /\ UNCHANGED <<quota, checkpoints, register, quarantine, reports, sent>>
  BY DEF LinkCheckpoint, At, Moved, Goto, Update, Cp
<1>2. /\ Conduct(register, quarantine, checkpoints, ledger, quota, sent, "checkpointed", i)
      /\ i \in JobType /\ i.window \in Window /\ i.outcomes \in [Window -> Outcome]
      /\ NothingAmbiguous(p) /\ FilesInv
  BY <1>1, AtWork DEF Acquiring
<1>3. /\ j.manifest = i.manifest /\ j.window = i.window /\ j.orphans = left
      /\ j.observation = i.observation /\ j.asked = i.asked /\ j.pause = dry
      /\ j.outcomes[i.window] = i.result.status
      /\ \A w \in Window \ {i.window} : j.outcomes[w] = i.outcomes[w]
  BY <1>2 DEF JobType
<1>4. /\ Len(checkpoints) \in DOMAIN checkpoints /\ checkpoints[Len(checkpoints)] = CheckpointOf(i)
      /\ LinkSet(ledger, Cp, Len(checkpoints)) = {}
      /\ \A n \in DOMAIN checkpoints \ {Len(checkpoints)} : Once(ledger, Cp, n)
      /\ \A w \in Window \ {i.window} : RemembersAt(checkpoints, i, w)
  BY <1>2 DEF Conduct, Recall
<1>5. /\ i.result.status \in {"COMPLETED", "QUARANTINED"}
      /\ i.orphans # {} => stop
      /\ i.orphans = {} => Unresolved(p) \subseteq {i.window}
  BY <1>1, <1>2 DEF NothingAmbiguous, Judged, Working
<1>6. /\ label \in {"orphan", "close", "loop"} /\ (label = "orphan" <=> left # {})
      /\ (label = "close" => stop \/ dry) /\ (label = "loop" => ~stop)
  OBVIOUS
<1>7. label = "loop" => i.orphans = {}
  BY <1>5, <1>6
<1>8. \A w \in Window : HasKey(quota, <<i.manifest, w>>) /\ i.outcomes[w] = "pending" =>
                           w \in i.orphans \/ w = i.window
  <2>1. CASE i.orphans # {}
    BY <1>2, <2>1 DEF Conduct, Booked, Working, Judged
  <2>2. CASE i.orphans = {}
    BY <1>5, <2>2, ReservedIsBooked DEF Unresolved, Pending, With
  <2>3. QED
    BY <2>1, <2>2
<1>9. /\ \A w \in i.orphans : HasKey(quota, <<i.manifest, w>>)
      /\ i.orphans # {} => i.observation.sent = 0
      /\ i.orphans = {} => /\ \A w \in Window : i.outcomes[w] # "QUARANTINED"
                           /\ \A v \in 1..(i.window - 1) : i.outcomes[v] = "COMPLETED"
  BY <1>2 DEF Conduct, Booked, Wire, Front, Recalling, Working, Judged
<1>10. \A w \in i.orphans : i.outcomes[w] = "pending"
  BY <1>2 DEF Conduct, Front, Recalling, Working, Judged
<1>11. i.observation.sent # 0 =>
           /\ i.observation.sent \in DOMAIN sent /\ sent[i.observation.sent].manifest = i.manifest
           /\ i.observation.sent \in i.asked
           /\ sent[i.observation.sent].window <= i.window
           /\ sent[i.observation.sent].window \in Int
  <2>1. ASSUME i.observation.sent \in DOMAIN sent PROVE sent[i.observation.sent].window \in Int
    <3>1. sent[i.observation.sent] \in Reservations
      BY <2>1, AtWork, FilesAre
    <3>2. QED
      BY <3>1 DEF Reservations, Window
  <2>2. QED
    BY <1>2, <2>1 DEF Conduct, Wire, Working, Judged
<1>12. Len(checkpoints) \in Nat /\ Cp \in Linking
  BY AtWork, FilesAre DEF Linking
<1>13. /\ FilesInv' /\ StillOnce(ledger, ledger') /\ Once(ledger', Cp, Len(checkpoints))
       /\ Observed(ledger, ledger')
  BY <1>1, <1>4, <1>12, LoggedFiles DEF Rec, Ing, Quar, Cp
<1> HIDE DEF label, j, stop, dry, left
<1>14. \A w \in Window : RemembersAt(checkpoints, j, w)
  <2>1. ASSUME NEW w \in Window \ {i.window} PROVE RemembersAt(checkpoints, j, w)
    BY <1>3, <1>4 DEF RemembersAt
  <2>2. RemembersAt(checkpoints, j, i.window)
    BY <1>3, <1>4, <1>5 DEF RemembersAt, CheckpointOf, Key
  <2>3. QED
    BY <2>1, <2>2
<1>15. \A n \in DOMAIN checkpoints : Once(ledger', Cp, n)
  BY <1>4, <1>12, <1>13 DEF StillOnce
<1>16. /\ Duty(register, quarantine, ledger', label, j) /\ Noting(ledger', label, j)
       /\ Recall(checkpoints, ledger', label, j)
  BY <1>6, <1>14, <1>15 DEF Duty, Noting, Recall, Recalling, Working, InLoop, Judged
<1>17. Front(label, j)
  <2>1. label = "loop" => \A w \in Window : j.outcomes[w] # "QUARANTINED"
    BY <1>3, <1>5, <1>6, <1>7, <1>9 DEF stop
  <2>2. label = "close" => j.pause \/ j.outcomes[i.window] = "QUARANTINED"
    BY <1>3, <1>6 DEF stop
  <2>3. \A w \in j.orphans : j.outcomes[w] = "pending"
    <3>1. j.orphans \subseteq Window \ {i.window} /\ j.orphans \subseteq i.orphans
      BY <1>3, AtWork DEF left
    <3>2. QED
      BY <1>3, <1>10, <3>1
  <2>4. QED
    BY <1>2, <1>6, <2>1, <2>2, <2>3 DEF Front, Working, InLoop, Judged
<1>18. Wire(sent, label, j)
  <2>1. label = "orphan" \/ j.orphans # {} => j.observation.sent = 0
    BY <1>3, <1>6, <1>9 DEF left
  <2>2. ASSUME label = "loop", j.observation.sent # 0, NEW v \in Window,
               v <= sent[j.observation.sent].window
        PROVE  j.outcomes[v] # "pending"
    <3>1. v <= i.window /\ v \in Int /\ i.window \in Int /\ 1 <= v
      BY <1>2, <1>3, <1>11, <2>2 DEF Window
    <3>2. CASE v = i.window
      BY <1>3, <1>5, <3>2
    <3>3. CASE v # i.window
      <4>1. v \in 1..(i.window - 1)
        BY <3>1, <3>3
      <4>2. QED
        BY <1>3, <1>7, <1>9, <2>2, <3>3, <4>1
    <3>4. QED
      BY <3>2, <3>3
  <2>3. QED
    BY <1>3, <1>6, <1>11, <2>1, <2>2 DEF Wire, Working, InLoop, Judged
<1>19. Booked(quota, ledger', label, j)
  <2>1. \A w \in Window : HasKey(quota, <<j.manifest, w>>) /\ j.outcomes[w] = "pending" => w \in left
    BY <1>3, <1>5, <1>8 DEF left
  <2>2. \A w \in j.orphans : HasKey(quota, <<j.manifest, w>>)
    BY <1>3, <1>9 DEF left
  <2>3. QED
    BY <1>3, <1>6, <2>1, <2>2 DEF Booked, Recalling, Working, InLoop, Judged
<1>20. Conduct(register', quarantine', checkpoints', ledger', quota', sent', label, j)
  BY <1>1, <1>16, <1>17, <1>18, <1>19 DEF Conduct
<1>21. QED
  BY <1>1, <1>13, <1>20, ConductOfStep DEF Unlocked

(* The lines of a file that carry a minute, or a day, and what one more     *)
(* line adds to them.                                                      *)
MinuteIn(F, t) == Cardinality({n \in DOMAIN F : F[n].minute = t})
DayIn(F, d)    == Cardinality({n \in DOMAIN F : DayOf(F[n].minute) = d})

LEMMA CountsAre ==
    ASSUME NEW F \in Seq(Reservations), NEW t
    PROVE  /\ MinuteIn(F, t) \in Nat /\ DayIn(F, t) \in Nat
           /\ (\A n \in DOMAIN F : F[n].minute # t) => MinuteIn(F, t) = 0
           /\ (\A n \in DOMAIN F : DayOf(F[n].minute) # t) => DayIn(F, t) = 0
<1> DEFINE M == {n \in DOMAIN F : F[n].minute = t}
           D == {n \in DOMAIN F : DayOf(F[n].minute) = t}
<1>1. IsFiniteSet(DOMAIN F)
  BY LenProperties, FS_Interval
<1>2. IsFiniteSet(M) /\ IsFiniteSet(D)
  BY <1>1, FS_Subset
<1>3. MinuteIn(F, t) = Cardinality(M) /\ DayIn(F, t) = Cardinality(D)
  BY DEF MinuteIn, DayIn
<1>4. /\ (\A n \in DOMAIN F : F[n].minute # t) => M = {}
      /\ (\A n \in DOMAIN F : DayOf(F[n].minute) # t) => D = {}
  OBVIOUS
<1> HIDE DEF M, D
<1>5. QED
  BY <1>2, <1>3, <1>4, FS_CardinalityType, FS_EmptySet

LEMMA CountsGrow ==
    ASSUME NEW F \in Seq(Reservations), NEW e \in Reservations, NEW t
    PROVE  /\ MinuteIn(Append(F, e), t) = MinuteIn(F, t) + IF e.minute = t THEN 1 ELSE 0
           /\ DayIn(Append(F, e), t) = DayIn(F, t) + IF DayOf(e.minute) = t THEN 1 ELSE 0
<1> DEFINE G == Append(F, e)
           M == {n \in DOMAIN F : F[n].minute = t}
           D == {n \in DOMAIN F : DayOf(F[n].minute) = t}
<1>1. /\ DOMAIN G = DOMAIN F \cup {Len(F) + 1} /\ Len(F) + 1 \notin DOMAIN F
      /\ G[Len(F) + 1] = e /\ \A n \in DOMAIN F : G[n] = F[n]
  BY LongerByOne DEF Longer
<1>2. IsFiniteSet(M) /\ IsFiniteSet(D)
  <2>1. IsFiniteSet(DOMAIN F)
    BY LenProperties, FS_Interval
  <2>2. QED
    BY <2>1, FS_Subset
<1>3. Len(F) + 1 \notin M /\ Len(F) + 1 \notin D
  BY <1>1
<1> HIDE DEF G
<1>4. {n \in DOMAIN G : G[n].minute = t} = IF e.minute = t THEN M \cup {Len(F) + 1} ELSE M
  BY <1>1
<1>5. {n \in DOMAIN G : DayOf(G[n].minute) = t} = IF DayOf(e.minute) = t THEN D \cup {Len(F) + 1} ELSE D
  BY <1>1
<1>6. MinuteIn(F, t) = Cardinality(M) /\ DayIn(F, t) = Cardinality(D)
  BY DEF MinuteIn, DayIn
<1>7. /\ MinuteIn(G, t) = Cardinality(IF e.minute = t THEN M \cup {Len(F) + 1} ELSE M)
      /\ DayIn(G, t) = Cardinality(IF DayOf(e.minute) = t THEN D \cup {Len(F) + 1} ELSE D)
  BY <1>4, <1>5, Zenon DEF MinuteIn, DayIn
<1> HIDE DEF M, D
<1>8. /\ Cardinality(M) \in Nat /\ Cardinality(M \cup {Len(F) + 1}) = Cardinality(M) + 1
      /\ Cardinality(D) \in Nat /\ Cardinality(D \cup {Len(F) + 1}) = Cardinality(D) + 1
  BY <1>2, <1>3, FS_CardinalityType, FS_AddElement
<1>9. MinuteIn(G, t) = MinuteIn(F, t) + IF e.minute = t THEN 1 ELSE 0
  BY <1>6, <1>7, <1>8
<1>10. DayIn(G, t) = DayIn(F, t) + IF DayOf(e.minute) = t THEN 1 ELSE 0
  BY <1>6, <1>7, <1>8
<1>11. QED
  BY <1>9, <1>10 DEF G

LEMMA CountsAfter ==
    ASSUME TypeOK, NEW e \in Reservations, quota' = Append(quota, e), NEW t
    PROVE  /\ MinuteUsed(t) \in Nat /\ MinuteUsed(t)' = MinuteUsed(t) + IF e.minute = t THEN 1 ELSE 0
           /\ DayUsed(t) \in Nat /\ DayUsed(t)' = DayUsed(t) + IF DayOf(e.minute) = t THEN 1 ELSE 0
<1>1. /\ MinuteUsed(t) = MinuteIn(quota, t) /\ MinuteUsed(t)' = MinuteIn(quota', t)
      /\ DayUsed(t) = DayIn(quota, t) /\ DayUsed(t)' = DayIn(quota', t)
  BY DEF MinuteUsed, MinuteIn, DayUsed, DayIn, DayOf
<1>2. QED
  BY <1>1, FilesAre, CountsAre, CountsGrow

LEMMA StillCounted ==
    ASSUME TypeOK, Counted, QuotaLeft, NEW e \in Reservations, e.minute = minute,
           ~HasKey(quota, Key(e)), quota' = Append(quota, e)
    PROVE  Counted'
<1>1. /\ DOMAIN quota' = DOMAIN quota \cup {Len(quota) + 1}
      /\ quota'[Len(quota) + 1] = e /\ \A n \in DOMAIN quota : quota'[n] = quota[n]
  BY FilesAre, LongerByOne DEF Longer
<1>2. \A a, b \in DOMAIN quota' : Key(quota'[a]) = Key(quota'[b]) => a = b
  BY <1>1 DEF Counted, HasKey
<1>3. /\ MinuteUsed(minute) < MinuteLimit /\ DayUsed(DayOf(minute)) < DayLimit
      /\ MinuteLimit \in Nat /\ DayLimit \in Nat
  BY HistoryAssumption DEF QuotaLeft
<1>4. ASSUME NEW t, t = minute \/ \E n \in DOMAIN quota : quota[n].minute = t
      PROVE  MinuteUsed(t)' <= MinuteLimit
  <2>1. MinuteUsed(t) \in Nat /\ MinuteUsed(t)' = MinuteUsed(t) + IF e.minute = t THEN 1 ELSE 0
    BY CountsAfter
  <2>2. CASE t = minute
    BY <1>3, <2>1, <2>2
  <2>3. CASE t # minute
    BY <1>4, <2>1, <2>3 DEF Counted
  <2>4. QED
    BY <2>2, <2>3
<1>5. ASSUME NEW d, d = DayOf(minute) \/ \E n \in DOMAIN quota : DayOf(quota[n].minute) = d
      PROVE  DayUsed(d)' <= DayLimit
  <2>1. DayUsed(d) \in Nat /\ DayUsed(d)' = DayUsed(d) + IF DayOf(e.minute) = d THEN 1 ELSE 0
    BY CountsAfter
  <2>2. CASE d = DayOf(minute)
    BY <1>3, <2>1, <2>2
  <2>3. CASE d # DayOf(minute)
    BY <1>5, <2>1, <2>3 DEF Counted
  <2>4. QED
    BY <2>2, <2>3
<1>6. ASSUME NEW n \in DOMAIN quota'
      PROVE  /\ Cardinality({k \in DOMAIN quota' : quota'[k].minute = quota'[n].minute}) <= MinuteLimit
             /\ Cardinality({k \in DOMAIN quota' :
                    DayOf(quota'[k].minute) = DayOf(quota'[n].minute)}) <= DayLimit
  <2>1. PICK t, d : t = quota'[n].minute /\ d = DayOf(quota'[n].minute)
    OBVIOUS
  <2>2. /\ t = minute \/ \E k \in DOMAIN quota : quota[k].minute = t
        /\ d = DayOf(minute) \/ \E k \in DOMAIN quota : DayOf(quota[k].minute) = d
    BY <1>1, <2>1
  <2>3. MinuteUsed(t)' <= MinuteLimit /\ DayUsed(d)' <= DayLimit
    BY <1>4, <1>5, <2>2
  <2>4. QED
    BY <2>1, <2>3 DEF MinuteUsed, DayUsed, DayOf
<1>7. QED
  BY <1>2, <1>6 DEF Counted, MinuteUsed, DayUsed, DayOf, Key

LEMMA ReserveAcquires ==
    ASSUME Acquiring, NEW p \in Procs, Reserve(p)
    PROVE  FilesInv' /\ ConductInv'
<1>1. CASE ~QuotaValid
  BY <1>1, RaiseRests DEF Reserve
<1>2. CASE QuotaValid /\ ~QuotaLeft
  <2>1. pc[p] = "loop" /\ Moved(p, "close", [job[p] EXCEPT !.pause = TRUE])
        /\ UNCHANGED <<files, sent>>
    BY <1>2 DEF Reserve, At, Moved, Goto, Update
  <2>2. QED
    BY <2>1, LoopEnds
<1>3. CASE QuotaValid /\ QuotaLeft
  <2>1. PICK w \in NextWindow(p) :
            /\ quota' = Append(quota, [manifest |-> job[p].manifest, window |-> w, minute |-> minute])
            /\ Update(p, [job[p] EXCEPT !.window = w])
    BY <1>3 DEF Reserve
  <2> DEFINE i == job[p]
             j == [i EXCEPT !.window = w]
             e == [manifest |-> i.manifest, window |-> w, minute |-> minute]
  <2>2. /\ pc[p] = "loop" /\ Moved(p, "reserved", j) /\ quota' = Append(quota, e)
        /\ UNCHANGED <<checkpoints, register, quarantine, ledger, reports, sent>>
    BY <1>3, <2>1 DEF Reserve, At, Moved, Goto, Update
  <2>3. /\ Conduct(register, quarantine, checkpoints, ledger, quota, sent, "loop", i)
        /\ i.orphans = {} /\ Unresolved(p) = {} /\ i \in JobType
        /\ i.manifest \in Manifests /\ i.outcomes \in [Window -> Outcome]
    BY <2>2, AtWork DEF NothingAmbiguous, InLoop
  <2>4. /\ w \in Window /\ i.outcomes[w] = "pending"
        /\ \A v \in Window : i.outcomes[v] = "pending" => w <= v
    BY DEF NextWindow, Pending, With
  <2>5. /\ j.manifest = i.manifest /\ j.window = w /\ j.outcomes = i.outcomes
        /\ j.orphans = {} /\ j.observation = i.observation /\ j.asked = i.asked
    BY <2>3 DEF JobType
  <2>6. e \in Reservations /\ Key(e) = <<i.manifest, w>> /\ e.minute = minute
    BY <2>3, <2>4, AtWork DEF Reservations, Key, TypeOK
  <2> HIDE DEF i, j, e
  <2>7. KeyOf(j) = Key(e) /\ ~HasKey(quota, Key(e))
    BY <2>3, <2>4, <2>5, <2>6, ReservedIsBooked DEF Unresolved, Pending, With, KeyOf, i
  <2>8. /\ Longer(quota, quota') /\ Len(quota') = Len(quota) + 1
        /\ DOMAIN quota' = DOMAIN quota \cup {Len(quota) + 1} /\ quota'[Len(quota) + 1] = e
    BY <2>2, <2>6, AtWork, FilesAre, LongerByOne
  <2>9. Longer(register, register) /\ Longer(quarantine, quarantine) /\ Longer(sent, sent)
    BY AtWork, FilesAre DEF Longer
  <2>10. Vouched(register, quarantine, checkpoints, ledger, quota')
    BY <2>8, <2>9, AtWork, VouchedLines
  <2>11. Noted(ledger, quota', sent)
    BY <2>8, <2>9, AtWork, NotedStays
  <2>12. Counted'
    BY <1>3, <2>2, <2>6, <2>7, AtWork, StillCounted
  <2>13. FilesInv'
    BY <2>2, <2>10, <2>11, <2>12, AtWork DEF FilesInv
  <2>14. \A v \in Window : RemembersAt(checkpoints, i, v) <=> RemembersAt(checkpoints, j, v)
    BY <2>5 DEF RemembersAt
  <2>15. /\ Duty(register, quarantine, ledger, "reserved", j)
         /\ Recall(checkpoints, ledger, "reserved", j)
    BY <2>3, <2>14 DEF Conduct, Duty, Recall, Recalling, Working, InLoop, Judged
  <2>16. Front("reserved", j)
    <3>1. \A v \in Window : i.outcomes[v] # "QUARANTINED" /\ i.outcomes[v] \in Outcome
      BY <2>3 DEF Conduct, Front
    <3>2. ASSUME NEW v \in 1..(w - 1) PROVE i.outcomes[v] = "COMPLETED"
      <4>1. v \in Window /\ ~(w <= v)
        BY <2>4, <3>2, HistoryAssumption DEF Window
      <4>2. QED
        BY <2>4, <3>1, <4>1 DEF Outcome
    <3>3. QED
      BY <2>4, <2>5, <3>1, <3>2 DEF Front
  <2>17. Wire(sent, "reserved", j)
    <3>1. ASSUME j.observation.sent # 0
          PROVE  /\ j.observation.sent \in DOMAIN sent /\ j.observation.sent \in j.asked
                 /\ sent[j.observation.sent].manifest = j.manifest
                 /\ sent[j.observation.sent].window <= j.window
      <4>1. /\ i.observation.sent \in DOMAIN sent /\ sent[i.observation.sent].manifest = i.manifest
            /\ i.observation.sent \in i.asked
            /\ \A v \in Window : v <= sent[i.observation.sent].window => i.outcomes[v] # "pending"
        BY <2>3, <2>5, <3>1 DEF Conduct, Wire
      <4>2. sent[i.observation.sent].window \in Int /\ w \in Int
        <5>1. sent[i.observation.sent] \in Reservations
          BY <4>1, AtWork, FilesAre
        <5>2. QED
          BY <2>4, <5>1 DEF Reservations, Window
      <4>3. QED
        BY <2>4, <2>5, <4>1, <4>2
    <3>2. QED
      BY <2>5, <3>1 DEF Wire, Judged
  <2>18. Booked(quota', ledger, "reserved", j)
    <3>1. HasKey(quota', KeyOf(j))
      BY <2>7, <2>8 DEF HasKey
    <3>2. \A n \in DOMAIN quota : Once(ledger, Reservation, n)
      BY <1>3, Readings DEF QuotaValid, Reconciled, Reservation
    <3>3. \A n \in DOMAIN quota' \ {Len(quota')} : Once(ledger, Reservation, n)
      BY <2>8, <3>2
    <3>4. QED
      BY <2>5, <3>1, <3>3 DEF Booked
  <2>19. Noting(ledger, "reserved", j)
    BY <2>7, AtWork DEF Noting, Noted
  <2>20. Conduct(register', quarantine', checkpoints', ledger', quota', sent', "reserved", j)
    BY <2>2, <2>15, <2>16, <2>17, <2>18, <2>19 DEF Conduct
  <2>21. QED
    BY <2>2, <2>13, <2>20, ConductOfStep DEF Unlocked
<1>4. QED
  BY <1>1, <1>2, <1>3

(***************************************************************************)
(* The invariant.                                                          *)
(***************************************************************************)

LEMMA InitAcquires == Init => FilesInv /\ ConductInv
<1> SUFFICES ASSUME Init PROVE FilesInv /\ ConductInv
  OBVIOUS
<1>1. /\ DOMAIN quota = {} /\ DOMAIN checkpoints = {} /\ DOMAIN ledger = {} /\ DOMAIN reports = {}
  BY DEF Init
<1>2. FilesInv
  BY <1>1 DEF FilesInv, Vouched, RefsIn, Noted, Counted, Reported
<1>3. "idle" \in Unlocked \cup {"open"} /\ \A p \in Procs : pc[p] = "idle" /\ job[p] = NoJob
  BY DEF Init, Unlocked
<1>4. ConductInv
  BY <1>3, NoJobRests, Resting DEF ConductInv
<1>5. QED
  BY <1>2, <1>4

LEMMA StepAcquires == Acquiring /\ [Next]_vars => FilesInv' /\ ConductInv'
<1> SUFFICES ASSUME Acquiring, [Next]_vars PROVE FilesInv' /\ ConductInv'
  OBVIOUS
<1>1. ASSUME NEW p \in Procs, Step(p) PROVE FilesInv' /\ ConductInv'
  BY <1>1, TakeLockAcquires, OpenAcquires, TakeOrphanAcquires, ReserveAcquires,
     LinkReservationAcquires, EndLoopAcquires, RequestFails, TransmitAcquires, RespondAcquires,
     RegisterAcquires, LinkRecordAcquires, IngestAcquires, RejectAcquires,
     LinkRejectionAcquires, ObserveAcquires, CheckpointAcquires, LinkCheckpointAcquires,
     CloseAcquires DEF Step
<1>2. ASSUME Tick \/ UNCHANGED vars PROVE FilesInv' /\ ConductInv'
  <2>1. UNCHANGED <<files, sent>> /\ pc' = pc /\ job' = job
    BY <1>2 DEF Tick, vars
  <2>2. QED
    BY <2>1, RestStep
<1>3. QED
  BY <1>1, <1>2, StartAcquires, CrashAcquires DEF Next

LEMMA AcquiringInvariant == Spec => []Acquiring
<1>1. Typed /\ Safe /\ FilesInv /\ ConductInv /\ [Next]_vars => FilesInv' /\ ConductInv'
  BY StepAcquires DEF Acquiring
<1>2. QED
  BY InitAcquires, SafetyInvariant, <1>1, PTL DEF Spec, Acquiring

(***************************************************************************)
(* What the files hold.                                                    *)
(***************************************************************************)

(* A COMPLETED checkpoint names a registered Dataset of its own request    *)
(* with both its events, a QUARANTINED one a linked line of the quarantine *)
(* register, whatever crashed before it (history.py 507-559).              *)
THEOREM CheckpointsAreGrounded == Spec => []CheckpointsGrounded
<1>1. Acquiring => CheckpointsGrounded
  BY Readings DEF Acquiring, FilesInv, Vouched, Grounded, CheckpointsGrounded, Rec, Ing, Quar
<1>2. QED
  BY AcquiringInvariant, <1>1, PTL

(* A completeness report is true of the checkpoint prefix it quotes, claims *)
(* readiness only for a complete full-scope manifest, and never says       *)
(* IN_PROGRESS (history.py 745-812, 1034-1072).                            *)
THEOREM ReportsAreHonest == Spec => []ReportsHonest
<1>1. Acquiring => ReportsHonest
  BY DEF Acquiring, FilesInv, Reported, Honest, DoneIn, ReportsHonest
<1>2. QED
  BY AcquiringInvariant, <1>1, PTL

(***************************************************************************)
(* What a step may do.                                                     *)
(***************************************************************************)

LEMMA UniqueMeans == ASSUME NEW F PROVE UniqueKeys(F) <=> \A a, b \in DOMAIN F : Key(F[a]) = Key(F[b]) => a = b
BY DEF UniqueKeys, Key

LEMMA ReadyToSend ==
    ASSUME Acquiring, NEW p \in Procs, pc[p] = "send"
    PROVE  /\ CheckpointsValid /\ QuotaValid
           /\ \A v \in 1..(job[p].window - 1) : OutcomeOf(job[p].manifest, v) = "COMPLETED"
           /\ OutcomeOf(job[p].manifest, job[p].window) = "pending"
           /\ HasKey(quota, KeyOf(job[p]))
<1>1. /\ Conduct(register, quarantine, checkpoints, ledger, quota, sent, "send", job[p])
      /\ job[p].orphans = {} /\ job[p].window \in Window
      /\ Vouched(register, quarantine, checkpoints, ledger, quota)
      /\ Counted /\ LinkedReservationsExist
  BY AtWork DEF NothingAmbiguous, InLoop, Discipline
<1>2. "send" \in Working /\ "send" \in Recalling /\ "send" \notin {"checkpointed", "close"}
  BY DEF Working, InLoop, Recalling
<1>3. CheckpointsValid
  <2>1. \A n \in DOMAIN checkpoints : LinkedOnce(Cp, n)
    BY <1>1, <1>2, Readings DEF Conduct, Recall
  <2>2. UniqueKeys(checkpoints) /\ RefsIn(ledger, Cp, checkpoints)
    BY <1>1, UniqueMeans DEF Vouched
  <2>3. QED
    BY <2>1, <2>2 DEF CheckpointsValid, Reconciled, RefsIn, Cp
<1>4. QuotaValid
  <2>1. \A n \in DOMAIN quota : LinkedOnce(Reservation, n)
    BY <1>1, Readings DEF Conduct, Booked
  <2>2. UniqueKeys(quota)
    BY <1>1, UniqueMeans DEF Counted
  <2>3. QED
    BY <1>1, <2>1, <2>2 DEF QuotaValid, Reconciled, Reservation, Counted, LinkedReservationsExist
<1>5. \A w \in Window : job[p].outcomes[w] = OutcomeOf(job[p].manifest, w)
  BY <1>1, <1>2, RemembersOutcome DEF Conduct, Recall
<1>6. \A v \in 1..(job[p].window - 1) : v \in Window
  BY <1>1, HistoryAssumption DEF Window
<1>7. QED
  BY <1>1, <1>2, <1>3, <1>4, <1>5, <1>6 DEF Conduct, Front, Booked

(* Requests leave in manifest order, behind COMPLETED windows only, and    *)
(* never while a control file and the ledger disagree (history.py 890-962). *)
THEOREM RequestsAtTheFrontier == Spec => FrontierOnly
<1> DEFINE Latched == sent' # sent =>
              LET k == sent'[Len(sent')]
              IN  /\ \A w \in 1..(k.window - 1) : OutcomeOf(k.manifest, w) = "COMPLETED"
                  /\ CheckpointsValid /\ QuotaValid
<1>1. Acquiring /\ [Next]_vars => Latched
  <2> SUFFICES ASSUME Acquiring, [Next]_vars PROVE Latched
    OBVIOUS
  <2>1. ASSUME NEW p \in Procs, Transmit(p) PROVE Latched
    <3>1. PICK e \in Reservations : /\ e.manifest = job[p].manifest /\ e.window = job[p].window
                                    /\ sent' = Append(sent, e)
      BY <2>1, AtWork DEF Transmit, Reservations, TypeOK
    <3>2. sent'[Len(sent')] = e
      BY <3>1, AtWork, FilesAre, LongerByOne
    <3>3. pc[p] = "send"
      BY <2>1 DEF Transmit, At
    <3>4. QED
      BY <3>1, <3>2, <3>3, ReadyToSend
  <2>2. QED
    BY <2>1, SentUnchanged
<1>2. Spec => [][Latched]_vars
  BY AcquiringInvariant, <1>1, PTL DEF Spec
<1>3. QED
  BY <1>2 DEF FrontierOnly

(* Only the process that moves writes, and only Observe writes Obs.         *)
LEMMA WhoObserves ==
    ASSUME Acquiring, [Next]_vars, ledger' # ledger, ledger'[Len(ledger')].type = Obs,
           NEW p \in Procs, pc'[p] # pc[p]
    PROVE  /\ pc[p] = "observe" /\ job[p].observation.sent # 0
           /\ ledger'[Len(ledger')] = Event(Obs, job[p].manifest, job[p].window,
                                           job[p].observation.sent)
<1>1. /\ ledger \in Seq(Events) /\ Len(quota) \in Nat /\ Len(checkpoints) \in Nat
      /\ Len(register) \in Nat /\ Len(quarantine) \in Nat /\ Len(reports) + 1 \in Nat
      /\ pc \in [Procs -> Labels]
  BY FilesAre DEF Acquiring, Safe
<1>2. ASSUME NEW q \in Procs, NEW type \in EventType, NEW n \in Nat, Log(q, type, n)
      PROVE  ledger'[Len(ledger')] = Event(type, job[q].manifest, job[q].window, n)
             /\ ledger'[Len(ledger')].type = type
  <2>1. Event(type, job[q].manifest, job[q].window, n) \in Events
    BY AtWork DEF Event, Events
  <2>2. ledger'[Len(ledger')] = Event(type, job[q].manifest, job[q].window, n)
    BY <1>1, <1>2, <2>1, LongerByOne DEF Log
  <2>3. QED
    BY <2>2 DEF Event
<1>3. PICK q \in Procs : \/ LinkReservation(q) \/ LinkRecord(q) \/ Ingest(q) \/ LinkRejection(q)
                         \/ LinkCheckpoint(q) \/ Close(q) \/ Observe(q)
  BY DEF Next, Step, vars, files, Start, TakeLock, Open, TakeOrphan, Reserve, EndLoop,
         FetchRefused, Transmit, TransportFails, Respond, Register, Reject, Checkpoint, Crash,
         Tick, Raise
<1>4. Observe(q)
  <2>1. /\ EventType \ {Obs} = {Reservation, Rec, Ing, Quar, Cp, Rep}
        /\ Reservation \in EventType /\ Rec \in EventType /\ Ing \in EventType
        /\ Quar \in EventType /\ Cp \in EventType /\ Rep \in EventType
    BY DEF EventType, Reservation, Rec, Ing, Quar, Cp, Rep, Obs
  <2>2. ASSUME NEW type \in EventType \ {Obs}, NEW n \in Nat, Log(q, type, n) PROVE FALSE
    BY <1>2, <2>2
  <2>3. CASE LinkReservation(q) \/ LinkRecord(q) \/ Ingest(q)
    BY <1>1, <2>1, <2>2, <2>3 DEF LinkReservation, LinkRecord, Ingest, Reservation, Rec, Ing
  <2>4. CASE LinkRejection(q) \/ LinkCheckpoint(q)
    BY <1>1, <2>1, <2>2, <2>4 DEF LinkRejection, LinkCheckpoint, Quar, Cp
  <2>5. CASE Close(q)
    <3>1. Log(q, Rep, Len(reports) + 1)
      BY <2>5 DEF Close, Log, Raise, files, Rep
    <3>2. QED
      BY <1>1, <2>1, <2>2, <3>1
  <2>6. QED
    BY <1>3, <2>3, <2>4, <2>5
<1>5. /\ pc[q] = "observe" /\ q = p
      /\ job[q].observation.sent # 0 /\ Log(q, Obs, job[q].observation.sent)
  BY <1>1, <1>4 DEF Observe, LastObserved, At, Goto, Obs
<1>6. QED
  BY <1>2, <1>5, AtWork DEF EventType, Obs

(* A process logs the credit observation of a request it has sent itself   *)
(* since it was started, for this window or an earlier one (history.py     *)
(* 1020-1031).                                                             *)
THEOREM ObservationsAreOwn == Spec => ObservationOfThisRun
<1> DEFINE Own == \A p \in Procs : ledger' # ledger /\ pc'[p] # pc[p] =>
              LET e == ledger'[Len(ledger')]
              IN  e.type = "market_data_quota_observed" =>
                      /\ e.ref \in job[p].asked
                      /\ sent[e.ref].manifest = e.manifest /\ sent[e.ref].window <= e.window
<1>1. Acquiring /\ [Next]_vars => Own
  <2> SUFFICES ASSUME Acquiring, [Next]_vars, NEW p \in Procs, ledger' # ledger, pc'[p] # pc[p],
                      ledger'[Len(ledger')].type = Obs
               PROVE  LET e == ledger'[Len(ledger')]
                      IN  /\ e.ref \in job[p].asked
                          /\ sent[e.ref].manifest = e.manifest /\ sent[e.ref].window <= e.window
    BY DEF Obs
  <2>1. /\ pc[p] = "observe" /\ job[p].observation.sent # 0
        /\ ledger'[Len(ledger')] = Event(Obs, job[p].manifest, job[p].window,
                                        job[p].observation.sent)
    BY WhoObserves
  <2>2. Wire(sent, "observe", job[p]) /\ "observe" \in Working
    BY <2>1, AtWork DEF Conduct, Working, InLoop
  <2>3. QED
    BY <2>1, <2>2 DEF Wire, Event
<1>2. Spec => [][Own]_vars
  BY AcquiringInvariant, <1>1, PTL DEF Spec
<1>3. QED
  BY <1>2 DEF ObservationOfThisRun

LEMMA WhoReports ==
    ASSUME [Next]_vars, reports' # reports
    PROVE  \E p \in Procs : /\ Close(p) /\ CheckpointsValid /\ QuotaValid
                            /\ reports' = Append(reports, ReportOf(p))
<1>1. PICK p \in Procs : Close(p)
  BY DEF Next, Step, vars, files, Start, TakeLock, Open, TakeOrphan, Reserve, LinkReservation,
         EndLoop, FetchRefused, Transmit, TransportFails, Respond, Register, LinkRecord, Ingest,
         Reject, LinkRejection, Observe, Checkpoint, LinkCheckpoint, Crash, Tick, Raise
<1>2. QED
  BY <1>1 DEF Close, Raise, files

(* What the closing process knows of its manifest. *)
LEMMA AtTheClose ==
    ASSUME Acquiring, NEW p \in Procs, pc[p] = "close"
    PROVE  /\ \A w \in Window : job[p].outcomes[w] = OutcomeOf(job[p].manifest, w)
           /\ Reserved(job[p].manifest) = Window \ Terminal(job[p].manifest, "pending")
           /\ ObservationsValid(job[p].manifest)
<1> DEFINE m == job[p].manifest
           o == job[p].outcomes
<1>1. /\ Conduct(register, quarantine, checkpoints, ledger, quota, sent, "close", job[p])
      /\ Vouched(register, quarantine, checkpoints, ledger, quota) /\ Noted(ledger, quota, sent)
      /\ TypeOK
  BY AtWork
<1>2. \A w \in Window : RemembersAt(checkpoints, job[p], w) /\ o[w] = OutcomeOf(m, w)
  BY <1>1, RemembersOutcome DEF Conduct, Recall
<1>3. ASSUME NEW w \in Window
      PROVE  HasKey(quota, <<m, w>>) <=> OutcomeOf(m, w) # "pending"
  <2>1. HasKey(quota, <<m, w>>) => OutcomeOf(m, w) # "pending"
    BY <1>1, <1>2 DEF Conduct, Booked
  <2>2. ASSUME OutcomeOf(m, w) # "pending" PROVE HasKey(quota, <<m, w>>)
    <3>1. PICK n \in DOMAIN checkpoints : Key(checkpoints[n]) = <<m, w>>
      BY <1>2, <2>2 DEF RemembersAt
    <3>2. QED
      BY <1>1, <3>1 DEF Vouched
  <2>3. QED
    BY <2>1, <2>2
<1>4. Reserved(m) = Window \ Terminal(m, "pending")
  BY <1>1, <1>3, ReservedIsBooked, ReservedTyped DEF Terminal
<1>5. ObservationsValid(m)
  <2>1. ASSUME NEW k \in DOMAIN ledger, ledger[k].type = Obs, ledger[k].manifest = m
        PROVE  OutcomeOf(m, ledger[k].window) # "pending"
    <3>1. ledger[k] \in Events
      BY <1>1, FilesAre
    <3>2. ledger[k].window \in Window /\ HasKey(quota, <<m, ledger[k].window>>)
      BY <1>1, <2>1, <3>1 DEF Events, Noted, Key
    <3>3. QED
      BY <1>3, <3>2
  <2>2. \A k, l \in DOMAIN ledger : ledger[k].type = Obs /\ ledger[l].type = Obs
            /\ ledger[k].manifest = m /\ ledger[l].manifest = m
            /\ ledger[k].window = ledger[l].window => k = l
    BY <1>1 DEF Noted, Key
  <2>3. QED
    BY <2>1, <2>2 DEF ObservationsValid, Obs
<1>6. QED
  BY <1>2, <1>4, <1>5

LEMMA CloseAccepted ==
    ASSUME Acquiring, [Next]_vars, reports' # reports
    PROVE  LastReportAccepted'
<1>1. PICK p \in Procs : /\ Close(p) /\ CheckpointsValid /\ QuotaValid
                         /\ reports' = Append(reports, ReportOf(p))
  BY WhoReports
<1>m. PICK m, r : m = job[p].manifest /\ r = ReportOf(p)
  OBVIOUS
<1> DEFINE e == Event(Rep, job[p].manifest, job[p].window, Len(reports) + 1)
<1>2. /\ pc[p] = "close" /\ ledger' = Append(ledger, e)
      /\ UNCHANGED <<quota, checkpoints, register, quarantine, sent>>
  <2>1. reports # Append(reports, ReportOf(p))
    BY <1>1
  <2>2. ~Raise(p)
    BY <1>1, <2>1 DEF Raise, files
  <2>3. QED
    BY <1>1, <2>2 DEF Close, At, Rep
<1>3. /\ e \in Events /\ e.type = Rep /\ ledger \in Seq(Events) /\ reports \in Seq(Reports)
      /\ Len(reports) \in Nat
  BY AtWork, FilesAre DEF Event, Events, EventType, Rep
<1> HIDE DEF e
<1>4. /\ \A type, n : type # Rep => LinkSet(ledger', type, n) = LinkSet(ledger, type, n)
      /\ \A k \in DOMAIN ledger' : ledger'[k].type # Rep => k \in DOMAIN ledger /\ ledger'[k] = ledger[k]
      /\ \A k \in DOMAIN ledger : k \in DOMAIN ledger' /\ ledger'[k] = ledger[k]
  BY <1>2, <1>3, EventEffect, LongerByOne DEF Longer
<1>5. \A type, n : type # Rep => (LinkedOnce(type, n)' <=> LinkedOnce(type, n))
  <2>1. \A type, n : LinksTo(type, n)' = LinkSet(ledger', type, n)
    BY DEF LinksTo, LinkSet
  <2>2. \A type, n : type # Rep => LinksTo(type, n)' = LinksTo(type, n)
    BY <1>4, <2>1, Readings
  <2>3. \A type, n, k : LinksTo(type, n) = {k} => k \in DOMAIN ledger
    BY DEF LinksTo
  <2>4. QED
    BY <1>4, <2>2, <2>3 DEF LinkedOnce
<1>6. CheckpointsValid' /\ QuotaValid'
  <2>1. CheckpointsValid'
    BY <1>1, <1>2, <1>4, <1>5 DEF CheckpointsValid, Reconciled, UniqueKeys, Rep
  <2>2. Reconciled(quota, "market_data_quota_reserved")'
    BY <1>1, <1>2, <1>4, <1>5 DEF QuotaValid, Reconciled, Rep
  <2>3. QED
    BY <1>1, <1>2, <2>1, <2>2 DEF QuotaValid, UniqueKeys, MinuteUsed, DayUsed, DayOf
<1>7. \A x, w : OutcomeOf(x, w)' = OutcomeOf(x, w)
  BY <1>2 DEF OutcomeOf
<1>8. Reserved(m)' = Reserved(m) /\ Terminal(m, "pending")' = Terminal(m, "pending")
  BY <1>2, <1>7 DEF Reserved, Terminal
<1>9. /\ \A w \in Window : job[p].outcomes[w] = OutcomeOf(m, w)
      /\ Reserved(m) = Window \ Terminal(m, "pending") /\ ObservationsValid(m)
  BY <1>2, <1>m, AtTheClose
<1>10. /\ r.manifest = m /\ r.checkpoint = Len(checkpoints) /\ r.quota = Len(quota)
       /\ r.outcomes = job[p].outcomes /\ r \in Reports
  BY <1>2, <1>m, ReportIsHonest DEF ReportOf, TerminalHash
<1>11. ObservationsValid(m)'
  <2>1. ASSUME NEW k \in DOMAIN ledger', ledger'[k].type = Obs, ledger'[k].manifest = m
        PROVE  /\ k \in DOMAIN ledger /\ ledger'[k] = ledger[k]
               /\ OutcomeIn(checkpoints', m, ledger'[k].window) # "pending"
    <3>1. k \in DOMAIN ledger /\ ledger'[k] = ledger[k]
      BY <1>4, <2>1 DEF Obs, Rep
    <3>2. OutcomeIn(checkpoints, m, ledger[k].window) # "pending"
      BY <1>9, <2>1, <3>1 DEF ObservationsValid, Obs, OutcomeOf, OutcomeIn
    <3>3. QED
      BY <1>2, <3>1, <3>2
  <2>2. \A k, l \in DOMAIN ledger' : ledger'[k].type = Obs /\ ledger'[l].type = Obs
            /\ ledger'[k].manifest = m /\ ledger'[l].manifest = m
            /\ ledger'[k].window = ledger'[l].window => k = l
    BY <1>9, <2>1 DEF ObservationsValid, Obs
  <2>3. QED
    BY <2>1, <2>2 DEF ObservationsValid, Obs, OutcomeOf, OutcomeIn
<1>12. /\ DOMAIN reports' = 1..(Len(reports) + 1) /\ Len(reports') = Len(reports) + 1
       /\ reports'[Len(reports) + 1] = r
  BY <1>1, <1>3, <1>m, <1>10, LongerByOne
<1>13. Latest(m)' = Len(reports) + 1
  <2> DEFINE Last(i) == /\ reports'[i].manifest = m
                        /\ \A k \in DOMAIN reports' : reports'[k].manifest = m => k <= i
  <2>1. Len(reports) + 1 \in DOMAIN reports' /\ Last(Len(reports) + 1)
    BY <1>3, <1>10, <1>12
  <2>2. \A i \in DOMAIN reports' : Last(i) => i = Len(reports) + 1
    BY <1>3, <1>10, <1>12
  <2>3. (CHOOSE i \in DOMAIN reports' : Last(i)) = Len(reports) + 1
    BY <2>1, <2>2
  <2>4. QED
    BY <2>3 DEF Latest
<1>14. \A status \in Outcome : With(r.outcomes, status) = Terminal(m, status)'
  BY <1>7, <1>9, <1>10 DEF With, Terminal
<1>15. MarketStateValid' => HistoryValid(m)'
  BY <1>2, <1>6, <1>8, <1>9, <1>10, <1>11, <1>12, <1>13, <1>14 DEF HistoryValid
<1>16. reports'[Len(reports')].manifest = m
  BY <1>10, <1>12
<1>17. QED
  BY <1>15, <1>16 DEF LastReportAccepted

(* validate-market-history accepts what an invocation leaves when it        *)
(* reports, whatever died before it, as long as the Dataset and quarantine *)
(* registers are reconciled (history.py 1075-1181).                        *)
THEOREM ReportsAreAccepted == Spec => ReportsValidate
<1>1. Acquiring /\ [Next]_vars => (reports' # reports => LastReportAccepted')
  BY CloseAccepted
<1>2. Spec => [][reports' # reports => LastReportAccepted']_vars
  BY AcquiringInvariant, <1>1, PTL DEF Spec
<1>3. QED
  BY <1>2 DEF ReportsValidate

(***************************************************************************)
(* The life cycle of a window.                                             *)
(***************************************************************************)

StageIn(C, B, m, w) ==
    IF OutcomeIn(C, m, w) # "pending" THEN OutcomeIn(C, m, w)
    ELSE IF HasKey(B, <<m, w>>) THEN "reserved" ELSE "planned"

StageMap(C, B) == [m \in Manifests |-> [w \in Window |-> StageIn(C, B, m, w)]]
SentFor(S, m, w) == Cardinality({s \in DOMAIN S : Key(S[s]) = <<m, w>>})
SentMap(S)       == [m \in Manifests |-> [w \in Window |-> SentFor(S, m, w)]]

(* The four steps, for stages g, h and counts s, t before and after. *)
LifeStep(g, h, s, t, m, w) ==
    \/ /\ g[m][w] = "planned" /\ \A v \in 1..(w - 1) : g[m][v] = "COMPLETED"
       /\ h = [g EXCEPT ![m][w] = "reserved"] /\ t = s
    \/ /\ g[m][w] = "reserved" /\ s[m][w] = 0 /\ t = [s EXCEPT ![m][w] = 1] /\ h = g
    \/ /\ g[m][w] = "reserved" /\ s[m][w] = 1
       /\ h = [g EXCEPT ![m][w] = "COMPLETED"] /\ t = s
    \/ /\ g[m][w] = "reserved" /\ h = [g EXCEPT ![m][w] = "QUARANTINED"] /\ t = s

LEMMA Mapped ==
    /\ [m \in Manifests |-> [w \in Window |-> StageOf(m, w)]] = StageMap(checkpoints, quota)
    /\ [m \in Manifests |-> [w \in Window |->
            Cardinality({s \in DOMAIN sent : Key(sent[s]) = <<m, w>>})]] = SentMap(sent)
<1>1. \A m, w : StageOf(m, w) = StageIn(checkpoints, quota, m, w)
  BY ReservedIsBooked DEF StageOf, StageIn, OutcomeOf, OutcomeIn
<1>2. QED
  BY <1>1 DEF StageMap, SentMap, SentFor

LEMMA MappedNext ==
    /\ [m \in Manifests |-> [w \in Window |-> StageOf(m, w)]]' = StageMap(checkpoints', quota')
    /\ [m \in Manifests |-> [w \in Window |->
            Cardinality({s \in DOMAIN sent : Key(sent[s]) = <<m, w>>})]]' = SentMap(sent')
<1>1. \A m, w : w \in Reserved(m)' <=> HasKey(quota', <<m, w>>)
  BY DEF Reserved, HasKey, Key
<1>2. \A m, w : StageOf(m, w)' = StageIn(checkpoints', quota', m, w)
  BY <1>1 DEF StageOf, StageIn, OutcomeOf, OutcomeIn
<1>3. QED
  BY <1>2 DEF StageMap, SentMap, SentFor, Key

LEMMA InitMaps == Init => Lifecycle!Init
<1> SUFFICES ASSUME Init PROVE Lifecycle!Init
  OBVIOUS
<1>1. DOMAIN quota = {} /\ DOMAIN checkpoints = {} /\ DOMAIN sent = {}
  BY DEF Init
<1>2. \A m, w : StageOf(m, w) = "planned"
  BY <1>1 DEF StageOf, OutcomeOf, Reserved
<1>3. \A m, w : Cardinality({s \in DOMAIN sent : Key(sent[s]) = <<m, w>>}) = 0
  BY <1>1, FS_EmptySet
<1>4. QED
  BY <1>2, <1>3 DEF Lifecycle!Init, Lifecycle!Window, Window

LEMMA LifeStepMaps ==
    ASSUME NEW m \in Manifests, NEW w \in Window,
           LifeStep(StageMap(checkpoints, quota), StageMap(checkpoints', quota'),
                    SentMap(sent), SentMap(sent'), m, w)
    PROVE  Lifecycle!Next
<1> PICK g, h, s, t : /\ g = StageMap(checkpoints, quota) /\ h = StageMap(checkpoints', quota')
                      /\ s = SentMap(sent) /\ t = SentMap(sent')
  OBVIOUS
<1>1. /\ [x \in Manifests |-> [y \in Window |-> StageOf(x, y)]] = g
      /\ [x \in Manifests |-> [y \in Window |-> StageOf(x, y)]]' = h
      /\ [x \in Manifests |-> [y \in Window |->
            Cardinality({i \in DOMAIN sent : Key(sent[i]) = <<x, y>>})]] = s
      /\ [x \in Manifests |-> [y \in Window |->
            Cardinality({i \in DOMAIN sent : Key(sent[i]) = <<x, y>>})]]' = t
  BY Mapped, MappedNext
<1>2. LifeStep(g, h, s, t, m, w)
  OBVIOUS
<1>3. Lifecycle!Reserve(m, w) \/ Lifecycle!Request(m, w) \/ Lifecycle!Complete(m, w)
          \/ Lifecycle!Quarantine(m, w)
  BY <1>1, <1>2 DEF LifeStep, Lifecycle!Reserve, Lifecycle!Request, Lifecycle!Complete,
                    Lifecycle!Quarantine, Lifecycle!Move
<1>4. QED
  BY <1>3 DEF Lifecycle!Next, Lifecycle!Window, Window

LEMMA ReserveLives ==
    ASSUME Acquiring, NEW p \in Procs, Reserve(p), quota' # quota
    PROVE  Lifecycle!Next
<1> DEFINE i == job[p]
<1>1. PICK w \in NextWindow(p) :
          quota' = Append(quota, [manifest |-> i.manifest, window |-> w, minute |-> minute])
  BY DEF Reserve, Raise, files
<1>2. pc[p] = "loop" /\ checkpoints' = checkpoints /\ sent' = sent
  BY DEF Reserve, Raise, files, At
<1>3. /\ Conduct(register, quarantine, checkpoints, ledger, quota, sent, "loop", i)
      /\ Unresolved(p) = {} /\ i.manifest \in Manifests /\ i.outcomes \in [Window -> Outcome]
      /\ Vouched(register, quarantine, checkpoints, ledger, quota)
  BY <1>2, AtWork DEF NothingAmbiguous
<1>4. /\ w \in Window /\ i.outcomes[w] = "pending" /\ ~HasKey(quota, <<i.manifest, w>>)
      /\ \A v \in Window : i.outcomes[v] = "pending" => w <= v
  BY <1>3, ReservedIsBooked DEF NextWindow, Pending, With, Unresolved
<1>5. \A v \in Window : OutcomeIn(checkpoints, i.manifest, v) = i.outcomes[v]
  BY <1>3, RemembersOutcome DEF Conduct, Recall, Recalling, OutcomeOf, OutcomeIn
<1>6. \A v \in 1..(w - 1) : v \in Window /\ i.outcomes[v] = "COMPLETED"
  <2>1. ASSUME NEW v \in 1..(w - 1) PROVE v \in Window /\ i.outcomes[v] = "COMPLETED"
    <3>1. v \in Window /\ ~(w <= v)
      BY <1>4, <2>1, HistoryAssumption DEF Window
    <3>2. i.outcomes[v] # "QUARANTINED" /\ i.outcomes[v] \in Outcome
      BY <1>3, <3>1 DEF Conduct, Front
    <3>3. QED
      BY <1>4, <3>1, <3>2 DEF Outcome
  <2>2. QED
    BY <2>1
<1>7. PICK e \in Reservations : Key(e) = <<i.manifest, w>> /\ quota' = Append(quota, e)
  BY <1>1, <1>3, <1>4, AtWork DEF Reservations, Key, TypeOK
<1> HIDE DEF i
<1>8. \A key : HasKey(quota', key) <=> HasKey(quota, key) \/ key = <<i.manifest, w>>
  <2>1. /\ DOMAIN quota' = DOMAIN quota \cup {Len(quota) + 1}
        /\ quota'[Len(quota) + 1] = e /\ \A n \in DOMAIN quota : quota'[n] = quota[n]
    BY <1>7, AtWork, FilesAre, LongerByOne DEF Longer
  <2>2. QED
    BY <1>7, <2>1 DEF HasKey
<1>9. /\ StageIn(checkpoints', quota', i.manifest, w) = "reserved"
      /\ \A x, y : x # i.manifest \/ y # w =>
             StageIn(checkpoints', quota', x, y) = StageIn(checkpoints, quota, x, y)
  BY <1>2, <1>4, <1>5, <1>8 DEF StageIn
<1>10. StageMap(checkpoints', quota') =
           [StageMap(checkpoints, quota) EXCEPT ![i.manifest][w] = "reserved"]
  <2>1. \A x \in Manifests : StageMap(checkpoints', quota')[x] =
            [StageMap(checkpoints, quota) EXCEPT ![i.manifest][w] = "reserved"][x]
    BY <1>3, <1>4, <1>9 DEF StageMap
  <2>2. QED
    BY <2>1 DEF StageMap
<1>11. /\ StageMap(checkpoints, quota)[i.manifest][w] = "planned"
       /\ \A v \in 1..(w - 1) : StageMap(checkpoints, quota)[i.manifest][v] = "COMPLETED"
  BY <1>3, <1>4, <1>5, <1>6 DEF StageMap, StageIn
<1>12. SentMap(sent') = SentMap(sent)
  BY <1>2
<1>13. QED
  BY <1>3, <1>4, <1>10, <1>11, <1>12, LifeStepMaps DEF LifeStep

(* The request of a window that was not sent before. *)
LEMMA TransmitLives ==
    ASSUME Acquiring, NEW p \in Procs, Transmit(p)
    PROVE  Lifecycle!Next
<1> DEFINE m == job[p].manifest
           w == job[p].window
<1>1. pc[p] = "send" /\ UNCHANGED <<quota, checkpoints>>
  BY DEF Transmit, At, files
<1>2. /\ m \in Manifests /\ w \in Window /\ <<m, w>> \notin KeysOf(sent)
      /\ OutcomeOf(m, w) = "pending" /\ HasKey(quota, <<m, w>>)
  BY <1>1, AtWork, ReadyToSend DEF SentOnceAndAfterLink, CurrentKey, KeyOf
<1>3. StageMap(checkpoints, quota)[m][w] = "reserved"
  BY <1>2 DEF StageMap, StageIn, OutcomeOf, OutcomeIn
<1>4. PICK e : /\ Key(e) = <<m, w>> /\ DOMAIN sent' = DOMAIN sent \cup {Len(sent) + 1}
               /\ Len(sent) + 1 \notin DOMAIN sent
               /\ \A s \in DOMAIN sent : sent'[s] = sent[s]
               /\ sent'[Len(sent) + 1] = e
  BY AtWork, Transmitted DEF CurrentKey
<1> HIDE DEF m, w
<1>5. SentFor(sent, m, w) = 0
  <2>1. {s \in DOMAIN sent : Key(sent[s]) = <<m, w>>} = {}
    BY <1>2 DEF KeysOf
  <2>2. QED
    BY <2>1, FS_EmptySet DEF SentFor
<1>6. SentFor(sent', m, w) = 1
  <2>1. {s \in DOMAIN sent' : Key(sent'[s]) = <<m, w>>} = {Len(sent) + 1}
    BY <1>2, <1>4 DEF KeysOf
  <2>2. QED
    BY <2>1, FS_Singleton DEF SentFor
<1>7. \A x, y : x # m \/ y # w => SentFor(sent', x, y) = SentFor(sent, x, y)
  <2>1. ASSUME NEW x, NEW y, x # m \/ y # w
        PROVE  {s \in DOMAIN sent' : Key(sent'[s]) = <<x, y>>} =
               {s \in DOMAIN sent : Key(sent[s]) = <<x, y>>}
    BY <1>4, <2>1
  <2>2. QED
    BY <2>1 DEF SentFor
<1>8. SentMap(sent') = [SentMap(sent) EXCEPT ![m][w] = 1] /\ SentMap(sent)[m][w] = 0
  <2>1. \A x \in Manifests : SentMap(sent')[x] = [SentMap(sent) EXCEPT ![m][w] = 1][x]
    BY <1>2, <1>6, <1>7 DEF SentMap
  <2>2. SentMap(sent') = [SentMap(sent) EXCEPT ![m][w] = 1]
    BY <2>1 DEF SentMap
  <2>3. QED
    BY <1>2, <1>5, <2>2 DEF SentMap
<1>9. StageMap(checkpoints', quota') = StageMap(checkpoints, quota)
  BY <1>1
<1>10. QED
  BY <1>2, <1>3, <1>8, <1>9, LifeStepMaps DEF LifeStep

LEMMA CheckpointLives ==
    ASSUME Acquiring, NEW p \in Procs, Checkpoint(p), checkpoints' # checkpoints
    PROVE  Lifecycle!Next
<1> DEFINE j == job[p]
           c == CheckpointOf(job[p])
<1>1. /\ pc[p] = "checkpoint" /\ checkpoints' = Append(checkpoints, c) /\ UNCHANGED <<quota, sent>>
      /\ OutcomeOf(j.manifest, j.window) = "pending"
  BY DEF Checkpoint, Raise, files, At, CheckpointOf
<1>2. /\ Conduct(register, quarantine, checkpoints, ledger, quota, sent, "checkpoint", j)
      /\ j.manifest \in Manifests /\ j.window \in Window
      /\ Vouched(register, quarantine, checkpoints, ledger, quota)
  BY <1>1, AtWork
<1>3. c \in Terminals /\ c.manifest = j.manifest /\ c.window = j.window /\ c.status = j.result.status
  BY AtWork DEF CheckpointOf, Terminals
<1>4. /\ HasKey(quota, KeyOf(j)) /\ c.status \in {"COMPLETED", "QUARANTINED"}
      /\ c.status = "COMPLETED" => HasKey(sent, KeyOf(j))
  BY <1>2, <1>3 DEF Conduct, Booked, Wire, Duty, Grounded, Working, Judged
<1>5. Vouched(register', quarantine', checkpoints', ledger', quota')
  BY CheckpointAcquires DEF FilesInv
<1> HIDE DEF c, j
<1>6. /\ DOMAIN checkpoints' = DOMAIN checkpoints \cup {Len(checkpoints) + 1}
      /\ checkpoints'[Len(checkpoints) + 1] = c
      /\ \A n \in DOMAIN checkpoints : checkpoints'[n] = checkpoints[n]
  BY <1>1, <1>3, AtWork, FilesAre, LongerByOne DEF Longer
<1>7. OutcomeIn(checkpoints', j.manifest, j.window) = c.status
  BY <1>3, <1>5, <1>6, OutcomeInIs
<1>8. \A x, y : x # j.manifest \/ y # j.window =>
          OutcomeIn(checkpoints', x, y) = OutcomeIn(checkpoints, x, y)
  <2>1. ASSUME NEW x, NEW y, x # j.manifest \/ y # j.window
        PROVE  OutcomeIn(checkpoints', x, y) = OutcomeIn(checkpoints, x, y)
    <3>1. CASE HasKey(checkpoints, <<x, y>>)
      <4>1. PICK n \in DOMAIN checkpoints : checkpoints[n].manifest = x /\ checkpoints[n].window = y
        BY <3>1 DEF HasKey, Key
      <4>2. n \in DOMAIN checkpoints' /\ checkpoints'[n] = checkpoints[n]
        BY <1>6
      <4>3. QED
        BY <1>2, <1>5, <4>1, <4>2, OutcomeInIs
    <3>2. CASE ~HasKey(checkpoints, <<x, y>>)
      <4>1. ~HasKey(checkpoints', <<x, y>>)
        BY <1>3, <1>6, <2>1, <3>2 DEF HasKey, Key
      <4>2. QED
        BY <1>2, <1>5, <3>2, <4>1, OutcomeInIs
    <3>3. QED
      BY <3>1, <3>2
  <2>2. QED
    BY <2>1
<1>9. StageMap(checkpoints', quota') =
          [StageMap(checkpoints, quota) EXCEPT ![j.manifest][j.window] = c.status]
  <2>1. /\ StageIn(checkpoints', quota', j.manifest, j.window) = c.status
        /\ \A x, y : x # j.manifest \/ y # j.window =>
               StageIn(checkpoints', quota', x, y) = StageIn(checkpoints, quota, x, y)
    BY <1>1, <1>4, <1>7, <1>8 DEF StageIn
  <2>2. \A x \in Manifests : StageMap(checkpoints', quota')[x] =
            [StageMap(checkpoints, quota) EXCEPT ![j.manifest][j.window] = c.status][x]
    BY <1>2, <2>1 DEF StageMap
  <2>3. QED
    BY <2>2 DEF StageMap
<1>10. StageMap(checkpoints, quota)[j.manifest][j.window] = "reserved"
  BY <1>1, <1>2, <1>4 DEF StageMap, StageIn, OutcomeOf, OutcomeIn, KeyOf
<1>11. c.status = "COMPLETED" => SentMap(sent)[j.manifest][j.window] = 1
  <2>1. ASSUME HasKey(sent, KeyOf(j)) PROVE SentFor(sent, j.manifest, j.window) = 1
    <3>1. PICK s \in DOMAIN sent : Key(sent[s]) = <<j.manifest, j.window>>
      BY <2>1 DEF HasKey, KeyOf
    <3>2. \A a, b \in DOMAIN sent : Key(sent[a]) = Key(sent[b]) => a = b
      BY UniqueMeans DEF Acquiring, Safe, AtMostOneTransmission
    <3>3. {a \in DOMAIN sent : Key(sent[a]) = <<j.manifest, j.window>>} = {s}
      BY <3>1, <3>2
    <3>4. QED
      BY <3>3, FS_Singleton DEF SentFor
  <2>2. QED
    BY <1>2, <1>4, <2>1 DEF SentMap
<1>12. SentMap(sent') = SentMap(sent)
  BY <1>1
<1>13. QED
  BY <1>2, <1>4, <1>9, <1>10, <1>11, <1>12, LifeStepMaps DEF LifeStep

(* Every step of the acquisition is a step of the life cycle, or none.     *)
LEMMA StepMaps ==
    ASSUME Acquiring, [Next]_vars
    PROVE  Lifecycle!Next \/ (StageMap(checkpoints', quota') = StageMap(checkpoints, quota)
                              /\ SentMap(sent') = SentMap(sent))
<1> DEFINE Same == UNCHANGED <<quota, checkpoints, sent>>
<1>1. ASSUME NEW p \in Procs, Step(p)
      PROVE  \/ Reserve(p) /\ quota' # quota
             \/ Transmit(p)
             \/ Checkpoint(p) /\ checkpoints' # checkpoints
             \/ Same
  <2>1. TakeLock(p) \/ Open(p) \/ TakeOrphan(p) \/ EndLoop(p) \/ FetchRefused(p)
            \/ TransportFails(p) \/ Respond(p) \/ Close(p) => Same
    BY DEF TakeLock, Open, TakeOrphan, EndLoop, FetchRefused, TransportFails, Respond, Close,
           Raise, files
  <2>2. LinkReservation(p) \/ Register(p) \/ LinkRecord(p) \/ Ingest(p) \/ Reject(p)
            \/ LinkRejection(p) \/ Observe(p) \/ LinkCheckpoint(p) => Same
    BY DEF LinkReservation, Register, LinkRecord, Ingest, Reject, LinkRejection, Observe,
           LinkCheckpoint
  <2>3. (Reserve(p) => UNCHANGED <<checkpoints, sent>>) /\ (Checkpoint(p) => UNCHANGED <<quota, sent>>)
    BY DEF Reserve, Checkpoint, Raise, files
  <2>4. QED
    BY <1>1, <2>1, <2>2, <2>3 DEF Step
<1>2. ASSUME Tick \/ UNCHANGED vars \/ \E p \in Procs : Crash(p)
                 \/ \E m \in Manifests, limit \in 1..RunLimit : Start(p, m, limit)
      PROVE  Same
  BY <1>2 DEF Tick, vars, Crash, Start, files
<1>3. Same => StageMap(checkpoints', quota') = StageMap(checkpoints, quota)
              /\ SentMap(sent') = SentMap(sent)
  OBVIOUS
<1> HIDE DEF Same
<1>4. QED
  BY <1>1, <1>2, <1>3, ReserveLives, TransmitLives, CheckpointLives DEF Next

(* Historical acquisition implements module WindowLifecycle: whatever       *)
(* crashes, restarts or runs beside it, its files take no window back, out *)
(* of order or to a second request (history.py 858-1072).                  *)
THEOREM AcquisitionFollowsLifecycle == Spec => ImplementsLifecycle
<1>1. Acquiring /\ [Next]_vars => Lifecycle!Next
          \/ UNCHANGED << [m \in Manifests |-> [w \in Window |-> StageOf(m, w)]],
                          [m \in Manifests |-> [w \in Window |->
                              Cardinality({s \in DOMAIN sent : Key(sent[s]) = <<m, w>>})]] >>
  BY StepMaps, Mapped, MappedNext
<1>2. QED
  BY AcquiringInvariant, InitMaps, <1>1, PTL DEF Spec, ImplementsLifecycle, Lifecycle!Spec

(***************************************************************************)
(* What the provider sees.                                                 *)
(*                                                                         *)
(* Requests of a minute never outnumber its reservations by more than one: *)
(* the lock leaves room for one reservation of an earlier minute, and      *)
(* while that one is unsent nothing else is.                               *)
(***************************************************************************)

Even(B, S, now) ==
    /\ \A s \in DOMAIN S : S[s].minute <= now
    /\ \A t : MinuteIn(S, t) <= MinuteIn(B, t) + 1 /\ DayIn(S, t) <= DayIn(B, t) + 1

Room(B, S, now, label) == label \in {"reserved", "send"} =>
    LET r == B[Len(B)].minute
    IN  /\ r \in Nat /\ r <= now /\ \A s \in DOMAIN S : S[s].minute <= r
        /\ MinuteIn(S, r) <= MinuteIn(B, r) /\ DayIn(S, DayOf(r)) <= DayIn(B, DayOf(r))

Paced == Even(quota, sent, minute) /\ \A p \in Procs : Room(quota, sent, minute, pc[p])

LEMMA DaysInOrder ==
    ASSUME NEW x \in Nat, NEW y \in Nat, x <= y
    PROVE  DayOf(x) \in Nat /\ DayOf(y) \in Nat /\ DayOf(x) <= DayOf(y)
<1> PICK k \in Nat \ {0} : k = MinutesPerDay
  BY HistoryAssumption
<1>1. /\ x \div k \in Int /\ y \div k \in Int
      /\ k * (x \div k) <= x /\ x < k * (x \div k) + k
      /\ k * (y \div k) <= y /\ y < k * (y \div k) + k
  OBVIOUS
<1>2. QED
  BY <1>1 DEF DayOf

LEMMA SentMinutes == ASSUME TypeOK PROVE \A s \in DOMAIN sent : sent[s].minute \in Nat
<1>1. \A s \in DOMAIN sent : sent[s] \in Reservations
  BY FilesAre
<1>2. QED
  BY <1>1 DEF Reservations

LEMMA QuietPace ==
    ASSUME TypeOK, Paced, UNCHANGED <<quota, sent>>, minute' \in {minute, minute + 1},
           \A p \in Procs : pc'[p] \in {"reserved", "send"} => pc[p] \in {"reserved", "send"}
    PROVE  Paced'
<1>1. /\ sent \in Seq(Reservations) /\ minute \in Nat /\ minute <= minute'
      /\ \A s \in DOMAIN sent : sent[s].minute \in Nat
  BY FilesAre, SentMinutes DEF TypeOK
<1>2. Even(quota', sent', minute')
  BY <1>1 DEF Paced, Even
<1>3. \A p \in Procs : Room(quota', sent', minute', pc'[p])
  <2>1. ASSUME NEW p \in Procs, pc'[p] \in {"reserved", "send"} PROVE Room(quota', sent', minute', pc'[p])
    <3>1. Room(quota, sent, minute, pc[p]) /\ pc[p] \in {"reserved", "send"}
      BY <2>1 DEF Paced
    <3>2. QED
      BY <1>1, <3>1 DEF Room
  <2>2. QED
    BY <2>1 DEF Room
<1>4. QED
  BY <1>2, <1>3 DEF Paced

LEMMA ReservePaces ==
    ASSUME Acquiring, Paced, NEW p \in Procs, Reserve(p), quota' # quota
    PROVE  Paced'
<1>1. PICK e \in Reservations : quota' = Append(quota, e) /\ e.minute = minute
  <2>1. PICK w \in NextWindow(p) : quota' =
            Append(quota, [manifest |-> job[p].manifest, window |-> w, minute |-> minute])
    BY DEF Reserve, Raise, files
  <2>2. w \in Window
    BY DEF NextWindow, Pending, With
  <2>3. [manifest |-> job[p].manifest, window |-> w, minute |-> minute] \in Reservations
    BY <2>2, AtWork DEF Reservations, TypeOK
  <2>4. QED
    BY <2>1, <2>3
<1>2. /\ pc[p] = "loop" /\ sent' = sent /\ minute' = minute
      /\ \A q \in Procs \ {p} : pc'[q] = pc[q]
  BY AtWork, FilesAre DEF Reserve, Raise, Leave, Goto, files, At
<1>3. /\ sent \in Seq(Reservations) /\ quota \in Seq(Reservations) /\ minute \in Nat
      /\ quota' \in Seq(Reservations) /\ Len(quota') = Len(quota) + 1
      /\ quota'[Len(quota) + 1] = e
  BY <1>1, AtWork, FilesAre, LongerByOne DEF TypeOK
<1>4. \A t : /\ MinuteIn(quota, t) \in Nat /\ DayIn(quota, t) \in Nat
             /\ MinuteIn(sent, t) \in Nat /\ DayIn(sent, t) \in Nat
  BY <1>3, CountsAre
<1>5. \A t : /\ MinuteIn(quota', t) = MinuteIn(quota, t) + IF minute = t THEN 1 ELSE 0
             /\ DayIn(quota', t) = DayIn(quota, t) + IF DayOf(minute) = t THEN 1 ELSE 0
  BY <1>1, <1>3, CountsGrow
<1>6. Even(quota', sent', minute')
  BY <1>2, <1>4, <1>5 DEF Paced, Even
<1>7. Room(quota', sent', minute', pc'[p])
  <2>1. quota'[Len(quota')].minute = minute
    BY <1>1, <1>3
  <2>2. \A s \in DOMAIN sent : sent[s].minute <= minute
    BY DEF Paced, Even
  <2>3. MinuteIn(sent, minute) <= MinuteIn(quota', minute)
    BY <1>4, <1>5 DEF Paced, Even
  <2>4. DayIn(sent, DayOf(minute)) <= DayIn(quota', DayOf(minute))
    BY <1>4, <1>5 DEF Paced, Even
  <2>5. QED
    BY <1>2, <1>3, <2>1, <2>2, <2>3, <2>4 DEF Room
<1>8. ASSUME NEW q \in Procs \ {p} PROVE pc'[q] \notin {"reserved", "send"}
  BY <1>2, AtWork DEF LockHeld, Unlocked
<1>9. \A q \in Procs \ {p} : Room(quota', sent', minute', pc'[q])
  BY <1>8 DEF Room
<1>10. QED
  BY <1>6, <1>7, <1>9 DEF Paced

LEMMA TransmitPaces ==
    ASSUME Acquiring, Paced, NEW p \in Procs, Transmit(p)
    PROVE  Paced'
<1>1. PICK e \in Reservations : sent' = Append(sent, e) /\ e.minute = minute
  BY AtWork DEF Transmit, Reservations, TypeOK
<1>2. /\ pc[p] = "send" /\ quota' = quota /\ minute' = minute /\ pc'[p] = "await"
      /\ \A q \in Procs \ {p} : pc'[q] = pc[q]
  BY AtWork, FilesAre DEF Transmit, Goto, files, At
<1>3. /\ sent \in Seq(Reservations) /\ quota \in Seq(Reservations) /\ minute \in Nat
      /\ DOMAIN sent' = DOMAIN sent \cup {Len(sent) + 1} /\ sent'[Len(sent) + 1] = e
      /\ \A s \in DOMAIN sent : sent'[s] = sent[s]
  BY <1>1, AtWork, FilesAre, LongerByOne DEF TypeOK, Longer
<1>4. \A t : /\ MinuteIn(quota, t) \in Nat /\ DayIn(quota, t) \in Nat
             /\ MinuteIn(sent, t) \in Nat /\ DayIn(sent, t) \in Nat
  BY <1>3, CountsAre
<1>5. \A t : /\ MinuteIn(sent', t) = MinuteIn(sent, t) + IF minute = t THEN 1 ELSE 0
             /\ DayIn(sent', t) = DayIn(sent, t) + IF DayOf(minute) = t THEN 1 ELSE 0
  BY <1>1, <1>3, CountsGrow
<1>6. PICK r : /\ r \in Nat /\ r <= minute /\ \A s \in DOMAIN sent : sent[s].minute <= r
               /\ MinuteIn(sent, r) <= MinuteIn(quota, r)
               /\ DayIn(sent, DayOf(r)) <= DayIn(quota, DayOf(r))
  BY <1>2 DEF Paced, Room
<1>7. \A s \in DOMAIN sent : sent[s].minute \in Nat
  BY AtWork, SentMinutes
<1>8. MinuteIn(sent, minute) <= MinuteIn(quota, minute)
  <2>1. CASE r = minute
    BY <1>6, <2>1
  <2>2. CASE r # minute
    <3>1. \A s \in DOMAIN sent : sent[s].minute # minute
      BY <1>3, <1>6, <1>7, <2>2
    <3>2. QED
      BY <1>3, <1>4, <3>1, CountsAre
  <2>3. QED
    BY <2>1, <2>2
<1>9. DayIn(sent, DayOf(minute)) <= DayIn(quota, DayOf(minute))
  <2>1. CASE DayOf(r) = DayOf(minute)
    BY <1>6, <2>1
  <2>2. CASE DayOf(r) # DayOf(minute)
    <3>1. \A s \in DOMAIN sent : DayOf(sent[s].minute) \in Nat /\ DayOf(sent[s].minute) <= DayOf(r)
      BY <1>6, <1>7, DaysInOrder
    <3>2. DayOf(r) \in Nat /\ DayOf(minute) \in Nat /\ DayOf(r) <= DayOf(minute)
      BY <1>3, <1>6, DaysInOrder
    <3>3. \A s \in DOMAIN sent : DayOf(sent[s].minute) # DayOf(minute)
      BY <2>2, <3>1, <3>2
    <3>4. QED
      BY <1>3, <1>4, <3>3, CountsAre
  <2>3. QED
    BY <2>1, <2>2
<1>10. Even(quota', sent', minute')
  <2>1. \A s \in DOMAIN sent' : sent'[s].minute <= minute'
    BY <1>1, <1>2, <1>3 DEF Paced, Even
  <2>2. ASSUME NEW t PROVE MinuteIn(sent', t) <= MinuteIn(quota', t) + 1
    BY <1>2, <1>4, <1>5, <1>8 DEF Paced, Even
  <2>3. ASSUME NEW t PROVE DayIn(sent', t) <= DayIn(quota', t) + 1
    BY <1>2, <1>4, <1>5, <1>9 DEF Paced, Even
  <2>4. QED
    BY <2>1, <2>2, <2>3 DEF Even
<1>11. ASSUME NEW q \in Procs PROVE pc'[q] \notin {"reserved", "send"}
  BY <1>2, AtWork DEF LockHeld, Unlocked
<1>12. QED
  BY <1>10, <1>11 DEF Paced, Room

LEMMA PaceStep == Acquiring /\ Paced /\ [Next]_vars => Paced'
<1> SUFFICES ASSUME Acquiring, Paced, [Next]_vars PROVE Paced'
  OBVIOUS
<1> DEFINE Busy == {"reserved", "send"}
           Quiet == /\ UNCHANGED <<quota, sent>> /\ minute' \in {minute, minute + 1}
                    /\ \A p \in Procs : pc'[p] \in Busy => pc[p] \in Busy
<1>0. TypeOK /\ pc \in [Procs -> Labels]
  BY FilesAre DEF Acquiring, Safe
<1>1. ASSUME NEW p \in Procs, Step(p)
      PROVE  \/ Reserve(p) /\ quota' # quota
             \/ Transmit(p)
             \/ Quiet
  <2>1. TakeLock(p) \/ Open(p) \/ TakeOrphan(p) \/ EndLoop(p) \/ FetchRefused(p)
            \/ TransportFails(p) \/ Respond(p) \/ Close(p) \/ Checkpoint(p) => Quiet
    BY <1>0 DEF TakeLock, Open, TakeOrphan, EndLoop, FetchRefused, TransportFails, Respond, Close,
           Checkpoint, Raise, Leave, Goto, files, Assessments
  <2>2. LinkReservation(p) \/ Register(p) \/ LinkRecord(p) \/ Ingest(p) \/ Reject(p)
            \/ LinkRejection(p) \/ Observe(p) \/ LinkCheckpoint(p) => Quiet
    BY <1>0 DEF LinkReservation, Register, LinkRecord, Ingest, Reject, LinkRejection, Observe,
           LinkCheckpoint, Goto, At
  <2>3. Reserve(p) /\ quota' = quota => Quiet
    <3>1. ASSUME Reserve(p), quota' = quota PROVE Raise(p) \/ (Goto(p, "close") /\ UNCHANGED <<files, sent, minute>>)
      <4>1. \A w : quota # Append(quota, [manifest |-> job[p].manifest, window |-> w, minute |-> minute])
        <5>1. Len(quota) \in Nat /\ \A x : Len(Append(quota, x)) = Len(quota) + 1
          BY <1>0, FilesAre
        <5>2. QED
          BY <5>1
      <4>2. QED
        BY <3>1, <4>1 DEF Reserve
    <3>2. QED
      BY <1>0, <3>1 DEF Raise, Leave, Goto, files
  <2>4. QED
    BY <1>1, <2>1, <2>2, <2>3 DEF Step
<1>2. ASSUME Tick \/ UNCHANGED vars \/ \E p \in Procs : Crash(p)
                 \/ \E m \in Manifests, limit \in 1..RunLimit : Start(p, m, limit)
      PROVE  Quiet
  BY <1>0, <1>2 DEF Tick, vars, Crash, Start, Leave, Goto, files
<1>3. Quiet => Paced'
  BY <1>0, QuietPace
<1> HIDE DEF Quiet
<1>4. QED
  BY <1>1, <1>2, <1>3, ReservePaces, TransmitPaces DEF Next

(* In no minute and on no day does the provider see more requests than it  *)
(* grants.  What it sees may pass the local ceiling by one (<2>7), by a    *)
(* request reserved in the minute or on the day before; the policy keeps   *)
(* both ceilings below the provider's limits, and that one request is what *)
(* they leave room for (history.py 122-133, 642-652, 873-888).             *)
THEOREM QuotaIsRespected == Spec => []ProviderQuotaRespected
<1>1. Init => Paced
  <2> SUFFICES ASSUME Init PROVE Paced
    OBVIOUS
  <2>1. sent \in Seq(Reservations) /\ quota \in Seq(Reservations) /\ DOMAIN sent = {} /\ DOMAIN quota = {}
    BY EmptySeq DEF Init
  <2>2. \A t : MinuteIn(sent, t) = 0 /\ DayIn(sent, t) = 0 /\ MinuteIn(quota, t) = 0 /\ DayIn(quota, t) = 0
    BY <2>1, CountsAre
  <2>3. QED
    BY <2>1, <2>2 DEF Init, Paced, Even, Room
<1>2. Acquiring /\ Paced => ProviderQuotaRespected
  <2> SUFFICES ASSUME Acquiring, Paced, NEW t \in 0..minute
               PROVE  SentIn(t) <= ProviderMinute /\ SentOnDay(DayOf(t)) <= ProviderDay
    BY DEF ProviderQuotaRespected
  <2>1. /\ quota \in Seq(Reservations) /\ sent \in Seq(Reservations) /\ Counted
        /\ MinuteLimit \in Nat /\ DayLimit \in Nat
        /\ ProviderMinute \in Nat /\ ProviderDay \in Nat
        /\ MinuteLimit < ProviderMinute /\ DayLimit < ProviderDay
    BY FilesAre, HistoryAssumption DEF Acquiring, FilesInv, Safe
  <2>2. PICK d : d = DayOf(t)
    OBVIOUS
  <2>3. MinuteIn(quota, t) <= MinuteLimit
    <3>1. CASE \E n \in DOMAIN quota : quota[n].minute = t
      BY <2>1, <3>1 DEF Counted, MinuteUsed, MinuteIn
    <3>2. CASE ~\E n \in DOMAIN quota : quota[n].minute = t
      BY <2>1, <3>2, CountsAre
    <3>3. QED
      BY <3>1, <3>2
  <2>4. DayIn(quota, d) <= DayLimit
    <3>1. CASE \E n \in DOMAIN quota : DayOf(quota[n].minute) = d
      BY <2>1, <3>1 DEF Counted, DayUsed, DayIn
    <3>2. CASE ~\E n \in DOMAIN quota : DayOf(quota[n].minute) = d
      BY <2>1, <3>2, CountsAre
    <3>3. QED
      BY <3>1, <3>2
  <2>5. MinuteIn(sent, t) <= MinuteIn(quota, t) + 1 /\ DayIn(sent, d) <= DayIn(quota, d) + 1
    BY DEF Paced, Even
  <2>6. /\ MinuteIn(sent, t) \in Nat /\ MinuteIn(quota, t) \in Nat
        /\ DayIn(sent, d) \in Nat /\ DayIn(quota, d) \in Nat
    BY <2>1, CountsAre
  <2>7. MinuteIn(sent, t) <= MinuteLimit + 1 /\ DayIn(sent, d) <= DayLimit + 1
    BY <2>1, <2>3, <2>4, <2>5, <2>6
  <2>8. MinuteIn(sent, t) <= ProviderMinute /\ DayIn(sent, d) <= ProviderDay
    BY <2>1, <2>6, <2>7
  <2>9. QED
    BY <2>2, <2>8 DEF SentIn, SentOnDay, MinuteIn, DayIn
<1>3. QED
  BY AcquiringInvariant, <1>1, <1>2, PaceStep, PTL DEF Spec

(***************************************************************************)
(* Raising takes a death.                                                  *)
(***************************************************************************)

(* Every line of F has its event, but for the last one if it is owed. *)
AllBut(F, L, type, owed) == \A n \in DOMAIN F : Once(L, type, n) \/ (owed /\ n = Len(F))

Owing == {"reserved", "registered", "ingest", "rejected", "checkpointed"}

Accounted(label, B, R, Q, C, L) ==
    /\ AllBut(B, L, Reservation, label = "reserved")
    /\ AllBut(R, L, Rec, label = "registered")
    /\ AllBut(R, L, Ing, label \in {"registered", "ingest"})
    /\ AllBut(Q, L, Quar, label = "rejected")
    /\ AllBut(C, L, Cp, label = "checkpointed")

(* Where the holder of the lock is. *)
Held == IF lock \in Procs THEN pc[lock] ELSE "idle"

Intact == crashes = 0 =>
    ~raised /\ Accounted(Held, quota, register, quarantine, checkpoints, ledger)

LEMMA HeldIs ==
    ASSUME Acquiring, NEW p \in Procs, pc[p] \notin Unlocked
    PROVE  /\ lock = p /\ Held = pc[p]
           /\ Leave(p) => Held' = "idle"
           /\ \A label : lock' = lock /\ Goto(p, label) => Held' = label
<1>1. lock = p /\ pc \in [Procs -> Labels]
  BY AtWork, FilesAre DEF LockHeld
<1>2. ASSUME Leave(p) PROVE Held' = "idle"
  BY <1>1, <1>2, HistoryAssumption DEF Leave, LockAfter, Held
<1>3. QED
  BY <1>1, <1>2 DEF Held, Goto

LEMMA NothingOwed ==
    ASSUME NEW label, label \notin Owing, NEW next, NEW B, NEW R, NEW Q, NEW C, NEW L, NEW M,
           Accounted(label, B, R, Q, C, L), StillOnce(L, M)
    PROVE  Accounted(next, B, R, Q, C, M)
BY DEF Accounted, AllBut, Owing, StillOnce, Linking

LEMMA OneMoreLine ==
    ASSUME NEW S, NEW F \in Seq(S), NEW e \in S, NEW L, NEW type, \A n \in DOMAIN F : Once(L, type, n)
    PROVE  AllBut(Append(F, e), L, type, TRUE)
<1>1. DOMAIN Append(F, e) = DOMAIN F \cup {Len(F) + 1} /\ Len(Append(F, e)) = Len(F) + 1
  BY LongerByOne
<1>2. QED
  BY <1>1 DEF AllBut

LEMMA LineLinked ==
    ASSUME NEW F, NEW L, NEW M, NEW type \in Linking, NEW owed, AllBut(F, L, type, owed),
           StillOnce(L, M), Once(M, type, Len(F))
    PROVE  AllBut(F, M, type, FALSE)
BY DEF AllBut, StillOnce

LEMMA AccountStays ==
    ASSUME NEW label, NEW B, NEW R, NEW Q, NEW C, NEW L, NEW M,
           Accounted(label, B, R, Q, C, L), StillOnce(L, M)
    PROVE  Accounted(label, B, R, Q, C, M)
BY DEF Accounted, AllBut, StillOnce, Linking

(* With nothing owed every validation passes. *)
LEMMA AllValid ==
    ASSUME Acquiring, Intact, crashes = 0, NEW p \in Procs, pc[p] \notin Unlocked, pc[p] \notin Owing
    PROVE  CheckpointsValid /\ QuotaValid /\ MarketStateValid
<1>1. Accounted(pc[p], quota, register, quarantine, checkpoints, ledger)
  BY HeldIs DEF Intact
<1>2. /\ \A n \in DOMAIN quota : LinkedOnce(Reservation, n)
      /\ \A n \in DOMAIN register : LinkedOnce(Rec, n) /\ LinkedOnce(Ing, n)
      /\ \A n \in DOMAIN quarantine : LinkedOnce(Quar, n)
      /\ \A n \in DOMAIN checkpoints : LinkedOnce(Cp, n)
  BY <1>1, Readings DEF Accounted, AllBut, Owing
<1>3. Vouched(register, quarantine, checkpoints, ledger, quota) /\ Counted /\ LinkedReservationsExist
  BY AtWork DEF Discipline
<1>4. CheckpointsValid
  <2>1. UniqueKeys(checkpoints) /\ RefsIn(ledger, Cp, checkpoints)
    BY <1>3, UniqueMeans DEF Vouched
  <2>2. QED
    BY <1>2, <2>1 DEF CheckpointsValid, Reconciled, RefsIn, Cp
<1>5. QuotaValid
  <2>1. UniqueKeys(quota)
    BY <1>3, UniqueMeans DEF Counted
  <2>2. QED
    BY <1>2, <1>3, <2>1 DEF QuotaValid, Reconciled, Reservation, Counted, LinkedReservationsExist
<1>6. MarketStateValid
  BY <1>2, <1>3 DEF MarketStateValid, Reconciled, Vouched, RefsIn, Rec, Ing, Quar
<1>7. QED
  BY <1>4, <1>5, <1>6

(* The window to be checkpointed has no checkpoint. *)
LEMMA StillPending ==
    ASSUME Acquiring, NEW p \in Procs, pc[p] = "checkpoint"
    PROVE  OutcomeOf(job[p].manifest, job[p].window) = "pending"
<1>1. /\ Conduct(register, quarantine, checkpoints, ledger, quota, sent, "checkpoint", job[p])
      /\ job[p].window \in Window /\ Vouched(register, quarantine, checkpoints, ledger, quota)
  BY AtWork
<1>2. "checkpoint" \in Working /\ "checkpoint" \in Recalling
  BY DEF Working, Judged, Recalling
<1>3. job[p].outcomes[job[p].window] = "pending"
  BY <1>1, <1>2 DEF Conduct, Front
<1>4. RemembersAt(checkpoints, job[p], job[p].window)
  BY <1>1, <1>2 DEF Conduct, Recall
<1>5. QED
  BY <1>1, <1>3, <1>4, RemembersOutcome

(* A step that owes nothing and adds no line. *)
LEMMA QuietIntact ==
    ASSUME Acquiring, Intact, crashes = 0, ~raised', NEW p \in Procs, pc[p] \notin Unlocked \cup Owing,
           UNCHANGED <<quota, checkpoints, register, quarantine>>, StillOnce(ledger, ledger'),
           Leave(p) \/ (lock' = lock /\ \E label : Goto(p, label))
    PROVE  Intact'
<1>1. Accounted(pc[p], quota, register, quarantine, checkpoints, ledger)
  BY HeldIs DEF Intact
<1>2. PICK label : label = Held'
  OBVIOUS
<1>3. Accounted(label, quota, register, quarantine, checkpoints, ledger')
  BY <1>1, NothingOwed
<1>4. QED
  BY <1>2, <1>3 DEF Intact

LEMMA OtherEvents ==
    ASSUME Acquiring, NEW p \in Procs, NEW type \in {Obs, Rep}, NEW n \in Nat, Log(p, type, n)
    PROVE  StillOnce(ledger, ledger')
<1> DEFINE e == Event(type, job[p].manifest, job[p].window, n)
<1>1. e \in Events /\ e.type = type /\ ledger \in Seq(Events) /\ ledger' = Append(ledger, e)
  BY AtWork, FilesAre DEF Event, Events, EventType, Obs, Rep, Log
<1>2. Fresh(ledger, e)
  BY <1>1 DEF Fresh, Linking, Obs, Rep, Reservation, Rec, Ing, Quar, Cp
<1> HIDE DEF e
<1>3. QED
  BY <1>1, <1>2, EventEffect DEF StillOnce

(* Steps that add no line and no event but for observations and reports. *)
LEMMA UnlinkedIntact ==
    ASSUME Acquiring, Intact, crashes = 0, NEW p \in Procs,
           \/ Open(p) \/ TakeOrphan(p) \/ EndLoop(p) \/ FetchRefused(p) \/ Transmit(p)
           \/ TransportFails(p) \/ Respond(p) \/ Observe(p) \/ Close(p)
    PROVE  Intact'
<1> USE DEF At
<1>1. ~raised /\ StillOnce(ledger, ledger)
  BY DEF Intact, StillOnce
<1>2. CASE Open(p)
  <2>1. pc[p] = "open" /\ pc[p] \notin Unlocked \cup Owing
    BY <1>2 DEF Open, Unlocked, Owing
  <2>2. CheckpointsValid /\ QuotaValid
    BY <2>1, AllValid
  <2>3. lock' = lock /\ (\E label : Goto(p, label)) /\ ~raised' /\ UNCHANGED files
    BY <1>1, <1>2, <2>2 DEF Open
  <2>4. QED
    BY <1>1, <2>1, <2>3, QuietIntact DEF files
<1>3. CASE TakeOrphan(p)
  BY <1>1, <1>3, QuietIntact DEF TakeOrphan, Unlocked, Owing, files
<1>4. CASE EndLoop(p)
  BY <1>1, <1>4, QuietIntact DEF EndLoop, Unlocked, Owing, files
<1>5. CASE FetchRefused(p) \/ TransportFails(p)
  BY <1>1, <1>5, QuietIntact DEF FetchRefused, TransportFails, Unlocked, Owing, files
<1>6. CASE Transmit(p)
  BY <1>1, <1>6, QuietIntact DEF Transmit, Unlocked, Owing, files
<1>7. CASE Respond(p)
  <2>1. \E label : Goto(p, label)
    BY <1>7 DEF Respond
  <2>2. QED
    BY <1>1, <1>7, <2>1, QuietIntact DEF Respond, Unlocked, Owing, files
<1>8. CASE Observe(p)
  <2>1. StillOnce(ledger, ledger')
    <3>1. CASE ledger' = ledger
      BY <1>1, <3>1
    <3>2. CASE ledger' # ledger
      <4>1. Log(p, Obs, job[p].observation.sent)
        BY <1>8, <3>2 DEF Observe, LastObserved, Obs
      <4>2. QED
        BY <4>1, AtWork, OtherEvents
    <3>3. QED
      BY <3>1, <3>2
  <2>2. QED
    BY <1>1, <1>8, <2>1, QuietIntact DEF Observe, Unlocked, Owing
<1>9. CASE Close(p)
  <2>1. pc[p] = "close" /\ pc[p] \notin Unlocked \cup Owing
    BY <1>9 DEF Close, Unlocked, Owing
  <2>2. CheckpointsValid /\ QuotaValid /\ MarketStateValid
    BY <2>1, AllValid
  <2>3. /\ Log(p, Rep, Len(reports) + 1) /\ Leave(p) /\ ~raised'
        /\ UNCHANGED <<quota, checkpoints, register, quarantine>>
    BY <1>1, <1>9, <2>2 DEF Close, Log, Rep
  <2>4. StillOnce(ledger, ledger')
    <3>1. Len(reports) + 1 \in Nat
      BY AtWork, FilesAre
    <3>2. QED
      BY <2>3, <3>1, OtherEvents
  <2>5. QED
    BY <2>1, <2>3, <2>4, QuietIntact
<1>10. QED
  BY <1>2, <1>3, <1>4, <1>5, <1>6, <1>7, <1>8, <1>9

(* Steps that write a line: it is the one that is owed. *)
LEMMA LineIntact ==
    ASSUME Acquiring, Intact, crashes = 0, NEW p \in Procs,
           Reserve(p) \/ Register(p) \/ Reject(p) \/ Checkpoint(p)
    PROVE  Intact'
<1> USE DEF At
<1>1. /\ pc[p] \in {"loop", "accept", "reject", "checkpoint"} /\ pc[p] \notin Unlocked \cup Owing
  BY DEF Reserve, Register, Reject, Checkpoint, Unlocked, Owing
<1>2. /\ ~raised /\ StillOnce(ledger, ledger)
      /\ Accounted(pc[p], quota, register, quarantine, checkpoints, ledger)
  BY <1>1, HeldIs DEF Intact, StillOnce
<1>3. /\ \A n \in DOMAIN quota : Once(ledger, Reservation, n)
      /\ \A n \in DOMAIN register : Once(ledger, Rec, n) /\ Once(ledger, Ing, n)
      /\ \A n \in DOMAIN quarantine : Once(ledger, Quar, n)
      /\ \A n \in DOMAIN checkpoints : Once(ledger, Cp, n)
  BY <1>1, <1>2 DEF Accounted, AllBut, Owing
<1>4. CheckpointsValid /\ QuotaValid
  BY <1>1, AllValid
<1>5. TypeOK /\ job[p].manifest \in Manifests /\ job[p].window \in Window
      /\ job[p].result.status \in Outcome /\ job[p].result.ref \in Nat /\ minute \in Nat
  BY AtWork DEF TypeOK
<1>6. CASE Reserve(p)
  <2>1. CASE ~QuotaLeft
    <3>1. lock' = lock /\ Goto(p, "close") /\ UNCHANGED files /\ ~raised'
      BY <1>2, <1>4, <1>6, <2>1 DEF Reserve
    <3>2. QED
      BY <1>1, <1>2, <3>1, QuietIntact DEF files
  <2>2. CASE QuotaLeft
    <3>1. PICK w \in NextWindow(p) : quota' = Append(quota,
                  [manifest |-> job[p].manifest, window |-> w, minute |-> minute])
      BY <1>4, <1>6, <2>2 DEF Reserve
    <3>2. w \in Window
      BY DEF NextWindow, Pending, With
    <3>3. PICK e \in Reservations : quota' = Append(quota, e)
      BY <1>5, <3>1, <3>2 DEF Reservations
    <3>4. /\ lock' = lock /\ Goto(p, "reserved") /\ ~raised'
          /\ UNCHANGED <<checkpoints, register, quarantine, ledger>>
      BY <1>2, <1>4, <1>6, <2>2 DEF Reserve
    <3>5. AllBut(quota', ledger, Reservation, TRUE)
      BY <1>3, <1>5, <3>3, FilesAre, OneMoreLine
    <3>6. Accounted("reserved", quota', register, quarantine, checkpoints, ledger)
      BY <1>3, <3>5 DEF Accounted, AllBut
    <3>7. QED
      BY <1>1, <3>4, <3>6, HeldIs DEF Intact
  <2>3. QED
    BY <2>1, <2>2
<1>7. CASE Register(p)
  <2>1. PICK e \in Lines : register' = Append(register, e)
    BY <1>5, <1>7 DEF Register, Line, Lines
  <2>2. /\ lock' = lock /\ Goto(p, "registered") /\ ~raised'
        /\ UNCHANGED <<quota, checkpoints, quarantine, ledger>>
    BY <1>2, <1>7 DEF Register
  <2>3. AllBut(register', ledger, Rec, TRUE) /\ AllBut(register', ledger, Ing, TRUE)
    BY <1>3, <1>5, <2>1, FilesAre, OneMoreLine
  <2>4. Accounted("registered", quota, register', quarantine, checkpoints, ledger)
    BY <1>3, <2>3 DEF Accounted, AllBut
  <2>5. QED
    BY <1>1, <2>2, <2>4, HeldIs DEF Intact
<1>8. CASE Reject(p)
  <2>1. PICK e \in Lines : quarantine' = Append(quarantine, e)
    BY <1>5, <1>8 DEF Reject, Line, Lines
  <2>2. /\ lock' = lock /\ Goto(p, "rejected") /\ ~raised'
        /\ UNCHANGED <<quota, checkpoints, register, ledger>>
    BY <1>2, <1>8 DEF Reject
  <2>3. AllBut(quarantine', ledger, Quar, TRUE)
    BY <1>3, <1>5, <2>1, FilesAre, OneMoreLine
  <2>4. Accounted("rejected", quota, register, quarantine', checkpoints, ledger)
    BY <1>3, <2>3 DEF Accounted, AllBut
  <2>5. QED
    BY <1>1, <2>2, <2>4, HeldIs DEF Intact
<1>9. CASE Checkpoint(p)
  <2>1. OutcomeOf(job[p].manifest, job[p].window) = "pending"
    BY <1>9, StillPending DEF Checkpoint
  <2>2. /\ lock' = lock /\ Goto(p, "checkpointed") /\ ~raised'
        /\ UNCHANGED <<quota, register, quarantine, ledger>>
        /\ checkpoints' = Append(checkpoints, CheckpointOf(job[p]))
    BY <1>2, <1>4, <1>9, <2>1 DEF Checkpoint, CheckpointOf
  <2>3. CheckpointOf(job[p]) \in Terminals
    BY <1>5 DEF CheckpointOf, Terminals
  <2>4. AllBut(checkpoints', ledger, Cp, TRUE)
    BY <1>3, <1>5, <2>2, <2>3, FilesAre, OneMoreLine
  <2>5. Accounted("checkpointed", quota, register, quarantine, checkpoints', ledger)
    BY <1>3, <2>4 DEF Accounted, AllBut
  <2>6. QED
    BY <1>1, <2>2, <2>5, HeldIs DEF Intact
<1>10. QED
  BY <1>6, <1>7, <1>8, <1>9

(* Steps that log the event that is owed. *)
LEMMA LinkIntact ==
    ASSUME Acquiring, Intact, crashes = 0, NEW p \in Procs,
           \/ LinkReservation(p) \/ LinkRecord(p) \/ Ingest(p) \/ LinkRejection(p) \/ LinkCheckpoint(p)
    PROVE  Intact'
<1> USE DEF At
<1>1. /\ pc[p] \in Owing /\ pc[p] \notin Unlocked
      /\ UNCHANGED <<quota, checkpoints, register, quarantine, reports, sent, raised>> /\ lock' = lock
  BY DEF LinkReservation, LinkRecord, Ingest, LinkRejection, LinkCheckpoint, Unlocked, Owing
<1>2. /\ ~raised /\ Accounted(pc[p], quota, register, quarantine, checkpoints, ledger)
  BY <1>1, HeldIs DEF Intact
<1>3. /\ Conduct(register, quarantine, checkpoints, ledger, quota, sent, pc[p], job[p])
      /\ Len(quota) \in Nat /\ Len(register) \in Nat /\ Len(quarantine) \in Nat
      /\ Len(checkpoints) \in Nat /\ SentOnceAndAfterLink(p)
      /\ Reservation \in Linking /\ Rec \in Linking /\ Ing \in Linking /\ Quar \in Linking
      /\ Cp \in Linking
  BY AtWork, FilesAre DEF Linking
<1>4. ASSUME NEW next, Goto(p, next), Accounted(next, quota, register, quarantine, checkpoints, ledger')
      PROVE  Intact'
  BY <1>1, <1>2, <1>4, HeldIs DEF Intact
<1>5. CASE LinkReservation(p)
  <2>1. pc[p] = "reserved" /\ Log(p, Reservation, Len(quota)) /\ Goto(p, "send")
    BY <1>5 DEF LinkReservation, Reservation
  <2>2. LinkSet(ledger, Reservation, Len(quota)) = {}
    BY <1>3, <2>1, Readings DEF SentOnceAndAfterLink, Reservation
  <2>3. StillOnce(ledger, ledger') /\ Once(ledger', Reservation, Len(quota))
    BY <1>1, <1>3, <2>1, <2>2, LoggedFiles DEF Reservation, Rec, Ing, Quar, Cp
  <2>4. AllBut(quota, ledger', Reservation, FALSE)
    BY <1>2, <1>3, <2>3, LineLinked DEF Accounted
  <2>5. Accounted(pc[p], quota, register, quarantine, checkpoints, ledger')
    BY <1>2, <2>3, AccountStays
  <2>6. Accounted("send", quota, register, quarantine, checkpoints, ledger')
    BY <2>1, <2>4, <2>5 DEF Accounted, AllBut
  <2>7. QED
    BY <1>4, <2>1, <2>6
<1>6. CASE LinkRecord(p)
  <2>1. pc[p] = "registered" /\ Log(p, Rec, Len(register)) /\ Goto(p, "ingest")
    BY <1>6 DEF LinkRecord, Rec
  <2>2. LinkSet(ledger, Rec, Len(register)) = {} /\ Len(register) \in DOMAIN register
    BY <1>3, <2>1 DEF Conduct, Duty
  <2>3. StillOnce(ledger, ledger') /\ Once(ledger', Rec, Len(register))
    BY <1>1, <1>3, <2>1, <2>2, LoggedFiles DEF Rec, Ing, Quar, Cp
  <2>4. AllBut(register, ledger', Rec, FALSE)
    BY <1>2, <1>3, <2>3, LineLinked DEF Accounted
  <2>5. Accounted(pc[p], quota, register, quarantine, checkpoints, ledger')
    BY <1>2, <2>3, AccountStays
  <2>6. Accounted("ingest", quota, register, quarantine, checkpoints, ledger')
    BY <2>1, <2>4, <2>5 DEF Accounted, AllBut
  <2>7. QED
    BY <1>4, <2>1, <2>6
<1>7. CASE Ingest(p)
  <2>1. pc[p] = "ingest" /\ Log(p, Ing, Len(register)) /\ Goto(p, "observe")
    BY <1>7 DEF Ingest, Ing
  <2>2. LinkSet(ledger, Ing, Len(register)) = {} /\ Len(register) \in DOMAIN register
    BY <1>3, <2>1 DEF Conduct, Duty
  <2>3. StillOnce(ledger, ledger') /\ Once(ledger', Ing, Len(register))
    BY <1>1, <1>3, <2>1, <2>2, LoggedFiles DEF Rec, Ing, Quar, Cp
  <2>4. AllBut(register, ledger', Ing, FALSE)
    BY <1>2, <1>3, <2>3, LineLinked DEF Accounted
  <2>5. Accounted(pc[p], quota, register, quarantine, checkpoints, ledger')
    BY <1>2, <2>3, AccountStays
  <2>6. Accounted("observe", quota, register, quarantine, checkpoints, ledger')
    BY <2>1, <2>4, <2>5 DEF Accounted, AllBut
  <2>7. QED
    BY <1>4, <2>1, <2>6
<1>8. CASE LinkRejection(p)
  <2>1. PICK next \in {"observe", "checkpoint"} :
            pc[p] = "rejected" /\ Log(p, Quar, Len(quarantine)) /\ Goto(p, next)
    BY <1>8 DEF LinkRejection, Quar
  <2>2. LinkSet(ledger, Quar, Len(quarantine)) = {} /\ Len(quarantine) \in DOMAIN quarantine
    BY <1>3, <2>1 DEF Conduct, Duty
  <2>3. StillOnce(ledger, ledger') /\ Once(ledger', Quar, Len(quarantine))
    BY <1>1, <1>3, <2>1, <2>2, LoggedFiles DEF Rec, Ing, Quar, Cp
  <2>4. AllBut(quarantine, ledger', Quar, FALSE)
    BY <1>2, <1>3, <2>3, LineLinked DEF Accounted
  <2>5. Accounted(pc[p], quota, register, quarantine, checkpoints, ledger')
    BY <1>2, <2>3, AccountStays
  <2>6. Accounted(next, quota, register, quarantine, checkpoints, ledger')
    BY <2>1, <2>4, <2>5 DEF Accounted, AllBut
  <2>7. QED
    BY <1>4, <2>1, <2>6
<1>9. CASE LinkCheckpoint(p)
  <2>1. PICK next \in {"orphan", "close", "loop"} :
            pc[p] = "checkpointed" /\ Log(p, Cp, Len(checkpoints)) /\ Goto(p, next)
    BY <1>9 DEF LinkCheckpoint, Cp
  <2>2. LinkSet(ledger, Cp, Len(checkpoints)) = {} /\ Len(checkpoints) \in DOMAIN checkpoints
    BY <1>3, <2>1 DEF Conduct, Recall
  <2>3. StillOnce(ledger, ledger') /\ Once(ledger', Cp, Len(checkpoints))
    BY <1>1, <1>3, <2>1, <2>2, LoggedFiles DEF Rec, Ing, Quar, Cp
  <2>4. AllBut(checkpoints, ledger', Cp, FALSE)
    BY <1>2, <1>3, <2>3, LineLinked DEF Accounted
  <2>5. Accounted(pc[p], quota, register, quarantine, checkpoints, ledger')
    BY <1>2, <2>3, AccountStays
  <2>6. Accounted(next, quota, register, quarantine, checkpoints, ledger')
    BY <2>1, <2>4, <2>5 DEF Accounted, AllBut
  <2>7. QED
    BY <1>4, <2>1, <2>6
<1>10. QED
  BY <1>5, <1>6, <1>7, <1>8, <1>9

(* Steps without the lock. *)
LEMMA OutsideIntact ==
    ASSUME Acquiring, Intact, crashes = 0, UNCHANGED <<files, raised>>,
           \/ Tick \/ UNCHANGED vars
           \/ \E p \in Procs : \/ TakeLock(p)
                               \/ \E m \in Manifests, limit \in 1..RunLimit : Start(p, m, limit)
    PROVE  Intact'
<1>1. /\ UNCHANGED <<quota, checkpoints, register, quarantine, ledger>> /\ StillOnce(ledger, ledger)
      /\ Accounted(Held, quota, register, quarantine, checkpoints, ledger) /\ ~raised'
      /\ pc \in [Procs -> Labels]
  BY FilesAre DEF files, Intact, StillOnce, Acquiring, Safe
<1>2. Held' = Held \/ Held \notin Owing
  <2>1. CASE Tick \/ UNCHANGED vars
    BY <2>1 DEF Tick, vars, Held
  <2>2. ASSUME NEW p \in Procs, TakeLock(p) PROVE Held \notin Owing
    BY <2>2, HistoryAssumption DEF TakeLock, LockFree, Held, Owing
  <2>3. ASSUME NEW p \in Procs, NEW m \in Manifests, NEW limit \in 1..RunLimit, Start(p, m, limit)
        PROVE  Held' = Held \/ Held \notin Owing
    BY <1>1, <2>3 DEF Start, At, Goto, Held, Owing
  <2>4. QED
    BY <2>1, <2>2, <2>3
<1>3. PICK next : next = Held'
  OBVIOUS
<1>4. Accounted(next, quota, register, quarantine, checkpoints, ledger)
  BY <1>1, <1>2, <1>3, NothingOwed
<1>5. QED
  BY <1>1, <1>3, <1>4 DEF Intact

LEMMA IntactStep == Acquiring /\ Intact /\ [Next]_vars => Intact'
<1> SUFFICES ASSUME Acquiring, Intact, [Next]_vars, crashes' = 0 PROVE Intact'
  BY DEF Intact
<1>1. crashes = 0 /\ ~\E p \in Procs : Crash(p)
  <2>1. crashes \in Nat
    BY DEF Acquiring, Safe, TypeOK
  <2>2. crashes' = crashes \/ crashes' = crashes + 1
    BY DEF Next, Step, vars, Start, TakeLock, Open, TakeOrphan, Reserve, LinkReservation,
           EndLoop, FetchRefused, Transmit, TransportFails, Respond, Register, LinkRecord, Ingest,
           Reject, LinkRejection, Observe, Checkpoint, LinkCheckpoint, Close, Crash, Tick, Raise
  <2>3. QED
    BY <2>1, <2>2 DEF Crash
<1>2. ASSUME NEW p \in Procs, TakeLock(p) PROVE UNCHANGED <<files, raised>>
  BY <1>2 DEF TakeLock
<1>3. ASSUME NEW p \in Procs, NEW m \in Manifests, NEW limit \in 1..RunLimit, Start(p, m, limit)
      PROVE  UNCHANGED <<files, raised>>
  BY <1>3 DEF Start
<1>4. Tick \/ UNCHANGED vars => UNCHANGED <<files, raised>>
  BY DEF Tick, vars
<1>5. QED
  BY <1>1, <1>2, <1>3, <1>4, OutsideIntact, UnlinkedIntact, LineIntact, LinkIntact DEF Next, Step

(* An invocation raises only after some invocation has died: failed        *)
(* requests, refusals, quarantines, orphans, pauses and rivals leave       *)
(* nothing that a validation objects to (history.py 889-934, 971-1051).    *)
THEOREM RaisesNeedADeath == Spec => []RaisedOnlyAfterCrash
<1>1. Init => Intact
  <2> SUFFICES ASSUME Init PROVE Intact
    OBVIOUS
  <2>1. DOMAIN quota = {} /\ DOMAIN checkpoints = {} /\ DOMAIN register = {} /\ DOMAIN quarantine = {}
    BY DEF Init
  <2>2. QED
    BY <2>1 DEF Init, Intact, Accounted, AllBut
<1>2. Acquiring /\ Intact => RaisedOnlyAfterCrash
  <2>1. Acquiring => crashes \in Nat
    BY DEF Acquiring, Safe, TypeOK
  <2>2. QED
    BY <2>1 DEF Intact, RaisedOnlyAfterCrash
<1>3. QED
  BY AcquiringInvariant, <1>1, <1>2, IntactStep, PTL DEF Spec

=============================================================================
