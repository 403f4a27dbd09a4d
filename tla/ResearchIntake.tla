--------------------------- MODULE ResearchIntake ---------------------------
(***************************************************************************)
(* `athena ingest-paper`: ResearchIntake.ingest of src/athena/intake.py     *)
(* with what it calls - EvidenceRegister.append, QuarantineRegister.append  *)
(* and the audit ledger.  Nothing locks, so several invocations may be at   *)
(* work on the same files, and each may die between any two file accesses.  *)
(*                                                                         *)
(* A source is what the manifest says of it: its canonical locator, its    *)
(* bytes, its (one) author's key and whether it passes the manifest's own  *)
(* controls.  A record is its identity (kind and key) with the source and  *)
(* the recorded_at time of the invocation that made it; two records have   *)
(* the same record_sha256 when all four agree.  "card" stands for the      *)
(* Research Card and the hypotheses and formulas appended after it.  An    *)
(* append to the ledger is one step: module EvidenceLedger takes it apart. *)
(***************************************************************************)
EXTENDS Naturals, Sequences

CONSTANTS Procs,           \* `athena ingest-paper` processes
          Sources,         \* manifests: [locator, bytes, author, sound]
          MaxInvocations,  \* bound: no invocation after this many
          MaxCrashes       \* bound: invocations that die

ASSUME IntakeAssumption ==
    /\ Sources # {} /\ \A s \in Sources : s.sound \in BOOLEAN
    /\ {MaxInvocations, MaxCrashes} \subseteq Nat

VARIABLES pc, job,      \* per process: its place in ingest() and local state
          register,     \* evidence-register.jsonl
          quarantine,   \* quarantine.jsonl
          objects,      \* bytes retained in the object store
          ledger,       \* ledger.jsonl
          invocations,  \* history: how many began; also their recorded_at
          crashes,      \* history: how many died
          overlapped,   \* history: two invocations were at work at once
          raised        \* history: an accepted intake ended in an exception

files == <<register, quarantine, objects, ledger>>
vars  == <<pc, job, files, invocations, crashes, overlapped, raised>>

Labels == {"idle", "preflight", "duplicate", "number", "reject", "rejected",
           "persist", "check", "write", "link", "accept", "reconcile"}

-----------------------------------------------------------------------------
(* Records and the files that hold them.                                   *)

Record(kind, key, s, t) == [kind |-> kind, key |-> key, source |-> s, stamp |-> t]
Id(r) == <<r.kind, r.key>>

(* new_records: each is related to the one before it. *)
Package(s, t) == <<Record("author", s.author, s, t),
                   Record("paper", s.locator, s, t),
                   Record("card", s.locator, s, t)>>
RelatedTo(r) == CASE r.kind = "author" -> {}
                  [] r.kind = "paper"  -> {<<"author", r.source.author>>}
                  [] r.kind = "card"   -> {<<"paper", r.key>>}

Ids == {Id(register[n]) : n \in DOMAIN register}

RegisteredEvent(r)  == [type |-> "evidence_record_registered", about |-> r]
RejectedEvent(q)    == [type |-> "research_intake_quarantined", about |-> q]
AcceptedEvent(rs)   == [type |-> "research_intake_accepted", about |-> rs]
DuplicateEvent(r)   == [type |-> "research_intake_duplicate_detected", about |-> r]

Log(event) == ledger' = Append(ledger, event)
OneEvent(event) == \E j \in DOMAIN ledger : \A k \in DOMAIN ledger :
                       ledger[k] = event <=> k = j

(* EvidenceRegister.validate(ledger) *)
RegisterValid ==
    /\ \A a, b \in DOMAIN register : Id(register[a]) = Id(register[b]) => a = b
    /\ \A n \in DOMAIN register : /\ RelatedTo(register[n]) \subseteq Ids
                                  /\ OneEvent(RegisteredEvent(register[n]))
    /\ \A j \in DOMAIN ledger : ledger[j].type = "evidence_record_registered" =>
           \E n \in DOMAIN register : register[n] = ledger[j].about

(* QuarantineRegister.validate(ledger) *)
QuarantineValid ==
    /\ \A n \in DOMAIN quarantine : /\ quarantine[n].sequence = n
                                    /\ OneEvent(RejectedEvent(quarantine[n]))
    /\ \A j \in DOMAIN ledger : ledger[j].type = "research_intake_quarantined" =>
           \E n \in DOMAIN quarantine : quarantine[n] = ledger[j].about

Papers == {n \in DOMAIN register : register[n].kind = "paper"}

PaperBytesRetained == \A n \in Papers : register[n].source.bytes \in objects

(* validate_intake_state; relationships are part of RegisterValid. *)
IntakeStateValid == RegisterValid /\ QuarantineValid /\ PaperBytesRetained

-----------------------------------------------------------------------------
(* An invocation.                                                          *)

NoJob == [source |-> CHOOSE s \in Sources : TRUE, stamp |-> 0, next |-> 1, number |-> 0]

At(p, label)   == pc[p] = label
Goto(p, label) == pc' = [pc EXCEPT ![p] = label]
Leave(p)       == Goto(p, "idle") /\ job' = [job EXCEPT ![p] = NoJob]

Source(p)  == job[p].source
Records(p) == Package(Source(p), job[p].stamp)
Current(p) == Records(p)[job[p].next]

Init ==
    /\ pc = [p \in Procs |-> "idle"] /\ job = [p \in Procs |-> NoJob]
    /\ register = <<>> /\ quarantine = <<>> /\ objects = {} /\ ledger = <<>>
    /\ invocations = 0 /\ crashes = 0 /\ overlapped = FALSE /\ raised = FALSE

Submit(p, s) ==
    /\ At(p, "idle") /\ invocations < MaxInvocations
    /\ invocations' = invocations + 1
    /\ job' = [job EXCEPT ![p] = [NoJob EXCEPT !.source = s, !.stamp = invocations + 1]]
    /\ overlapped' = (overlapped \/ \E q \in Procs : pc[q] # "idle")
    /\ Goto(p, "preflight")
    /\ UNCHANGED <<files, crashes, raised>>

(* The Paper registered first under a locator, if any. *)
PapersAt(locator) == {n \in Papers : register[n].key = locator}
OriginalPaper(locator) ==
    register[CHOOSE n \in PapersAt(locator) : \A k \in PapersAt(locator) : n <= k]

(* Papers with the bytes of s; its caller has found none under its locator. *)
MirrorsIgnored(s) == {}                                               \* fault
Mirrors(s) == {n \in Papers : register[n].source.bytes = s.bytes}

(* Records of s whose identity the register holds in another version. *)
Conflicts(s, t) == {n \in DOMAIN register : \E i \in DOMAIN Package(s, t) :
    Id(register[n]) = Id(Package(s, t)[i]) /\ register[n] # Package(s, t)[i]}

Verdict(s, t) ==
    CASE ~s.sound -> "number"
      [] s.sound /\ PapersAt(s.locator) # {} ->
             IF OriginalPaper(s.locator).source.bytes = s.bytes THEN "duplicate" ELSE "number"
      [] s.sound /\ PapersAt(s.locator) = {} ->
             IF Mirrors(s) # {} \/ Conflicts(s, t) # {} THEN "number" ELSE "persist"

(* The manifest's controls, then the duplicate rules against the records   *)
(* as they are at this moment.                                             *)
Preflight(p) ==
    /\ At(p, "preflight")
    /\ Goto(p, Verdict(Source(p), job[p].stamp))
    /\ UNCHANGED <<job, files, invocations, crashes, overlapped, raised>>

Duplicate(p) ==
    /\ At(p, "duplicate")
    /\ Log(DuplicateEvent(OriginalPaper(Source(p).locator)))
    /\ Leave(p)
    /\ UNCHANGED <<register, quarantine, objects, invocations, crashes, overlapped, raised>>

(* QuarantineRegister.append: the sequence number is read, the line is     *)
(* written, the event is logged.                                           *)
NextNumber == Len(quarantine) + 1

NumberRejection(p) ==
    /\ At(p, "number")
    /\ job' = [job EXCEPT ![p].number = NextNumber]
    /\ Goto(p, "reject")
    /\ UNCHANGED <<files, invocations, crashes, overlapped, raised>>

Rejection(p) == [sequence |-> job[p].number, source |-> Source(p), stamp |-> job[p].stamp]

Reject(p) ==
    /\ At(p, "reject")
    /\ quarantine' = Append(quarantine, Rejection(p))
    /\ Goto(p, "rejected")
    /\ UNCHANGED <<job, register, objects, ledger, invocations, crashes, overlapped, raised>>

RejectionUnlinked(p) ==                                               \* fault
    /\ At(p, "rejected")
    /\ Leave(p)
    /\ UNCHANGED <<files, invocations, crashes, overlapped, raised>>

LinkRejection(p) ==
    /\ At(p, "rejected")
    /\ Log(RejectedEvent(Rejection(p)))
    /\ Leave(p)
    /\ UNCHANGED <<register, quarantine, objects, invocations, crashes, overlapped, raised>>

(* _persist_object: a temporary file renamed into place. *)
NotRetained(bytes) == objects                                         \* fault
Retained(bytes) == objects \cup {bytes}

Persist(p) ==
    /\ At(p, "persist")
    /\ objects' = Retained(Source(p).bytes)
    /\ Goto(p, "check")
    /\ UNCHANGED <<job, register, quarantine, ledger, invocations, crashes, overlapped, raised>>

(* EvidenceRegister.append raises for a record whose relations are missing *)
(* or whose identity is registered in another version.                     *)
Matches(r) == {n \in DOMAIN register : Id(register[n]) = Id(r)}

RefusedUnrelated(r) == ~(RelatedTo(r) \subseteq Ids)                  \* fault
Refused(r) ==
    \/ ~(RelatedTo(r) \subseteq Ids)
    \/ \E n \in Matches(r) : (\A k \in Matches(r) : n <= k) /\ register[n] # r

Check(p) ==
    /\ At(p, "check")
    /\ IF Refused(Current(p)) THEN Leave(p)
       ELSE /\ Goto(p, IF Matches(Current(p)) = {} THEN "write" ELSE "link")
            /\ UNCHANGED job
    /\ UNCHANGED <<files, invocations, crashes, overlapped, raised>>

Write(p) ==
    /\ At(p, "write")
    /\ register' = Append(register, Current(p))
    /\ Goto(p, "link")
    /\ UNCHANGED <<job, quarantine, objects, ledger, invocations, crashes, overlapped, raised>>

LinkLastOnly(p) ==                                                    \* fault
    /\ At(p, "link")
    /\ IF job[p].next = Len(Records(p))
       THEN Log(RegisteredEvent(Current(p))) /\ Goto(p, "accept") /\ UNCHANGED job
       ELSE Goto(p, "check") /\ job' = [job EXCEPT ![p].next = @ + 1] /\ UNCHANGED ledger
    /\ UNCHANGED <<register, quarantine, objects, invocations, crashes, overlapped, raised>>

(* The record's event, unless the ledger has it; then the next record. *)
Link(p) ==
    /\ At(p, "link")
    /\ IF \E j \in DOMAIN ledger : ledger[j] = RegisteredEvent(Current(p))
       THEN UNCHANGED ledger ELSE Log(RegisteredEvent(Current(p)))
    /\ IF job[p].next = Len(Records(p))
       THEN Goto(p, "accept") /\ UNCHANGED job
       ELSE Goto(p, "check") /\ job' = [job EXCEPT ![p].next = @ + 1]
    /\ UNCHANGED <<register, quarantine, objects, invocations, crashes, overlapped, raised>>

Accept(p) ==
    /\ At(p, "accept")
    /\ Log(AcceptedEvent(Records(p)))
    /\ Goto(p, "reconcile")
    /\ UNCHANGED <<job, register, quarantine, objects, invocations, crashes, overlapped, raised>>

(* register.validate(ledger) changes no file: it decides whether ACCEPTED  *)
(* is returned or an exception raised.                                     *)
Reconcile(p) ==
    /\ At(p, "reconcile")
    /\ raised' = (raised \/ ~RegisterValid)
    /\ Leave(p)
    /\ UNCHANGED <<files, invocations, crashes, overlapped>>

(* The process dies, or a failed file access raises. *)
Crash(p) ==
    /\ pc[p] # "idle" /\ crashes < MaxCrashes
    /\ crashes' = crashes + 1
    /\ Leave(p)
    /\ UNCHANGED <<files, invocations, overlapped, raised>>

Next == \E p \in Procs :
    \/ \E s \in Sources : Submit(p, s)
    \/ Preflight(p) \/ Duplicate(p)
    \/ NumberRejection(p) \/ Reject(p) \/ LinkRejection(p)
    \/ Persist(p) \/ Check(p) \/ Write(p) \/ Link(p) \/ Accept(p) \/ Reconcile(p)
    \/ Crash(p)

Spec == Init /\ [][Next]_vars

-----------------------------------------------------------------------------
(* Properties.                                                             *)

Stamps     == 0..MaxInvocations
RecordType == [kind : {"author", "paper", "card"}, key : {s.author : s \in Sources} \cup
                  {s.locator : s \in Sources}, source : Sources, stamp : Stamps]
Rejections == [sequence : Nat \ {0}, source : Sources, stamp : Stamps]

TypeOK ==
    /\ pc \in [Procs -> Labels]
    /\ job \in [Procs -> [source : Sources, stamp : Stamps, next : 1..3, number : Nat]]
    /\ register \in Seq(RecordType) /\ quarantine \in Seq(Rejections)
    /\ objects \subseteq {s.bytes : s \in Sources}
    /\ ledger \in Seq([type : {"evidence_record_registered",
                               "research_intake_duplicate_detected"}, about : RecordType]
                      \cup [type : {"research_intake_quarantined"}, about : Rejections]
                      \cup [type : {"research_intake_accepted"}, about : Seq(RecordType)])
    /\ invocations \in Stamps /\ crashes \in Nat
    /\ overlapped \in BOOLEAN /\ raised \in BOOLEAN

Accepted == {ledger[j].about : j \in {k \in DOMAIN ledger :
                                 ledger[k].type = "research_intake_accepted"}}

(* An intake is logged as accepted only when every one of its records is   *)
(* in the register in exactly that version, each with one event, and its   *)
(* bytes are retained - also when other intakes of the same identities ran *)
(* at the same time or died half-way (intake.py 673-692, records.py        *)
(* 504-543).                                                               *)
AcceptedIsWhole ==
    \A records \in Accepted : \A i \in DOMAIN records :
        /\ \E n \in DOMAIN register : register[n] = records[i]
        /\ OneEvent(RegisteredEvent(records[i]))
        /\ records[i].source.bytes \in objects

(* Whatever dies when, a registered Paper has its bytes in the object      *)
(* store: they are stored before the first record is written (intake.py    *)
(* 673-679, validate_intake_state 753-765).                                *)
PapersRetained == PaperBytesRetained

UniqueIds == \A a, b \in DOMAIN register : Id(register[a]) = Id(register[b]) => a = b

(* "A canonical locator cannot identify different bytes, and identical     *)
(* source bytes cannot be counted as a second paper"                       *)
(* (config/research_intake_policy.json, duplicate_rule).                    *)
DuplicateRule == \A a, b \in Papers :
    (register[a].key = register[b].key) <=> (register[a].source.bytes = register[b].source.bytes)

(* As long as invocations do not overlap, the checks made against the      *)
(* records read at the start hold when the records are written: identities *)
(* stay unique and the duplicate rule holds, through crashes and retries   *)
(* (intake.py 496-538, 656-679).                                           *)
SerialCorpusUnique == ~overlapped => UniqueIds /\ DuplicateRule

(* When nobody died and no two invocations overlapped, `athena             *)
(* validate-intake` passes whenever nobody is at work (739-787).           *)
ReconcilesUnlessInterrupted ==
    ~overlapped /\ crashes = 0 /\ (\A p \in Procs : pc[p] = "idle") => IntakeStateValid

(* An intake whose acceptance was logged is also answered ACCEPTED, unless *)
(* some invocation died or two overlapped: only then can the final         *)
(* reconciliation meet a record without its event, of its own package or   *)
(* of another, and raise (intake.py 678-699, records.py 545-657).          *)
ConfirmedUnlessInterrupted == raised => overlapped \/ crashes > 0

(* "Exact resubmission is idempotent" and no "incomplete ... source" is    *)
(* permitted "to enter the research pipeline" (docs/RESEARCH_INTAKE.md): a  *)
(* source answered as a duplicate has been accepted, with all its records. *)
DuplicateWasAccepted ==
    \A j \in DOMAIN ledger : ledger[j].type = "research_intake_duplicate_detected" =>
        \E records \in Accepted : \E i \in DOMAIN records : records[i] = ledger[j].about

=============================================================================
