------------------------ MODULE ResearchIntakeProofs ------------------------
(***************************************************************************)
(* Intakes that overlap, die and are submitted again, for any number of     *)
(* processes, manifests and bounds: the types, that accepted means whole,  *)
(* that bytes are retained, and that intakes one at a time keep the corpus *)
(* free of duplicates and the files reconciled.                            *)
(***************************************************************************)
EXTENDS ResearchIntake, SequenceTheorems, InductionLemmas, TLAPS

JobTypes  == [source : Sources, stamp : Stamps, next : 1..3, number : Nat]
AllEvents == [type : {"evidence_record_registered",
                      "research_intake_duplicate_detected"}, about : RecordType]
             \cup [type : {"research_intake_quarantined"}, about : Rejections]
             \cup [type : {"research_intake_accepted"}, about : Seq(RecordType)]

(* What the types rest on besides: a duplicate has its original, and a     *)
(* rejection its number.                                                   *)
Typed ==
    /\ TypeOK
    /\ \A p \in Procs :
           /\ pc[p] = "duplicate" => PapersAt(Source(p).locator) # {}
           /\ pc[p] \in {"reject", "rejected"} => job[p].number # 0
           /\ pc[p] \in {"preflight", "persist"} => job[p].next = 1

-----------------------------------------------------------------------------
(* Records, packages and events.                                           *)

LEMMA PackageTyped ==
    ASSUME NEW s \in Sources, NEW t \in Stamps
    PROVE  /\ Package(s, t) \in Seq(RecordType) /\ Len(Package(s, t)) = 3
           /\ DOMAIN Package(s, t) = 1..3
           /\ \A i \in 1..3 : Package(s, t)[i] \in RecordType
           /\ Package(s, t)[1] = Record("author", s.author, s, t)
           /\ Package(s, t)[2] = Record("paper", s.locator, s, t)
           /\ Package(s, t)[3] = Record("card", s.locator, s, t)
<1>1. /\ Record("author", s.author, s, t) \in RecordType
      /\ Record("paper", s.locator, s, t) \in RecordType
      /\ Record("card", s.locator, s, t) \in RecordType
  BY DEF Record, RecordType
<1>2. QED
  BY <1>1 DEF Package

LEMMA TypesAre ==
    TypeOK <=>
        /\ pc \in [Procs -> Labels] /\ job \in [Procs -> JobTypes]
        /\ register \in Seq(RecordType) /\ quarantine \in Seq(Rejections)
        /\ objects \subseteq {s.bytes : s \in Sources} /\ ledger \in Seq(AllEvents)
        /\ invocations \in Stamps /\ crashes \in Nat /\ overlapped \in BOOLEAN
        /\ raised \in BOOLEAN
BY DEF TypeOK, JobTypes, AllEvents

Grows(s, t) == /\ DOMAIN s \subseteq DOMAIN t /\ Len(s) <= Len(t)
               /\ \A n \in DOMAIN s : t[n] = s[n]

LEMMA AppendGrows ==
    ASSUME NEW S, NEW s \in Seq(S), NEW x \in S
    PROVE  /\ Grows(s, s) /\ Grows(s, Append(s, x)) /\ Append(s, x) \in Seq(S)
           /\ Len(s) \in Nat /\ Len(Append(s, x)) = Len(s) + 1 /\ Append(s, x)[Len(s) + 1] = x
           /\ DOMAIN s = 1..Len(s) /\ DOMAIN Append(s, x) = 1..(Len(s) + 1)
<1>1. /\ Append(s, x) \in Seq(S) /\ Len(Append(s, x)) = Len(s) + 1
      /\ \A n \in 1..Len(s) : Append(s, x)[n] = s[n]
      /\ Append(s, x)[Len(s) + 1] = x
      /\ Len(s) \in Nat /\ DOMAIN s = 1..Len(s)
      /\ DOMAIN Append(s, x) = 1..Len(Append(s, x))
  BY AppendProperties, LenProperties
<1>2. QED
  BY <1>1 DEF Grows

LEMMA Packaged ==
    ASSUME NEW s \in Sources, NEW t \in Stamps, NEW i \in 1..3
    PROVE  /\ Package(s, t)[i].source = s /\ Package(s, t)[i].stamp = t
           /\ Package(s, t)[i].kind = "paper" <=> i = 2
           /\ i = 2 => Package(s, t)[i].key = s.locator
           /\ Package(s, t)[i].kind \in {"author", "paper", "card"}
<1> PICK r : r = Package(s, t)[i]
  OBVIOUS
<1>1. CASE i = 1
  <2>1. r = Record("author", s.author, s, t)
    BY <1>1, PackageTyped
  <2>2. QED
    BY <1>1, <2>1 DEF Record
<1>2. CASE i = 2
  <2>1. r = Record("paper", s.locator, s, t)
    BY <1>2, PackageTyped
  <2>2. QED
    BY <1>2, <2>1 DEF Record
<1>3. CASE i = 3
  <2>1. r = Record("card", s.locator, s, t)
    BY <1>3, PackageTyped
  <2>2. QED
    BY <1>3, <2>1 DEF Record
<1>4. QED
  BY <1>1, <1>2, <1>3

LEMMA CurrentIs ==
    ASSUME TypeOK, NEW p \in Procs
    PROVE  /\ job[p] \in JobTypes /\ Source(p) \in Sources
           /\ Records(p) = Package(job[p].source, job[p].stamp) /\ Source(p) = job[p].source
           /\ Records(p) \in Seq(RecordType) /\ Len(Records(p)) = 3
           /\ DOMAIN Records(p) = 1..3
           /\ \A i \in 1..3 : Records(p)[i] \in RecordType
           /\ Current(p) = Records(p)[job[p].next] /\ Current(p) \in RecordType
<1>1. job[p] \in JobTypes
  BY DEF TypeOK, JobTypes
<1>2. job[p].source \in Sources /\ job[p].stamp \in Stamps /\ job[p].next \in 1..3
  BY <1>1 DEF JobTypes
<1>3. QED
  BY <1>1, <1>2, PackageTyped DEF Source, Records, Current

LEMMA OriginalTyped ==
    ASSUME TypeOK, NEW locator, PapersAt(locator) # {}
    PROVE  OriginalPaper(locator) \in RecordType
<1>1. PapersAt(locator) \in SUBSET Nat /\ PapersAt(locator) \subseteq DOMAIN register
  BY DEF PapersAt, Papers, TypeOK
<1>2. \E n \in PapersAt(locator) : \A k \in PapersAt(locator) : n <= k
  BY <1>1, LeastNatural
<1> PICK first : first = CHOOSE n \in PapersAt(locator) : \A k \in PapersAt(locator) : n <= k
  OBVIOUS
<1>3. first \in DOMAIN register
  BY <1>1, <1>2
<1>4. register[first] \in RecordType
  BY <1>3, ElementOfSeq DEF TypeOK
<1>5. QED
  BY <1>4 DEF OriginalPaper

LEMMA EventsTyped ==
    /\ \A r \in RecordType : RegisteredEvent(r) \in AllEvents /\ DuplicateEvent(r) \in AllEvents
    /\ \A q \in Rejections : RejectedEvent(q) \in AllEvents
    /\ \A s \in Seq(RecordType) : AcceptedEvent(s) \in AllEvents
BY DEF RegisteredEvent, DuplicateEvent, RejectedEvent, AcceptedEvent, AllEvents

-----------------------------------------------------------------------------
(* Type correctness.                                                       *)

LEMMA TypeInit ==
    ASSUME Init
    PROVE  Typed
<1>1. NoJob \in JobTypes
  BY IntakeAssumption DEF NoJob, JobTypes, Stamps
<1>2. job \in [Procs -> JobTypes] /\ pc \in [Procs -> Labels]
  BY <1>1 DEF Init, Labels
<1>3. register \in Seq(RecordType) /\ quarantine \in Seq(Rejections) /\ ledger \in Seq(AllEvents)
  BY DEF Init
<1>4. TypeOK
  <2>1. /\ objects \subseteq {s.bytes : s \in Sources} /\ invocations \in Stamps
        /\ crashes \in Nat /\ overlapped \in BOOLEAN /\ raised \in BOOLEAN
    <3>1. MaxInvocations \in Nat
      BY IntakeAssumption
    <3>2. 0 \in Stamps
      BY <3>1 DEF Stamps
    <3>3. QED
      BY <3>2 DEF Init
  <2>2. /\ pc \in [Procs -> Labels] /\ job \in [Procs -> JobTypes]
        /\ register \in Seq(RecordType) /\ quarantine \in Seq(Rejections)
        /\ objects \subseteq {s.bytes : s \in Sources} /\ ledger \in Seq(AllEvents)
        /\ invocations \in Stamps /\ crashes \in Nat /\ overlapped \in BOOLEAN
        /\ raised \in BOOLEAN
    BY <1>2, <1>3, <2>1
  <2>3. QED
    BY <2>2, TypesAre, PTL
<1>5. QED
  BY <1>4 DEF Init, Typed

(* A step of one process: its label and its job, and what it writes.       *)
Stepped(p, to, j) == pc' = [pc EXCEPT ![p] = to] /\ job' = [job EXCEPT ![p] = j]

Extended(s, t, S) == t = s \/ \E x \in S : t = Append(s, x)

Writes == /\ Extended(register, register', RecordType)
          /\ Extended(quarantine, quarantine', Rejections)
          /\ Extended(ledger, ledger', AllEvents)
          /\ objects' \subseteq {s.bytes : s \in Sources}
          /\ invocations' \in Stamps /\ crashes' \in Nat /\ overlapped' \in BOOLEAN
          /\ raised' \in BOOLEAN

LEMMA ExtendedTyped ==
    ASSUME NEW S, NEW s \in Seq(S), NEW t, Extended(s, t, S)
    PROVE  t \in Seq(S) /\ Grows(s, t)
<1>1. CASE t = s
  BY <1>1 DEF Grows
<1>2. CASE \E x \in S : t = Append(s, x)
  BY <1>2, AppendGrows
<1>3. QED
  BY <1>1, <1>2 DEF Extended

LEMMA TypeOfStep ==
    ASSUME Typed, Writes, NEW p \in Procs, NEW to \in Labels, NEW j \in JobTypes, Stepped(p, to, j),
           to = "duplicate" => PapersAt(j.source.locator) # {},
           to \in {"reject", "rejected"} => j.number # 0,
           to \in {"preflight", "persist"} => j.next = 1
    PROVE  Typed'
<1> USE DEF Stepped
<1>1. /\ pc \in [Procs -> Labels] /\ job \in [Procs -> JobTypes]
      /\ register \in Seq(RecordType) /\ quarantine \in Seq(Rejections) /\ ledger \in Seq(AllEvents)
  BY TypesAre DEF Typed
<1>2. /\ pc' \in [Procs -> Labels] /\ job' \in [Procs -> JobTypes]
      /\ register' \in Seq(RecordType) /\ Grows(register, register')
      /\ quarantine' \in Seq(Rejections) /\ ledger' \in Seq(AllEvents)
  BY <1>1, ExtendedTyped DEF Writes
<1>3. TypeOK'
  <2>1. (/\ pc \in [Procs -> Labels] /\ job \in [Procs -> JobTypes]
         /\ register \in Seq(RecordType) /\ quarantine \in Seq(Rejections)
         /\ objects \subseteq {s.bytes : s \in Sources} /\ ledger \in Seq(AllEvents)
         /\ invocations \in Stamps /\ crashes \in Nat /\ overlapped \in BOOLEAN
         /\ raised \in BOOLEAN)'
    BY <1>2 DEF Writes
  <2>2. QED
    BY <2>1, TypesAre, PTL
<1>4. ASSUME NEW locator, PapersAt(locator) # {} PROVE PapersAt(locator)' # {}
  BY <1>2, <1>4 DEF PapersAt, Papers, Grows
<1>5. ASSUME NEW q \in Procs
      PROVE  (/\ pc[q] = "duplicate" => PapersAt(Source(q).locator) # {}
              /\ pc[q] \in {"reject", "rejected"} => job[q].number # 0
              /\ pc[q] \in {"preflight", "persist"} => job[q].next = 1)'
  <2>1. CASE q = p
    <3>1. pc'[q] = to /\ job'[q] = j
      BY <1>1, <2>1
    <3>2. QED
      BY <1>4, <3>1 DEF Source
  <2>2. CASE q # p
    <3>1. pc'[q] = pc[q] /\ job'[q] = job[q]
      BY <1>1, <2>2
    <3>2. QED
      BY <1>4, <3>1 DEF Typed, Source
  <2>3. QED
    BY <2>1, <2>2
<1>6. QED
  BY <1>3, <1>5 DEF Typed, Source

LEMMA NoJobTyped == NoJob \in JobTypes /\ NoJob.next = 1
BY IntakeAssumption DEF NoJob, JobTypes, Stamps

LEMMA TypeStep ==
    ASSUME Typed, [Next]_vars
    PROVE  Typed'
<1> USE DEF At, Goto, Leave, files, Stepped, Extended
<1>1. /\ objects \subseteq {s.bytes : s \in Sources} /\ invocations \in Stamps
      /\ crashes \in Nat /\ overlapped \in BOOLEAN /\ raised \in BOOLEAN
      /\ register \in Seq(RecordType)
      /\ quarantine \in Seq(Rejections) /\ ledger \in Seq(AllEvents)
  BY TypesAre DEF Typed
<1>2. ASSUME NEW p \in Procs
      PROVE  /\ job[p] \in JobTypes /\ job = [job EXCEPT ![p] = job[p]] /\ Current(p) \in RecordType
             /\ Records(p) \in Seq(RecordType) /\ Source(p) = job[p].source /\ TypeOK
             /\ Source(p) \in Sources /\ DOMAIN job = Procs
  <2>1. job \in [Procs -> JobTypes]
    BY TypesAre DEF Typed
  <2>2. job = [job EXCEPT ![p] = job[p]] /\ DOMAIN job = Procs
    BY <2>1
  <2>3. QED
    BY <2>2, CurrentIs DEF Typed
<1>3. {"idle", "preflight", "duplicate", "number", "reject", "rejected", "persist", "check",
       "write", "link", "accept", "reconcile"} \subseteq Labels
  BY DEF Labels
<1>4. ASSUME NEW p \in Procs, NEW s \in Sources, Submit(p, s) PROVE Typed'
  <2> DEFINE j == [NoJob EXCEPT !.source = s, !.stamp = invocations + 1]
  <2>1. invocations + 1 \in Stamps
    BY <1>1, <1>4, IntakeAssumption DEF Submit, Stamps
  <2>2. j \in JobTypes /\ j.next = 1
    BY <2>1, NoJobTyped DEF JobTypes
  <2>3. Stepped(p, "preflight", j)
    BY <1>4 DEF Submit
  <2>4. Writes
    BY <1>1, <1>4, <2>1 DEF Submit, Writes
  <2> HIDE DEF j, Stepped
  <2>5. QED
    BY <1>3, <2>2, <2>3, <2>4, TypeOfStep
<1>5. ASSUME NEW p \in Procs, Preflight(p) PROVE Typed'
  <2> DEFINE to == Verdict(Source(p), job[p].stamp)
  <2>1. /\ to \in {"number", "duplicate", "persist"}
        /\ to = "duplicate" => PapersAt(Source(p).locator) # {}
    BY <1>2, IntakeAssumption DEF Verdict
  <2> HIDE DEF to
  <2>2. Stepped(p, to, job[p]) /\ job[p].next = 1
    BY <1>2, <1>5 DEF Preflight, to, Typed
  <2>3. Writes
    BY <1>1, <1>5 DEF Preflight, Writes
  <2> HIDE DEF Stepped
  <2>4. QED
    BY <1>2, <1>3, <2>1, <2>2, <2>3, TypeOfStep
<1>6. ASSUME NEW p \in Procs, Stepped(p, "idle", NoJob), Writes PROVE Typed'
  <2> HIDE DEF Stepped
  <2>1. QED
    BY <1>3, <1>6, NoJobTyped, TypeOfStep
<1>7. ASSUME NEW p \in Procs,
             NEW to \in Labels \ {"preflight", "persist", "duplicate", "reject", "rejected"},
             Stepped(p, to, job[p]), Writes
      PROVE  Typed'
  <2> HIDE DEF Stepped
  <2>1. QED
    BY <1>2, <1>7, TypeOfStep
<1>8. ASSUME NEW p \in Procs, Duplicate(p) PROVE Typed'
  <2>1. DuplicateEvent(OriginalPaper(Source(p).locator)) \in AllEvents
    BY <1>2, <1>8, OriginalTyped, EventsTyped DEF Duplicate, Typed
  <2>2. Writes /\ Stepped(p, "idle", NoJob)
    BY <1>1, <1>8, <2>1 DEF Duplicate, Writes, Log
  <2>3. QED
    BY <1>6, <2>2
<1>9. ASSUME NEW p \in Procs, NumberRejection(p) PROVE Typed'
  <2>1. NextNumber \in Nat \ {0}
    BY <1>1, LenProperties DEF NextNumber
  <2> DEFINE j == [job[p] EXCEPT !.number = NextNumber]
  <2>2. j \in JobTypes /\ j.number # 0
    BY <1>2, <2>1 DEF JobTypes
  <2>3. Stepped(p, "reject", j) /\ Writes
    BY <1>1, <1>2, <1>9 DEF NumberRejection, Writes
  <2> HIDE DEF j, Stepped
  <2>4. QED
    BY <1>3, <2>2, <2>3, TypeOfStep
<1>10. ASSUME NEW p \in Procs, pc[p] \in {"reject", "rejected"}
       PROVE  Rejection(p) \in Rejections /\ job[p].number # 0
  BY <1>2, <1>10 DEF Rejection, Rejections, Typed, JobTypes
<1>11. ASSUME NEW p \in Procs, Reject(p) PROVE Typed'
  <2>1. Writes /\ Stepped(p, "rejected", job[p])
    BY <1>1, <1>2, <1>10, <1>11 DEF Reject, Writes
  <2>2. job[p].number # 0
    BY <1>10, <1>11 DEF Reject
  <2> HIDE DEF Stepped
  <2>3. QED
    BY <1>2, <1>3, <2>1, <2>2, TypeOfStep
<1>12. ASSUME NEW p \in Procs, LinkRejection(p) PROVE Typed'
  <2>1. RejectedEvent(Rejection(p)) \in AllEvents
    BY <1>10, <1>12, EventsTyped DEF LinkRejection
  <2>2. Writes /\ Stepped(p, "idle", NoJob)
    BY <1>1, <1>12, <2>1 DEF LinkRejection, Writes, Log
  <2>3. QED
    BY <1>6, <2>2
<1>13. ASSUME NEW p \in Procs, Persist(p) PROVE Typed'
  <2>1. Writes /\ Stepped(p, "check", job[p])
    BY <1>1, <1>2, <1>13 DEF Persist, Retained, Writes
  <2>2. QED
    BY <1>3, <1>7, <2>1
<1>14. ASSUME NEW p \in Procs, Check(p) PROVE Typed'
  <2>1. Writes
    BY <1>1, <1>14 DEF Check, Writes
  <2>2. Stepped(p, "idle", NoJob) \/ Stepped(p, "write", job[p]) \/ Stepped(p, "link", job[p])
    BY <1>2, <1>14 DEF Check
  <2>3. QED
    BY <1>3, <1>6, <1>7, <2>1, <2>2
<1>15. ASSUME NEW p \in Procs, Write(p) PROVE Typed'
  <2>1. Writes /\ Stepped(p, "link", job[p])
    BY <1>1, <1>2, <1>15 DEF Write, Writes
  <2>2. QED
    BY <1>3, <1>7, <2>1
<1>16. ASSUME NEW p \in Procs, Link(p) PROVE Typed'
  <2>1. ledger' = ledger \/ ledger' = Append(ledger, RegisteredEvent(Current(p)))
    BY <1>16 DEF Link, Log
  <2>2. Writes
    BY <1>1, <1>2, <1>16, <2>1, EventsTyped DEF Link, Writes
  <2> DEFINE j == [job[p] EXCEPT !.next = @ + 1]
  <2>3. CASE job[p].next = Len(Records(p))
    <3>1. Stepped(p, "accept", job[p])
      BY <1>2, <1>16, <2>3 DEF Link
    <3>2. QED
      BY <1>3, <1>7, <2>2, <3>1
  <2>4. CASE job[p].next # Len(Records(p))
    <3>1. job[p].next # 3
      BY <1>2, <2>4, CurrentIs
    <3>2. j \in JobTypes
      BY <1>2, <3>1 DEF JobTypes
    <3>3. Stepped(p, "check", j)
      BY <1>2, <1>16, <2>4 DEF Link
    <3> HIDE DEF j, Stepped
    <3>4. QED
      BY <1>3, <2>2, <3>2, <3>3, TypeOfStep
  <2>5. QED
    BY <2>3, <2>4
<1>17. ASSUME NEW p \in Procs, Accept(p) PROVE Typed'
  <2>1. AcceptedEvent(Records(p)) \in AllEvents
    BY <1>2, EventsTyped
  <2>2. Writes /\ Stepped(p, "reconcile", job[p])
    BY <1>1, <1>2, <1>17, <2>1 DEF Accept, Writes, Log
  <2>3. QED
    BY <1>3, <1>7, <2>2
<1>18. ASSUME NEW p \in Procs, Reconcile(p) PROVE Typed'
  <2>1. Writes /\ Stepped(p, "idle", NoJob)
    BY <1>1, <1>18 DEF Reconcile, Writes
  <2>2. QED
    BY <1>6, <2>1
<1>19. ASSUME NEW p \in Procs, Crash(p) PROVE Typed'
  <2>1. Writes /\ Stepped(p, "idle", NoJob)
    BY <1>1, <1>19 DEF Crash, Writes
  <2>2. QED
    BY <1>6, <2>1
<1>20. CASE UNCHANGED vars
  BY <1>20 DEF vars, Typed, TypeOK, PapersAt, Papers, Source
<1>21. QED
  BY <1>4, <1>5, <1>8, <1>9, <1>11, <1>12, <1>13, <1>14, <1>15, <1>16, <1>17, <1>18, <1>19, <1>20
  DEF Next

LEMMA TypedInvariant == Spec => []Typed
BY TypeInit, TypeStep, PTL DEF Spec

(* TypeOK: intakes that overlap, die and are submitted again keep every     *)
(* file and every process well-typed.                                      *)
THEOREM IntakeTypes == Spec => []TypeOK
<1>1. Typed => TypeOK
  BY DEF Typed
<1>2. QED
  BY <1>1, TypedInvariant, PTL

-----------------------------------------------------------------------------
(* The register, the ledger and the object store only grow.                *)

FilesGrow == /\ Grows(register, register') /\ Grows(quarantine, quarantine')
             /\ Grows(ledger, ledger') /\ objects \subseteq objects'

LEMMA FilesOnlyGrow ==
    ASSUME Typed, [Next]_vars
    PROVE  FilesGrow
<1> USE DEF files, Extended
<1>1. /\ register \in Seq(RecordType) /\ quarantine \in Seq(Rejections) /\ ledger \in Seq(AllEvents)
  BY TypesAre DEF Typed
<1>2. ASSUME Extended(register, register', RecordType), Extended(quarantine, quarantine', Rejections),
             Extended(ledger, ledger', AllEvents), objects \subseteq objects'
      PROVE  FilesGrow
  <2> HIDE DEF Extended
  <2>1. QED
    BY <1>1, <1>2, ExtendedTyped DEF FilesGrow
<1>3. ASSUME NEW p \in Procs
      PROVE  Current(p) \in RecordType /\ Records(p) \in Seq(RecordType) /\ job[p] \in JobTypes
  BY CurrentIs DEF Typed
<1>4. CASE \E p \in Procs : \/ (\E s \in Sources : Submit(p, s)) \/ Preflight(p)
                            \/ NumberRejection(p) \/ Check(p) \/ Reconcile(p) \/ Crash(p)
  BY <1>2, <1>4 DEF Submit, Preflight, NumberRejection, Check, Reconcile, Crash
<1>5. ASSUME NEW p \in Procs, Duplicate(p) PROVE FilesGrow
  <2>1. DuplicateEvent(OriginalPaper(Source(p).locator)) \in AllEvents
    BY <1>5, OriginalTyped, EventsTyped DEF Duplicate, Typed, At
  <2>2. QED
    BY <1>2, <1>5, <2>1 DEF Duplicate, Log
<1>6. ASSUME NEW p \in Procs, pc[p] \in {"reject", "rejected"} PROVE Rejection(p) \in Rejections
  BY <1>3, <1>6 DEF Rejection, Rejections, Typed, JobTypes, Source
<1>7. ASSUME NEW p \in Procs, Reject(p) PROVE FilesGrow
  BY <1>2, <1>6, <1>7 DEF Reject, At
<1>8. ASSUME NEW p \in Procs, LinkRejection(p) PROVE FilesGrow
  <2>1. RejectedEvent(Rejection(p)) \in AllEvents
    BY <1>6, <1>8, EventsTyped DEF LinkRejection, At
  <2>2. QED
    BY <1>2, <1>8, <2>1 DEF LinkRejection, Log
<1>9. ASSUME NEW p \in Procs, Persist(p) \/ Write(p) PROVE FilesGrow
  BY <1>2, <1>3, <1>9 DEF Persist, Retained, Write
<1>10. ASSUME NEW p \in Procs, Link(p) PROVE FilesGrow
  <2>1. RegisteredEvent(Current(p)) \in AllEvents
    BY <1>3, EventsTyped
  <2>2. QED
    BY <1>2, <1>10, <2>1 DEF Link, Log
<1>11. ASSUME NEW p \in Procs, Accept(p) PROVE FilesGrow
  <2>1. AcceptedEvent(Records(p)) \in AllEvents
    BY <1>3, EventsTyped
  <2>2. QED
    BY <1>2, <1>11, <2>1 DEF Accept, Log
<1>12. CASE UNCHANGED vars
  BY <1>2, <1>12 DEF vars
<1>13. QED
  BY <1>4, <1>5, <1>7, <1>8, <1>9, <1>10, <1>11, <1>12 DEF Next

-----------------------------------------------------------------------------
(* What is in the files - the register R, the ledger L and the retained    *)
(* bytes O - and what an intake at work has put there.                     *)

HasIn(R, r)      == \E n \in DOMAIN R : R[n] = r
LinkedIn(L, r)   == \E j \in DOMAIN L : L[j] = RegisteredEvent(r)
KeptIn(R, L, r)  == HasIn(R, r) /\ LinkedIn(L, r)
IdsOf(R)         == {Id(R[n]) : n \in DOMAIN R}
WholeIn(R, L, O, rs) == \A i \in DOMAIN rs : KeptIn(R, L, rs[i]) /\ rs[i].source.bytes \in O

Registration(e) == e.type = "evidence_record_registered"
Acceptance(e)   == e.type = "research_intake_accepted"

RecordSound(R, O, r) == r.source.bytes \in O /\ RelatedTo(r) \subseteq IdsOf(R)

EventSound(R, L, O, e) == /\ Registration(e) => HasIn(R, e.about)
                          /\ Acceptance(e) => WholeIn(R, L, O, e.about)

(* Every record has its bytes and its relations, every event its record,   *)
(* no record two events, and what was accepted is whole.                   *)
Corpus(R, L, O) ==
    /\ \A n \in DOMAIN R : RecordSound(R, O, R[n])
    /\ \A j, k \in DOMAIN L : Registration(L[j]) /\ L[j] = L[k] => j = k
    /\ \A j \in DOMAIN L : EventSound(R, L, O, L[j])

Progress(R, L, O, label, j) ==
    LET rs == Package(j.source, j.stamp)
    IN  /\ label \in {"check", "write", "link", "accept", "reconcile"} =>
               /\ j.source.bytes \in O
               /\ \A i \in 1..3 : i < j.next => KeptIn(R, L, rs[i])
        /\ label = "write" => RelatedTo(rs[j.next]) \subseteq IdsOf(R)
        /\ label = "link" => HasIn(R, rs[j.next])
        /\ label \in {"accept", "reconcile"} => \A i \in 1..3 : KeptIn(R, L, rs[i])

EvidenceInv == /\ Corpus(register, ledger, objects)
               /\ \A p \in Procs : Progress(register, ledger, objects, pc[p], job[p])

LEMMA Lasting ==
    ASSUME NEW R, NEW R2, NEW L, NEW L2, NEW O, NEW O2,
           Grows(R, R2), Grows(L, L2), O \subseteq O2
    PROVE  /\ \A r : HasIn(R, r) => HasIn(R2, r)
           /\ \A r : LinkedIn(L, r) => LinkedIn(L2, r)
           /\ \A r : KeptIn(R, L, r) => KeptIn(R2, L2, r)
           /\ IdsOf(R) \subseteq IdsOf(R2)
           /\ \A r : RecordSound(R, O, r) => RecordSound(R2, O2, r)
           /\ \A e : EventSound(R, L, O, e) => EventSound(R2, L2, O2, e)
           /\ \A label, j : Progress(R, L, O, label, j) => Progress(R2, L2, O2, label, j)
<1>1. /\ \A r : HasIn(R, r) => HasIn(R2, r)
      /\ \A r : LinkedIn(L, r) => LinkedIn(L2, r)
  BY DEF Grows, HasIn, LinkedIn
<1>2. \A r : KeptIn(R, L, r) => KeptIn(R2, L2, r)
  BY <1>1 DEF KeptIn
<1>3. IdsOf(R) \subseteq IdsOf(R2)
  BY DEF Grows, IdsOf
<1>4. \A r : RecordSound(R, O, r) => RecordSound(R2, O2, r)
  BY <1>3 DEF RecordSound
<1>5. \A e : EventSound(R, L, O, e) => EventSound(R2, L2, O2, e)
  BY <1>1, <1>2 DEF EventSound, WholeIn
<1>6. \A label, j : Progress(R, L, O, label, j) => Progress(R2, L2, O2, label, j)
  BY <1>1, <1>2, <1>3 DEF Progress
<1>7. QED
  BY <1>1, <1>2, <1>3, <1>4, <1>5, <1>6

LEMMA CorpusWithRecord ==
    ASSUME NEW S, NEW R \in Seq(S), NEW r \in S, NEW L, NEW O, Grows(L, L),
           Corpus(R, L, O), RecordSound(R, O, r)
    PROVE  Corpus(Append(R, r), L, O) /\ HasIn(Append(R, r), r)
<1> PICK R2 : R2 = Append(R, r)
  OBVIOUS
<1>1. /\ Grows(R, R2) /\ Len(R) \in Nat /\ R2[Len(R) + 1] = r
      /\ DOMAIN R = 1..Len(R) /\ DOMAIN R2 = 1..(Len(R) + 1)
  BY AppendGrows
<1>2. /\ \A q : RecordSound(R, O, q) => RecordSound(R2, O, q)
      /\ \A e : EventSound(R, L, O, e) => EventSound(R2, L, O, e)
  BY <1>1, Lasting
<1>3. ASSUME NEW n \in DOMAIN R2 PROVE RecordSound(R2, O, R2[n])
  <2>1. CASE n \in DOMAIN R
    BY <1>1, <1>2, <2>1 DEF Corpus, Grows
  <2>2. CASE n = Len(R) + 1
    BY <1>1, <1>2, <2>2
  <2>3. QED
    BY <1>1, <2>1, <2>2
<1>4. HasIn(R2, r)
  BY <1>1 DEF HasIn
<1>5. Corpus(R2, L, O)
  BY <1>2, <1>3 DEF Corpus
<1>6. QED
  BY <1>4, <1>5

LEMMA CorpusWithEvent ==
    ASSUME NEW S, NEW L \in Seq(S), NEW e \in S, NEW R, NEW O, Grows(R, R),
           Corpus(R, L, O), EventSound(R, L, O, e),
           Registration(e) => \A j \in DOMAIN L : L[j] # e
    PROVE  Corpus(R, Append(L, e), O)
<1> PICK L2 : L2 = Append(L, e)
  OBVIOUS
<1>1. /\ Grows(L, L2) /\ Len(L) \in Nat /\ L2[Len(L) + 1] = e
      /\ DOMAIN L = 1..Len(L) /\ DOMAIN L2 = 1..(Len(L) + 1)
  BY AppendGrows
<1>2. \A f : EventSound(R, L, O, f) => EventSound(R, L2, O, f)
  BY <1>1, Lasting
<1>3. \A j \in DOMAIN L2 : (j \in DOMAIN L /\ L2[j] = L[j]) \/ (j = Len(L) + 1 /\ L2[j] = e)
  BY <1>1 DEF Grows
<1>4. ASSUME NEW j \in DOMAIN L2 PROVE EventSound(R, L2, O, L2[j])
  BY <1>2, <1>3 DEF Corpus
<1>5. ASSUME NEW j \in DOMAIN L2, NEW k \in DOMAIN L2, Registration(L2[j]), L2[j] = L2[k]
      PROVE  j = k
  <2>1. CASE j \in DOMAIN L /\ k \in DOMAIN L
    BY <1>3, <1>5, <2>1, <1>1 DEF Corpus, Grows
  <2>2. CASE j \notin DOMAIN L \/ k \notin DOMAIN L
    BY <1>3, <1>5, <2>2
  <2>3. QED
    BY <2>1, <2>2
<1>6. QED
  BY <1>4, <1>5 DEF Corpus

LEMMA CorpusWithObjects ==
    ASSUME NEW R, NEW L, NEW O, NEW O2, Grows(R, R), Grows(L, L), O \subseteq O2, Corpus(R, L, O)
    PROVE  Corpus(R, L, O2)
<1>1. /\ \A q : RecordSound(R, O, q) => RecordSound(R, O2, q)
      /\ \A e : EventSound(R, L, O, e) => EventSound(R, L, O2, e)
  BY Lasting
<1>2. QED
  BY <1>1 DEF Corpus

(* A check that finds its record's identity and does not refuse has found   *)
(* the record itself.                                                      *)
LEMMA FoundItself ==
    ASSUME Typed, NEW r, Matches(r) # {}, ~Refused(r)
    PROVE  HasIn(register, r)
<1>1. Matches(r) \in SUBSET Nat /\ Matches(r) \subseteq DOMAIN register
  BY TypesAre DEF Matches, Typed
<1>2. PICK n \in Matches(r) : \A k \in Matches(r) : n <= k
  BY <1>1, LeastNatural
<1>3. QED
  BY <1>1, <1>2 DEF Refused, HasIn

LEMMA EvidenceOfStep ==
    ASSUME Typed, EvidenceInv, FilesGrow, NEW p \in Procs, NEW to, NEW j, Stepped(p, to, j),
           Corpus(register', ledger', objects'),
           Progress(register', ledger', objects', to, j)
    PROVE  EvidenceInv'
<1>1. pc \in [Procs -> Labels] /\ job \in [Procs -> JobTypes]
  BY TypesAre DEF Typed
<1>2. ASSUME NEW q \in Procs PROVE Progress(register', ledger', objects', pc'[q], job'[q])
  <2>1. CASE q = p
    <3>1. pc'[q] = to /\ job'[q] = j
      BY <1>1, <2>1 DEF Stepped
    <3>2. QED
      BY <3>1
  <2>2. CASE q # p
    <3>1. pc'[q] = pc[q] /\ job'[q] = job[q]
      BY <1>1, <2>2 DEF Stepped
    <3>2. Progress(register, ledger, objects, pc[q], job[q])
      BY DEF EvidenceInv
    <3>3. Progress(register', ledger', objects', pc[q], job[q])
      BY <3>2, Lasting DEF FilesGrow
    <3>4. QED
      BY <3>1, <3>3
  <2>3. QED
    BY <2>1, <2>2
<1>3. QED
  BY <1>2 DEF EvidenceInv

AtRest == Labels \ {"check", "write", "link", "accept", "reconcile"}

LEMMA RestingProgress ==
    ASSUME NEW to \in AtRest, NEW R, NEW L, NEW O, NEW j
    PROVE  Progress(R, L, O, to, j)
BY DEF AtRest, Progress

LEMMA EvidenceInit ==
    ASSUME Init
    PROVE  EvidenceInv
<1>1. \A p \in Procs : pc[p] = "idle"
  BY DEF Init
<1>2. \A p \in Procs : Progress(register, ledger, objects, pc[p], job[p])
  BY <1>1, RestingProgress DEF AtRest, Labels
<1>3. Corpus(register, ledger, objects)
  BY DEF Init, Corpus
<1>4. QED
  BY <1>2, <1>3 DEF EvidenceInv

LEMMA EvidenceStep ==
    ASSUME Typed, EvidenceInv, [Next]_vars
    PROVE  EvidenceInv'
<1>1. FilesGrow
  BY FilesOnlyGrow
<1>2. /\ register \in Seq(RecordType) /\ ledger \in Seq(AllEvents)
      /\ Grows(register, register) /\ Grows(ledger, ledger)
  BY TypesAre DEF Typed, Grows
<1>3. Corpus(register, ledger, objects)
  BY DEF EvidenceInv
<1>4. {"idle", "preflight", "duplicate", "number", "reject", "rejected", "persist"} \subseteq AtRest
  BY DEF AtRest, Labels
<1>5. ASSUME NEW p \in Procs
      PROVE  /\ job[p] \in JobTypes /\ job = [job EXCEPT ![p] = job[p]]
             /\ Progress(register, ledger, objects, pc[p], job[p])
             /\ Source(p) = job[p].source /\ Records(p) = Package(job[p].source, job[p].stamp)
             /\ Current(p) = Records(p)[job[p].next] /\ Current(p) \in RecordType
             /\ Records(p) \in Seq(RecordType) /\ DOMAIN Records(p) = 1..3 /\ Len(Records(p)) = 3
             /\ job[p].source \in Sources /\ job[p].stamp \in Stamps /\ job[p].next \in 1..3
  <2>1. job \in [Procs -> JobTypes]
    BY TypesAre DEF Typed
  <2>2. job = [job EXCEPT ![p] = job[p]] /\ job[p] \in JobTypes
    BY <2>1
  <2>3. job[p].source \in Sources /\ job[p].stamp \in Stamps /\ job[p].next \in 1..3
    BY <2>2 DEF JobTypes
  <2>4. QED
    BY <2>2, <2>3, CurrentIs DEF Typed, EvidenceInv
<1>6. ASSUME NEW p \in Procs, NEW to \in AtRest, NEW j, Stepped(p, to, j),
             Corpus(register', ledger', objects')
      PROVE  EvidenceInv'
  BY <1>1, <1>6, RestingProgress, EvidenceOfStep
<1>7. ASSUME UNCHANGED <<register, ledger, objects>>
      PROVE  Corpus(register', ledger', objects')
  BY <1>3, <1>7
<1>8. ASSUME NEW p \in Procs, \E s \in Sources : Submit(p, s) PROVE EvidenceInv'
  <2>1. PICK s \in Sources : Submit(p, s)
    BY <1>8
  <2>2. /\ Stepped(p, "preflight", [NoJob EXCEPT !.source = s, !.stamp = invocations + 1])
        /\ UNCHANGED <<register, ledger, objects>>
    BY <2>1 DEF Submit, Stepped, Goto, files
  <2>3. QED
    BY <1>4, <1>6, <1>7, <2>2
<1>9. ASSUME NEW p \in Procs, Preflight(p) PROVE EvidenceInv'
  <2> DEFINE to == Verdict(Source(p), job[p].stamp)
  <2>1. to \in {"number", "duplicate", "persist"}
    BY <1>5, IntakeAssumption DEF Verdict
  <2> HIDE DEF to
  <2>2. Stepped(p, to, job[p]) /\ UNCHANGED <<register, ledger, objects>>
    BY <1>5, <1>9 DEF Preflight, Stepped, Goto, files, to
  <2>3. QED
    BY <1>4, <1>6, <1>7, <2>1, <2>2
<1>10. ASSUME NEW p \in Procs, NumberRejection(p) PROVE EvidenceInv'
  <2>1. /\ Stepped(p, "reject", [job[p] EXCEPT !.number = NextNumber])
        /\ UNCHANGED <<register, ledger, objects>>
    BY <1>10 DEF NumberRejection, Stepped, Goto, files
  <2>2. QED
    BY <1>4, <1>6, <1>7, <2>1
<1>11. ASSUME NEW p \in Procs, Reject(p) PROVE EvidenceInv'
  <2>1. Stepped(p, "rejected", job[p]) /\ UNCHANGED <<register, ledger, objects>>
    BY <1>5, <1>11 DEF Reject, Stepped, Goto
  <2>2. QED
    BY <1>4, <1>6, <1>7, <2>1
<1>12. ASSUME NEW p \in Procs, NEW e \in AllEvents, ~Registration(e), ~Acceptance(e), Log(e),
              Leave(p), UNCHANGED <<register, objects>>
       PROVE  EvidenceInv'
  <2>1. EventSound(register, ledger, objects, e)
    BY <1>12 DEF EventSound
  <2>2. Corpus(register, Append(ledger, e), objects)
    BY <1>2, <1>3, <1>12, <2>1, CorpusWithEvent
  <2>3. Corpus(register', ledger', objects')
    BY <1>12, <2>2 DEF Log
  <2>4. Stepped(p, "idle", NoJob)
    BY <1>12 DEF Leave, Goto, Stepped
  <2>5. QED
    BY <1>4, <1>6, <2>3, <2>4
<1>13. ASSUME NEW p \in Procs, Duplicate(p) PROVE EvidenceInv'
  <2> PICK e : e = DuplicateEvent(OriginalPaper(Source(p).locator))
    OBVIOUS
  <2>1. e \in AllEvents /\ e.type = "research_intake_duplicate_detected"
    BY <1>13, OriginalTyped, EventsTyped DEF Duplicate, Typed, At, DuplicateEvent
  <2>2. QED
    BY <1>12, <1>13, <2>1 DEF Duplicate, Registration, Acceptance
<1>14. ASSUME NEW p \in Procs, LinkRejection(p) PROVE EvidenceInv'
  <2> PICK e : e = RejectedEvent(Rejection(p))
    OBVIOUS
  <2>1. Rejection(p) \in Rejections
    BY <1>5, <1>14 DEF LinkRejection, At, Rejection, Rejections, Typed, JobTypes
  <2>2. e \in AllEvents /\ e.type = "research_intake_quarantined"
    BY <2>1, EventsTyped DEF RejectedEvent
  <2>3. QED
    BY <1>12, <1>14, <2>2 DEF LinkRejection, Registration, Acceptance
<1>15. ASSUME NEW p \in Procs, Reconcile(p) \/ Crash(p) PROVE EvidenceInv'
  <2>1. Stepped(p, "idle", NoJob) /\ UNCHANGED <<register, ledger, objects>>
    BY <1>15 DEF Reconcile, Crash, Leave, Goto, Stepped, files
  <2>2. QED
    BY <1>4, <1>6, <1>7, <2>1
<1>16. ASSUME NEW p \in Procs, Persist(p) PROVE EvidenceInv'
  <2>1. /\ Stepped(p, "check", job[p]) /\ UNCHANGED <<register, ledger>>
        /\ objects' = objects \cup {job[p].source.bytes} /\ pc[p] = "persist"
    BY <1>5, <1>16 DEF Persist, Retained, Stepped, Goto, At
  <2>2. Corpus(register, ledger, objects')
    BY <1>2, <1>3, <2>1, CorpusWithObjects
  <2>3. job[p].next = 1
    BY <2>1 DEF Typed
  <2>4. Progress(register', ledger', objects', "check", job[p])
    BY <2>1, <2>3 DEF Progress
  <2>5. Corpus(register', ledger', objects')
    BY <2>1, <2>2
  <2>6. QED
    BY <1>1, <2>1, <2>4, <2>5, EvidenceOfStep
<1>17. ASSUME NEW p \in Procs, Check(p) PROVE EvidenceInv'
  <2>1. UNCHANGED <<register, ledger, objects>> /\ pc[p] = "check"
    BY <1>17 DEF Check, files, At
  <2>2. CASE Refused(Current(p))
    <3>1. Stepped(p, "idle", NoJob)
      BY <1>17, <2>2 DEF Check, Leave, Goto, Stepped
    <3>2. QED
      BY <1>4, <1>6, <1>7, <2>1, <3>1
  <2> PICK r : r = Current(p)
    OBVIOUS
  <2>3. /\ job[p].source.bytes \in objects /\ r = Package(job[p].source, job[p].stamp)[job[p].next]
        /\ \A i \in 1..3 : i < job[p].next =>
               KeptIn(register, ledger, Package(job[p].source, job[p].stamp)[i])
    BY <1>5, <2>1 DEF Progress
  <2>4. CASE ~Refused(r) /\ Matches(r) = {}
    <3>1. Stepped(p, "write", job[p])
      BY <1>5, <1>17, <2>4 DEF Check, Goto, Stepped
    <3>2. RelatedTo(r) \subseteq IdsOf(register)
      BY <2>4 DEF Refused, IdsOf, Ids
    <3>3. Progress(register, ledger, objects, "write", job[p])
      BY <2>3, <3>2 DEF Progress
    <3>4. QED
      BY <1>1, <1>7, <2>1, <3>1, <3>3, EvidenceOfStep
  <2>5. CASE ~Refused(r) /\ Matches(r) # {}
    <3>1. Stepped(p, "link", job[p])
      BY <1>5, <1>17, <2>5 DEF Check, Goto, Stepped
    <3>2. HasIn(register, r)
      BY <2>5, FoundItself
    <3>3. Progress(register, ledger, objects, "link", job[p])
      BY <2>3, <3>2 DEF Progress
    <3>4. QED
      BY <1>1, <1>7, <2>1, <3>1, <3>3, EvidenceOfStep
  <2>6. QED
    BY <2>2, <2>4, <2>5
<1>18. ASSUME NEW p \in Procs, Write(p) PROVE EvidenceInv'
  <2> PICK r : r = Current(p)
    OBVIOUS
  <2>1. /\ Stepped(p, "link", job[p]) /\ register' = Append(register, r)
        /\ ledger' = ledger /\ objects' = objects /\ pc[p] = "write"
    BY <1>5, <1>18 DEF Write, Stepped, Goto, At
  <2>2. /\ job[p].source.bytes \in objects /\ r = Package(job[p].source, job[p].stamp)[job[p].next]
        /\ RelatedTo(r) \subseteq IdsOf(register)
        /\ Progress(register, ledger, objects, "write", job[p])
    BY <1>5, <2>1 DEF Progress
  <2>3. r.source = job[p].source
    BY <1>5, <2>2, Packaged
  <2>4. RecordSound(register, objects, r)
    BY <2>2, <2>3 DEF RecordSound
  <2>5. Corpus(Append(register, r), ledger, objects) /\ HasIn(Append(register, r), r)
    BY <1>2, <1>3, <1>5, <2>4, CorpusWithRecord
  <2>6. Corpus(register', ledger', objects') /\ HasIn(register', r)
    BY <2>1, <2>5
  <2>7. Progress(register', ledger', objects', "write", job[p])
    BY <1>1, <2>2, Lasting DEF FilesGrow
  <2>8. Progress(register', ledger', objects', "link", job[p])
    BY <2>2, <2>6, <2>7 DEF Progress
  <2>9. QED
    BY <1>1, <2>1, <2>6, <2>8, EvidenceOfStep
<1>19. ASSUME NEW p \in Procs, Link(p) PROVE EvidenceInv'
  <2> PICK r : r = Current(p)
    OBVIOUS
  <2> DEFINE e == RegisteredEvent(r)
             j == [job[p] EXCEPT !.next = @ + 1]
  <2>1. /\ pc[p] = "link" /\ UNCHANGED <<register, objects>>
        /\ IF LinkedIn(ledger, r) THEN ledger' = ledger ELSE ledger' = Append(ledger, e)
    BY <1>19 DEF Link, At, Log, LinkedIn
  <2>2. /\ r = Package(job[p].source, job[p].stamp)[job[p].next] /\ HasIn(register, r)
        /\ Progress(register, ledger, objects, "link", job[p])
    BY <1>5, <2>1 DEF Progress
  <2>3. Corpus(register', ledger', objects') /\ LinkedIn(ledger', r)
    <3>1. CASE LinkedIn(ledger, r)
      BY <1>7, <2>1, <3>1
    <3>2. CASE ~LinkedIn(ledger, r)
      <4>1. e \in AllEvents /\ e.type = "evidence_record_registered" /\ e.about = r
        BY <1>5, EventsTyped DEF RegisteredEvent
      <4>2. EventSound(register, ledger, objects, e) /\ \A k \in DOMAIN ledger : ledger[k] # e
        BY <2>2, <3>2, <4>1 DEF EventSound, Registration, Acceptance, LinkedIn
      <4> HIDE DEF e
      <4>3. Corpus(register, Append(ledger, e), objects)
        BY <1>2, <1>3, <4>1, <4>2, CorpusWithEvent
      <4>4. /\ Append(ledger, e)[Len(ledger) + 1] = e /\ Len(ledger) \in Nat
            /\ DOMAIN Append(ledger, e) = 1..(Len(ledger) + 1)
        BY <1>2, <4>1, AppendGrows
      <4>5. LinkedIn(Append(ledger, e), r)
        BY <4>4 DEF LinkedIn, e
      <4>6. ledger' = Append(ledger, e)
        BY <2>1, <3>2
      <4>7. QED
        BY <2>1, <4>3, <4>5, <4>6
    <3>3. QED
      BY <3>1, <3>2
  <2>4. KeptIn(register', ledger', r) /\ Progress(register', ledger', objects', "link", job[p])
    BY <1>1, <2>1, <2>2, <2>3, Lasting DEF FilesGrow, KeptIn
  <2>5. \A i \in 1..3 : i <= job[p].next =>
            KeptIn(register', ledger', Package(job[p].source, job[p].stamp)[i])
    BY <1>5, <2>2, <2>4 DEF Progress
  <2>6. CASE job[p].next = 3
    <3>1. Stepped(p, "accept", job[p])
      BY <1>5, <1>19, <2>6 DEF Link, Goto, Stepped
    <3>2. Progress(register', ledger', objects', "accept", job[p])
      BY <2>4, <2>5, <2>6 DEF Progress
    <3>3. QED
      BY <1>1, <2>3, <3>1, <3>2, EvidenceOfStep
  <2>7. CASE job[p].next # 3
    <3>1. Stepped(p, "check", j)
      BY <1>5, <1>19, <2>7 DEF Link, Goto, Stepped
    <3>2. j.source = job[p].source /\ j.stamp = job[p].stamp /\ j.next = job[p].next + 1
      BY <1>5 DEF JobTypes
    <3> HIDE DEF j
    <3>3. Progress(register', ledger', objects', "check", j)
      BY <1>5, <2>4, <2>5, <3>2 DEF Progress
    <3>4. QED
      BY <1>1, <2>3, <3>1, <3>3, EvidenceOfStep
  <2>8. QED
    BY <2>6, <2>7
<1>20. ASSUME NEW p \in Procs, Accept(p) PROVE EvidenceInv'
  <2> PICK e : e = AcceptedEvent(Records(p))
    OBVIOUS
  <2>1. /\ pc[p] = "accept" /\ UNCHANGED <<register, objects>> /\ ledger' = Append(ledger, e)
        /\ Stepped(p, "reconcile", job[p])
    BY <1>5, <1>20 DEF Accept, At, Log, Goto, Stepped
  <2>2. Progress(register, ledger, objects, "accept", job[p])
    BY <1>5, <2>1
  <2>3. e \in AllEvents /\ e.type = "research_intake_accepted" /\ e.about = Records(p)
    BY <1>5, EventsTyped DEF AcceptedEvent
  <2>4. WholeIn(register, ledger, objects, Records(p))
    <3>1. \A i \in 1..3 : Records(p)[i].source = job[p].source
      BY <1>5, Packaged
    <3>2. QED
      BY <1>5, <2>2, <3>1 DEF WholeIn, Progress
  <2>5. EventSound(register, ledger, objects, e) /\ ~Registration(e)
    BY <2>3, <2>4 DEF EventSound, Registration
  <2>6. Corpus(register, Append(ledger, e), objects)
    BY <1>2, <1>3, <2>3, <2>5, CorpusWithEvent
  <2>7. Corpus(register', ledger', objects')
    BY <2>1, <2>6
  <2>8. Progress(register', ledger', objects', "accept", job[p])
    BY <1>1, <2>2, Lasting DEF FilesGrow
  <2>9. Progress(register', ledger', objects', "reconcile", job[p])
    BY <2>8 DEF Progress
  <2>10. QED
    BY <1>1, <2>1, <2>7, <2>9, EvidenceOfStep
<1>21. CASE UNCHANGED vars
  BY <1>21 DEF vars, files, EvidenceInv
<1>22. QED
  BY <1>8, <1>9, <1>10, <1>11, <1>13, <1>14, <1>15, <1>16, <1>17, <1>18, <1>19, <1>20, <1>21 DEF Next

LEMMA EvidenceInvariant == Spec => [](Typed /\ EvidenceInv)
<1>1. Init => Typed /\ EvidenceInv
  BY TypeInit, EvidenceInit
<1>2. Typed /\ EvidenceInv /\ [Next]_vars => (Typed /\ EvidenceInv)'
  BY TypeStep, EvidenceStep
<1>3. QED
  BY <1>1, <1>2, PTL DEF Spec

(* AcceptedIsWhole: what is logged as accepted is in the register, linked   *)
(* by one event each, and retained, whoever overlaps or dies               *)
(* (intake.py 673-692, records.py 504-543).                                *)
THEOREM AcceptedStaysWhole == Spec => []AcceptedIsWhole
<1>1. ASSUME EvidenceInv PROVE AcceptedIsWhole
  <2>1. ASSUME NEW records \in Accepted, NEW i \in DOMAIN records
        PROVE  /\ \E n \in DOMAIN register : register[n] = records[i]
               /\ OneEvent(RegisteredEvent(records[i]))
               /\ records[i].source.bytes \in objects
    <3>1. PICK j \in DOMAIN ledger : Acceptance(ledger[j]) /\ ledger[j].about = records
      BY DEF Accepted, Acceptance
    <3>2. KeptIn(register, ledger, records[i]) /\ records[i].source.bytes \in objects
      BY <1>1, <3>1 DEF EvidenceInv, Corpus, EventSound, WholeIn
    <3>3. PICK k \in DOMAIN ledger : ledger[k] = RegisteredEvent(records[i])
      BY <3>2 DEF KeptIn, LinkedIn
    <3>4. \A l \in DOMAIN ledger : ledger[l] = RegisteredEvent(records[i]) <=> l = k
      <4>1. Registration(ledger[k])
        BY <3>3 DEF RegisteredEvent, Registration
      <4>2. QED
        BY <1>1, <3>3, <4>1 DEF EvidenceInv, Corpus
    <3>5. OneEvent(RegisteredEvent(records[i]))
      BY <3>4 DEF OneEvent
    <3>6. QED
      BY <3>2, <3>5 DEF KeptIn, HasIn
  <2>2. QED
    BY <2>1 DEF AcceptedIsWhole
<1>2. QED
  BY <1>1, EvidenceInvariant, PTL

(* PapersRetained: a registered Paper has its bytes, whatever dies when     *)
(* (intake.py 673-679).                                                    *)
THEOREM BytesStayRetained == Spec => []PapersRetained
<1>1. EvidenceInv => PapersRetained
  BY DEF EvidenceInv, Corpus, RecordSound, PapersRetained, PaperBytesRetained, Papers
<1>2. QED
  BY <1>1, EvidenceInvariant, PTL

-----------------------------------------------------------------------------
(* Intakes one at a time: no identity and no paper twice.                  *)

UniqueIn(R) == \A a, b \in DOMAIN R : Id(R[a]) = Id(R[b]) => a = b
IsPaper(r)  == r.kind = "paper"

(* A paper's key is its source's locator, and papers differ in both or in  *)
(* neither.                                                                *)
DistinctIn(R) ==
    /\ \A n \in DOMAIN R : IsPaper(R[n]) => R[n].key = R[n].source.locator
    /\ \A a, b \in DOMAIN R : IsPaper(R[a]) /\ IsPaper(R[b]) =>
           ((R[a].key = R[b].key) <=> (R[a].source.bytes = R[b].source.bytes))

NoPaperOf(R, s) == \A n \in DOMAIN R : IsPaper(R[n]) =>
                       R[n].key # s.locator /\ R[n].source.bytes # s.bytes

NoneLike(R, r) == \A n \in DOMAIN R : Id(R[n]) # Id(r)

(* What an intake that is alone has found, and may still rely on. *)
Prospect(R, label, j) ==
    /\ label = "write" => NoneLike(R, Package(j.source, j.stamp)[j.next])
    /\ \/ label = "persist"
       \/ label \in {"check", "write", "link"} /\ j.next = 1
       \/ label \in {"check", "write"} /\ j.next = 2
       => NoPaperOf(R, j.source)

Alone == \A p, q \in Procs : pc[p] # "idle" /\ pc[q] # "idle" => p = q

SerialInv ==
    ~overlapped => /\ Alone /\ UniqueIn(register) /\ DistinctIn(register)
                   /\ \A p \in Procs : Prospect(register, pc[p], job[p])

LEMMA SerialInit ==
    ASSUME Init
    PROVE  SerialInv
<1>1. \A p \in Procs : pc[p] = "idle"
  BY DEF Init
<1>2. UniqueIn(register) /\ DistinctIn(register)
  BY DEF Init, UniqueIn, DistinctIn
<1>3. QED
  BY <1>1, <1>2 DEF SerialInv, Alone, Prospect

(* The step of the only process at work. *)
LEMMA SerialOfStep ==
    ASSUME Typed, SerialInv, NEW p \in Procs, pc[p] # "idle", NEW to, NEW j, Stepped(p, to, j),
           overlapped' = overlapped,
           ~overlapped => /\ UniqueIn(register') /\ DistinctIn(register')
                          /\ Prospect(register', to, j)
    PROVE  SerialInv'
<1>1. pc \in [Procs -> Labels] /\ job \in [Procs -> JobTypes]
  BY TypesAre DEF Typed
<1>2. CASE ~overlapped
  <2>1. \A q \in Procs \ {p} : pc[q] = "idle" /\ pc'[q] = "idle"
    BY <1>1, <1>2 DEF SerialInv, Alone, Stepped
  <2>2. pc'[p] = to /\ job'[p] = j
    BY <1>1 DEF Stepped
  <2>3. Alone'
    BY <2>1 DEF Alone
  <2>4. \A q \in Procs : Prospect(register', pc'[q], job'[q])
    <3>1. \A k : Prospect(register', "idle", k)
      BY DEF Prospect
    <3>2. QED
      BY <1>2, <2>1, <2>2, <3>1
  <2>5. QED
    BY <1>2, <2>3, <2>4 DEF SerialInv
<1>3. CASE overlapped
  BY <1>3 DEF SerialInv
<1>4. QED
  BY <1>2, <1>3

LEMMA AppendUnique ==
    ASSUME NEW S, NEW R \in Seq(S), NEW r \in S, UniqueIn(R), DistinctIn(R), NoneLike(R, r),
           IsPaper(r) => r.key = r.source.locator /\ NoPaperOf(R, r.source)
    PROVE  UniqueIn(Append(R, r)) /\ DistinctIn(Append(R, r))
<1> PICK R2 : R2 = Append(R, r)
  OBVIOUS
<1>1. /\ Grows(R, R2) /\ Len(R) \in Nat /\ R2[Len(R) + 1] = r
      /\ DOMAIN R = 1..Len(R) /\ DOMAIN R2 = 1..(Len(R) + 1)
  BY AppendGrows
<1>2. \A n \in DOMAIN R2 : (n \in DOMAIN R /\ R2[n] = R[n]) \/ (n = Len(R) + 1 /\ R2[n] = r)
  BY <1>1 DEF Grows
<1>3. UniqueIn(R2)
  BY <1>2 DEF UniqueIn, NoneLike
<1>4. \A n \in DOMAIN R2 : IsPaper(R2[n]) => R2[n].key = R2[n].source.locator
  BY <1>2 DEF DistinctIn
<1>5. ASSUME NEW a \in DOMAIN R2, NEW b \in DOMAIN R2, IsPaper(R2[a]), IsPaper(R2[b])
      PROVE  (R2[a].key = R2[b].key) <=> (R2[a].source.bytes = R2[b].source.bytes)
  <2>1. CASE a \in DOMAIN R /\ b \in DOMAIN R
    BY <1>2, <1>5, <2>1, <1>1 DEF DistinctIn, Grows
  <2>2. CASE a \notin DOMAIN R /\ b \in DOMAIN R
    BY <1>2, <1>5, <2>2, <1>1 DEF NoPaperOf, Grows
  <2>3. CASE a \in DOMAIN R /\ b \notin DOMAIN R
    BY <1>2, <1>5, <2>3, <1>1 DEF NoPaperOf, Grows
  <2>4. CASE a \notin DOMAIN R /\ b \notin DOMAIN R
    BY <1>2, <2>4
  <2>5. QED
    BY <2>1, <2>2, <2>3, <2>4
<1>6. QED
  BY <1>3, <1>4, <1>5 DEF DistinctIn

LEMMA SerialStep ==
    ASSUME Typed, SerialInv, [Next]_vars
    PROVE  SerialInv'
<1>1. register \in Seq(RecordType) /\ pc \in [Procs -> Labels] /\ job \in [Procs -> JobTypes]
  BY TypesAre DEF Typed
<1>2. ASSUME NEW p \in Procs
      PROVE  /\ job = [job EXCEPT ![p] = job[p]] /\ Source(p) = job[p].source
             /\ Records(p) = Package(job[p].source, job[p].stamp) /\ Len(Records(p)) = 3
             /\ Current(p) = Records(p)[job[p].next] /\ Current(p) \in RecordType
             /\ job[p].source \in Sources /\ job[p].stamp \in Stamps /\ job[p].next \in 1..3
             /\ ~overlapped => /\ UniqueIn(register) /\ DistinctIn(register)
                               /\ Prospect(register, pc[p], job[p])
  <2>1. job = [job EXCEPT ![p] = job[p]] /\ job[p] \in JobTypes
    BY <1>1
  <2>2. job[p].source \in Sources /\ job[p].stamp \in Stamps /\ job[p].next \in 1..3
    BY <2>1 DEF JobTypes
  <2>3. QED
    BY <2>1, <2>2, CurrentIs DEF Typed, SerialInv
<1>3. ASSUME NEW p \in Procs, pc[p] # "idle", NEW to, NEW j, Stepped(p, to, j),
             UNCHANGED <<register, overlapped>>, ~overlapped => Prospect(register, to, j)
      PROVE  SerialInv'
  BY <1>2, <1>3, SerialOfStep
<1>4. ASSUME NEW to \in {"idle", "duplicate", "number", "reject", "rejected", "accept", "reconcile"},
             NEW j
      PROVE  Prospect(register, to, j)
  BY DEF Prospect
<1>5. ASSUME NEW p \in Procs, NEW s \in Sources, Submit(p, s) PROVE SerialInv'
  <2> DEFINE j == [NoJob EXCEPT !.source = s, !.stamp = invocations + 1]
  <2>1. /\ pc' = [pc EXCEPT ![p] = "preflight"] /\ job' = [job EXCEPT ![p] = j]
        /\ overlapped' = (overlapped \/ \E q \in Procs : pc[q] # "idle") /\ register' = register
    BY <1>5 DEF Submit, Goto, files
  <2> HIDE DEF j
  <2>2. CASE ~overlapped'
    <3>1. ~overlapped /\ \A q \in Procs : pc[q] = "idle"
      BY <2>1, <2>2
    <3>2. \A q \in Procs \ {p} : pc'[q] = "idle"
      BY <1>1, <2>1, <3>1
    <3>3. pc'[p] = "preflight"
      BY <1>1, <2>1
    <3>4. Alone'
      BY <3>2 DEF Alone
    <3>5. \A q \in Procs : Prospect(register', pc'[q], job'[q])
      <4>1. \A k : Prospect(register', "idle", k) /\ Prospect(register', "preflight", k)
        BY DEF Prospect
      <4>2. QED
        BY <3>2, <3>3, <4>1
    <3>6. QED
      BY <2>1, <3>1, <3>4, <3>5 DEF SerialInv
  <2>3. CASE overlapped'
    BY <2>3 DEF SerialInv
  <2>4. QED
    BY <2>2, <2>3
<1>6. ASSUME NEW p \in Procs, Preflight(p) PROVE SerialInv'
  <2> DEFINE to == Verdict(Source(p), job[p].stamp)
  <2>1. /\ to \in {"number", "duplicate", "persist"}
        /\ to = "persist" => PapersAt(Source(p).locator) = {} /\ Mirrors(Source(p)) = {}
    BY <1>2, IntakeAssumption DEF Verdict
  <2> HIDE DEF to
  <2>2. Stepped(p, to, job[p]) /\ UNCHANGED <<register, overlapped>> /\ pc[p] # "idle"
    BY <1>2, <1>6 DEF Preflight, Stepped, Goto, At, files, to
  <2>3. to = "persist" => NoPaperOf(register, job[p].source)
    BY <1>2, <2>1 DEF PapersAt, Mirrors, Papers, NoPaperOf, IsPaper
  <2>4. Prospect(register, to, job[p])
    BY <2>1, <2>3 DEF Prospect
  <2>5. QED
    BY <1>3, <2>2, <2>4
<1>7. ASSUME NEW p \in Procs, \/ Duplicate(p) \/ LinkRejection(p) \/ Reconcile(p) \/ Crash(p)
      PROVE  SerialInv'
  <2>1. Stepped(p, "idle", NoJob) /\ UNCHANGED <<register, overlapped>> /\ pc[p] # "idle"
    BY <1>7 DEF Duplicate, LinkRejection, Reconcile, Crash, Leave, Goto, Stepped, At, files
  <2>2. QED
    BY <1>3, <1>4, <2>1
<1>8. ASSUME NEW p \in Procs, NumberRejection(p) PROVE SerialInv'
  <2>1. /\ Stepped(p, "reject", [job[p] EXCEPT !.number = NextNumber])
        /\ UNCHANGED <<register, overlapped>> /\ pc[p] # "idle"
    BY <1>8 DEF NumberRejection, Stepped, Goto, At, files
  <2>2. QED
    BY <1>3, <1>4, <2>1
<1>9. ASSUME NEW p \in Procs, Reject(p) \/ Accept(p) PROVE SerialInv'
  <2>1. /\ Stepped(p, "rejected", job[p]) \/ Stepped(p, "reconcile", job[p])
        /\ UNCHANGED <<register, overlapped>> /\ pc[p] # "idle"
    BY <1>2, <1>9 DEF Reject, Accept, Stepped, Goto, At
  <2>2. QED
    BY <1>3, <1>4, <2>1
<1>10. ASSUME NEW p \in Procs, Persist(p) PROVE SerialInv'
  <2>1. /\ Stepped(p, "check", job[p]) /\ UNCHANGED <<register, overlapped>> /\ pc[p] = "persist"
    BY <1>2, <1>10 DEF Persist, Stepped, Goto, At
  <2>2. ~overlapped => Prospect(register, "check", job[p])
    BY <1>2, <2>1 DEF Prospect
  <2>3. QED
    BY <1>3, <2>1, <2>2
<1>11. ASSUME NEW p \in Procs, Check(p) PROVE SerialInv'
  <2>1. UNCHANGED <<register, overlapped>> /\ pc[p] = "check"
    BY <1>11 DEF Check, At, files
  <2>2. CASE Refused(Current(p))
    <3>1. Stepped(p, "idle", NoJob)
      BY <1>11, <2>2 DEF Check, Leave, Goto, Stepped
    <3>2. QED
      BY <1>3, <1>4, <2>1, <3>1
  <2>3. CASE ~Refused(Current(p)) /\ Matches(Current(p)) = {}
    <3>1. Stepped(p, "write", job[p])
      BY <1>2, <1>11, <2>3 DEF Check, Goto, Stepped
    <3>2. NoneLike(register, Current(p))
      BY <2>3 DEF Matches, NoneLike
    <3>3. ~overlapped => Prospect(register, "write", job[p])
      BY <1>2, <2>1, <3>2 DEF Prospect
    <3>4. QED
      BY <1>3, <2>1, <3>1, <3>3
  <2>4. CASE ~Refused(Current(p)) /\ Matches(Current(p)) # {}
    <3>1. Stepped(p, "link", job[p])
      BY <1>2, <1>11, <2>4 DEF Check, Goto, Stepped
    <3>2. ~overlapped => Prospect(register, "link", job[p])
      BY <1>2, <2>1 DEF Prospect
    <3>3. QED
      BY <1>3, <2>1, <3>1, <3>2
  <2>5. QED
    BY <2>2, <2>3, <2>4
<1>12. ASSUME NEW p \in Procs, Write(p) PROVE SerialInv'
  <2> PICK r : r = Current(p)
    OBVIOUS
  <2>1. /\ Stepped(p, "link", job[p]) /\ register' = Append(register, r)
        /\ overlapped' = overlapped /\ pc[p] = "write"
    BY <1>2, <1>12 DEF Write, Stepped, Goto, At
  <2>2. /\ r = Package(job[p].source, job[p].stamp)[job[p].next] /\ r.source = job[p].source
        /\ IsPaper(r) <=> job[p].next = 2
        /\ job[p].next = 2 => r.key = job[p].source.locator
    BY <1>2, Packaged DEF IsPaper
  <2>3. ASSUME ~overlapped
        PROVE  /\ UniqueIn(register') /\ DistinctIn(register')
               /\ Prospect(register', "link", job[p])
    <3>1. NoneLike(register, r) /\ UniqueIn(register) /\ DistinctIn(register)
      BY <1>2, <2>1, <2>2, <2>3 DEF Prospect
    <3>2. job[p].next \in {1, 2} => NoPaperOf(register, job[p].source)
      BY <1>2, <2>1, <2>3 DEF Prospect
    <3>3. UniqueIn(Append(register, r)) /\ DistinctIn(Append(register, r))
      BY <1>1, <1>2, <2>2, <3>1, <3>2, AppendUnique
    <3>4. job[p].next = 1 => NoPaperOf(Append(register, r), job[p].source)
      <4>1. /\ Grows(register, Append(register, r)) /\ Len(register) \in Nat
            /\ Append(register, r)[Len(register) + 1] = r
            /\ DOMAIN register = 1..Len(register)
            /\ DOMAIN Append(register, r) = 1..(Len(register) + 1)
        BY <1>1, <1>2, AppendGrows
      <4>2. \A n \in DOMAIN Append(register, r) :
                \/ n \in DOMAIN register /\ Append(register, r)[n] = register[n]
                \/ Append(register, r)[n] = r
        BY <4>1 DEF Grows
      <4>3. QED
        BY <2>2, <3>2, <4>2 DEF NoPaperOf
    <3>5. QED
      BY <2>1, <3>3, <3>4 DEF Prospect
  <2>4. QED
    BY <2>1, <2>3, SerialOfStep
<1>13. ASSUME NEW p \in Procs, Link(p) PROVE SerialInv'
  <2> DEFINE j == [job[p] EXCEPT !.next = @ + 1]
  <2>1. UNCHANGED <<register, overlapped>> /\ pc[p] = "link"
    BY <1>13 DEF Link, At
  <2>2. CASE job[p].next = 3
    <3>1. Stepped(p, "accept", job[p])
      BY <1>2, <1>13, <2>2 DEF Link, Goto, Stepped
    <3>2. QED
      BY <1>3, <1>4, <2>1, <3>1
  <2>3. CASE job[p].next # 3
    <3>1. Stepped(p, "check", j)
      BY <1>2, <1>13, <2>3 DEF Link, Goto, Stepped
    <3>2. j.source = job[p].source /\ j.next = job[p].next + 1
      BY <1>1 DEF JobTypes
    <3> HIDE DEF j
    <3>3. ~overlapped => Prospect(register, "check", j)
      BY <1>2, <2>1, <3>2 DEF Prospect
    <3>4. QED
      BY <1>3, <2>1, <3>1, <3>3
  <2>4. QED
    BY <2>2, <2>3
<1>14. CASE UNCHANGED vars
  BY <1>14 DEF vars, files, SerialInv, Alone
<1>15. QED
  BY <1>5, <1>6, <1>7, <1>8, <1>9, <1>10, <1>11, <1>12, <1>13, <1>14 DEF Next

LEMMA SerialInvariant == Spec => [](Typed /\ EvidenceInv /\ SerialInv)
<1>1. Init => SerialInv
  BY SerialInit
<1>2. Typed /\ SerialInv /\ [Next]_vars => SerialInv'
  BY SerialStep
<1>3. QED
  BY <1>1, <1>2, EvidenceInvariant, PTL DEF Spec

(* SerialCorpusUnique: without overlap no identity and no paper is          *)
(* registered twice, through deaths and resubmissions (intake.py 496-538,  *)
(* 656-679).                                                               *)
THEOREM SerialIntakesUnique == Spec => []SerialCorpusUnique
<1>1. SerialInv => SerialCorpusUnique
  BY DEF SerialInv, SerialCorpusUnique, UniqueIds, UniqueIn, DuplicateRule, DistinctIn, Papers, IsPaper
<1>2. QED
  BY <1>1, SerialInvariant, PTL

-----------------------------------------------------------------------------
(* Intakes that neither overlap nor die: the files reconcile.              *)

RejectionOf(j)    == [sequence |-> j.number, source |-> j.source, stamp |-> j.stamp]
RejectionLine(e)  == e.type = "research_intake_quarantined"
RejectedIn(L, q)  == \E k \in DOMAIN L : L[k] = RejectedEvent(q)

Linking(label, j, r)   == label = "link" /\ r = Package(j.source, j.stamp)[j.next]
Rejecting(label, j, q) == label = "rejected" /\ q = RejectionOf(j)

(* Without a death a line lacks its event only while its writer is about   *)
(* to log it.                                                              *)
AllSettled ==
    /\ \A n \in DOMAIN register : \/ LinkedIn(ledger, register[n])
                                  \/ \E p \in Procs : Linking(pc[p], job[p], register[n])
    /\ \A n \in DOMAIN quarantine : \/ RejectedIn(ledger, quarantine[n])
                                    \/ \E p \in Procs : Rejecting(pc[p], job[p], quarantine[n])

SettledInv == crashes = 0 => AllSettled

(* The quarantine register Q and its events, without overlap. *)
Quarantined(Q, L) ==
    /\ \A n \in DOMAIN Q : Q[n].sequence = n
    /\ \A k \in DOMAIN L : RejectionLine(L[k]) => HasIn(Q, L[k].about)
    /\ \A k, l \in DOMAIN L : RejectionLine(L[k]) /\ L[k] = L[l] => k = l

Numbered(Q, L, label, j) ==
    /\ label = "reject" => j.number = Len(Q) + 1
    /\ label = "rejected" => HasIn(Q, RejectionOf(j)) /\ ~RejectedIn(L, RejectionOf(j))

QuarantineInv ==
    ~overlapped => /\ Quarantined(quarantine, ledger)
                   /\ \A p \in Procs : Numbered(quarantine, ledger, pc[p], job[p])

LEMMA SettledOfStep ==
    ASSUME Typed, SettledInv, FilesGrow, crashes' = crashes,
           NEW p \in Procs, NEW to, NEW j, Stepped(p, to, j),
           \A r : Linking(pc[p], job[p], r) => LinkedIn(ledger', r),
           \A q : Rejecting(pc[p], job[p], q) => RejectedIn(ledger', q),
           \A n \in DOMAIN register' : n \in DOMAIN register \/ Linking(to, j, register'[n]),
           \A n \in DOMAIN quarantine' : n \in DOMAIN quarantine \/ Rejecting(to, j, quarantine'[n])
    PROVE  SettledInv'
<1>1. pc \in [Procs -> Labels] /\ job \in [Procs -> JobTypes]
  BY TypesAre DEF Typed
<1>2. /\ pc'[p] = to /\ job'[p] = j
      /\ \A q \in Procs \ {p} : pc'[q] = pc[q] /\ job'[q] = job[q]
  BY <1>1 DEF Stepped
<1>3. /\ \A r : LinkedIn(ledger, r) => LinkedIn(ledger', r)
      /\ \A q : RejectedIn(ledger, q) => RejectedIn(ledger', q)
  BY DEF FilesGrow, Grows, LinkedIn, RejectedIn
<1>4. ASSUME crashes = 0, NEW n \in DOMAIN register'
      PROVE  \/ LinkedIn(ledger', register'[n])
             \/ \E q \in Procs : Linking(pc'[q], job'[q], register'[n])
  <2>1. CASE n \notin DOMAIN register
    BY <1>2, <2>1
  <2>2. CASE n \in DOMAIN register
    <3> PICK r : r = register[n]
      OBVIOUS
    <3>1. register'[n] = r
      BY <2>2 DEF FilesGrow, Grows
    <3>2. LinkedIn(ledger, r) \/ \E q \in Procs : Linking(pc[q], job[q], r)
      BY <1>4, <2>2 DEF SettledInv, AllSettled
    <3>3. CASE LinkedIn(ledger, r)
      BY <1>3, <3>1, <3>3
    <3>4. CASE \E q \in Procs : Linking(pc[q], job[q], r)
      BY <1>2, <3>1, <3>4
    <3>5. QED
      BY <3>2, <3>3, <3>4
  <2>3. QED
    BY <2>1, <2>2
<1>5. ASSUME crashes = 0, NEW n \in DOMAIN quarantine'
      PROVE  \/ RejectedIn(ledger', quarantine'[n])
             \/ \E q \in Procs : Rejecting(pc'[q], job'[q], quarantine'[n])
  <2>1. CASE n \notin DOMAIN quarantine
    BY <1>2, <2>1
  <2>2. CASE n \in DOMAIN quarantine
    <3> PICK r : r = quarantine[n]
      OBVIOUS
    <3>1. quarantine'[n] = r
      BY <2>2 DEF FilesGrow, Grows
    <3>2. RejectedIn(ledger, r) \/ \E q \in Procs : Rejecting(pc[q], job[q], r)
      BY <1>5, <2>2 DEF SettledInv, AllSettled
    <3>3. CASE RejectedIn(ledger, r)
      BY <1>3, <3>1, <3>3
    <3>4. CASE \E q \in Procs : Rejecting(pc[q], job[q], r)
      BY <1>2, <3>1, <3>4
    <3>5. QED
      BY <3>2, <3>3, <3>4
  <2>3. QED
    BY <2>1, <2>2
<1>6. crashes = 0 => AllSettled'
  BY <1>4, <1>5 DEF AllSettled
<1>7. QED
  BY <1>6 DEF SettledInv

LEMMA QuarantineOfStep ==
    ASSUME Typed, SerialInv, QuarantineInv, NEW p \in Procs, pc[p] # "idle", NEW to, NEW j,
           Stepped(p, to, j), overlapped' = overlapped,
           ~overlapped => /\ Quarantined(quarantine', ledger')
                          /\ Numbered(quarantine', ledger', to, j)
    PROVE  QuarantineInv'
<1>1. pc \in [Procs -> Labels] /\ job \in [Procs -> JobTypes]
  BY TypesAre DEF Typed
<1>2. CASE ~overlapped
  <2>1. \A q \in Procs \ {p} : pc'[q] = "idle"
    BY <1>1, <1>2 DEF SerialInv, Alone, Stepped
  <2>2. pc'[p] = to /\ job'[p] = j
    BY <1>1 DEF Stepped
  <2>3. \A k : Numbered(quarantine', ledger', "idle", k)
    BY DEF Numbered
  <2>4. \A q \in Procs : Numbered(quarantine', ledger', pc'[q], job'[q])
    BY <1>2, <2>1, <2>2, <2>3
  <2>5. QED
    BY <1>2, <2>4 DEF QuarantineInv
<1>3. CASE overlapped
  BY <1>3 DEF QuarantineInv
<1>4. QED
  BY <1>2, <1>3

LEMMA QuarantinedWithEvent ==
    ASSUME NEW S, NEW L \in Seq(S), NEW e \in S, NEW Q, Quarantined(Q, L),
           RejectionLine(e) => HasIn(Q, e.about) /\ \A k \in DOMAIN L : L[k] # e
    PROVE  Quarantined(Q, Append(L, e))
<1> PICK L2 : L2 = Append(L, e)
  OBVIOUS
<1>1. /\ Grows(L, L2) /\ Len(L) \in Nat /\ L2[Len(L) + 1] = e
      /\ DOMAIN L = 1..Len(L) /\ DOMAIN L2 = 1..(Len(L) + 1)
  BY AppendGrows
<1>2. \A k \in DOMAIN L2 : (k \in DOMAIN L /\ L2[k] = L[k]) \/ (k = Len(L) + 1 /\ L2[k] = e)
  BY <1>1 DEF Grows
<1>3. \A k \in DOMAIN L2 : RejectionLine(L2[k]) => HasIn(Q, L2[k].about)
  BY <1>2 DEF Quarantined
<1>4. ASSUME NEW k \in DOMAIN L2, NEW l \in DOMAIN L2, RejectionLine(L2[k]), L2[k] = L2[l]
      PROVE  k = l
  <2>1. CASE k \in DOMAIN L /\ l \in DOMAIN L
    BY <1>1, <1>2, <1>4, <2>1 DEF Quarantined, Grows
  <2>2. CASE k \notin DOMAIN L \/ l \notin DOMAIN L
    BY <1>2, <1>4, <2>2
  <2>3. QED
    BY <2>1, <2>2
<1>5. QED
  BY <1>3, <1>4 DEF Quarantined

(* A line with the next number is not one of those that have an event. *)
LEMMA QuarantinedWithLine ==
    ASSUME NEW S, NEW Q \in Seq(S), NEW q \in S, NEW L, Grows(L, L), Quarantined(Q, L),
           q.sequence = Len(Q) + 1
    PROVE  /\ Quarantined(Append(Q, q), L) /\ HasIn(Append(Q, q), q) /\ ~RejectedIn(L, q)
<1> PICK Q2 : Q2 = Append(Q, q)
  OBVIOUS
<1>1. /\ Grows(Q, Q2) /\ Len(Q) \in Nat /\ Q2[Len(Q) + 1] = q
      /\ DOMAIN Q = 1..Len(Q) /\ DOMAIN Q2 = 1..(Len(Q) + 1)
  BY AppendGrows
<1>2. \A n \in DOMAIN Q2 : (n \in DOMAIN Q /\ Q2[n] = Q[n]) \/ (n = Len(Q) + 1 /\ Q2[n] = q)
  BY <1>1 DEF Grows
<1>3. HasIn(Q2, q) /\ \A r : HasIn(Q, r) => HasIn(Q2, r)
  BY <1>1 DEF HasIn, Grows
<1>4. Quarantined(Q2, L)
  BY <1>2, <1>3 DEF Quarantined
<1>5. ~HasIn(Q, q)
  BY <1>1 DEF HasIn, Quarantined
<1>6. ~RejectedIn(L, q)
  <2>1. ASSUME NEW k \in DOMAIN L, L[k] = RejectedEvent(q) PROVE FALSE
    <3>1. RejectionLine(L[k]) /\ L[k].about = q
      BY <2>1 DEF RejectedEvent, RejectionLine
    <3>2. QED
      BY <1>5, <3>1 DEF Quarantined
  <2>2. QED
    BY <2>1 DEF RejectedIn
<1>7. QED
  BY <1>3, <1>4, <1>6

Reconciling == SettledInv /\ QuarantineInv

LEMMA ReconcilingInit ==
    ASSUME Init
    PROVE  Reconciling
<1>1. AllSettled /\ Quarantined(quarantine, ledger)
  BY DEF Init, AllSettled, Quarantined
<1>2. \A p \in Procs : pc[p] = "idle"
  BY DEF Init
<1>3. \A p \in Procs : Numbered(quarantine, ledger, pc[p], job[p])
  BY <1>2 DEF Numbered
<1>4. QED
  BY <1>1, <1>3 DEF Reconciling, SettledInv, QuarantineInv

LEMMA ReconcilingStep ==
    ASSUME Typed, SerialInv, Reconciling, [Next]_vars
    PROVE  Reconciling'
<1>1. FilesGrow
  BY FilesOnlyGrow
<1>2. /\ register \in Seq(RecordType) /\ quarantine \in Seq(Rejections) /\ ledger \in Seq(AllEvents)
      /\ pc \in [Procs -> Labels] /\ job \in [Procs -> JobTypes] /\ crashes \in Nat
      /\ Grows(ledger, ledger)
  BY TypesAre DEF Typed, Grows
<1>3. SettledInv /\ QuarantineInv
  BY DEF Reconciling
<1>4. ASSUME NEW p \in Procs
      PROVE  /\ job = [job EXCEPT ![p] = job[p]] /\ Rejection(p) = RejectionOf(job[p])
             /\ Current(p) = Package(job[p].source, job[p].stamp)[job[p].next]
             /\ Current(p) \in RecordType /\ Records(p) \in Seq(RecordType) /\ Len(Records(p)) = 3
             /\ ~overlapped => /\ Quarantined(quarantine, ledger)
                               /\ Numbered(quarantine, ledger, pc[p], job[p])
  <2>1. job = [job EXCEPT ![p] = job[p]]
    BY <1>2
  <2>2. Rejection(p) = RejectionOf(job[p])
    BY DEF Rejection, RejectionOf, Source
  <2>3. QED
    BY <1>3, <2>1, <2>2, CurrentIs DEF Typed, QuarantineInv
(* A step that leaves register and quarantine and both kinds of events alone. *)
<1>5. ASSUME NEW p \in Procs, pc[p] \notin {"idle", "link", "rejected"}, NEW to, NEW j,
             Stepped(p, to, j), to \notin {"rejected"}, to = "reject" => j.number = Len(quarantine) + 1,
             UNCHANGED <<register, quarantine, overlapped, crashes>>,
             \/ ledger' = ledger
             \/ \E e \in AllEvents : ledger' = Append(ledger, e) /\ ~RejectionLine(e)
      PROVE  Reconciling'
  <2>1. SettledInv'
    BY <1>1, <1>3, <1>5, SettledOfStep DEF Linking, Rejecting
  <2>2. ~overlapped => Quarantined(quarantine', ledger')
    <3>1. CASE ledger' = ledger
      BY <1>4, <1>5, <3>1
    <3>2. CASE \E e \in AllEvents : ledger' = Append(ledger, e) /\ ~RejectionLine(e)
      <4>1. PICK e \in AllEvents : ledger' = Append(ledger, e) /\ ~RejectionLine(e)
        BY <3>2
      <4>2. ~overlapped => Quarantined(quarantine, Append(ledger, e))
        BY <1>2, <1>4, <4>1, QuarantinedWithEvent
      <4>3. QED
        BY <1>5, <4>1, <4>2
    <3>3. QED
      BY <1>5, <3>1, <3>2
  <2>3. Numbered(quarantine', ledger', to, j)
    BY <1>5 DEF Numbered
  <2>4. QuarantineInv'
    BY <1>3, <1>5, <2>2, <2>3, QuarantineOfStep
  <2>5. QED
    BY <2>1, <2>4 DEF Reconciling
<1>6. ASSUME NEW p \in Procs, NEW s \in Sources, Submit(p, s) PROVE Reconciling'
  <2> DEFINE j == [NoJob EXCEPT !.source = s, !.stamp = invocations + 1]
  <2>1. /\ Stepped(p, "preflight", j) /\ pc[p] = "idle" /\ (overlapped => overlapped')
        /\ UNCHANGED <<register, quarantine, ledger, crashes>>
    BY <1>6 DEF Submit, Stepped, Goto, At, files
  <2> HIDE DEF j
  <2>2. SettledInv'
    BY <1>1, <1>3, <2>1, SettledOfStep DEF Linking, Rejecting
  <2>3. \A q \in Procs : (pc'[q] = "preflight") \/ (pc'[q] = pc[q] /\ job'[q] = job[q])
    BY <1>2, <2>1 DEF Stepped
  <2>4. \A k : Numbered(quarantine, ledger, "preflight", k)
    BY DEF Numbered
  <2>5. QuarantineInv'
    <3>1. ASSUME ~overlapped', NEW q \in Procs
          PROVE  Numbered(quarantine', ledger', pc'[q], job'[q])
      <4>1. Numbered(quarantine, ledger, pc[q], job[q])
        BY <1>3, <2>1, <3>1 DEF QuarantineInv
      <4>2. Numbered(quarantine, ledger, pc'[q], job'[q])
        BY <2>3, <2>4, <4>1
      <4>3. QED
        BY <2>1, <4>2
    <3>2. ~overlapped' => Quarantined(quarantine', ledger')
      BY <1>3, <2>1 DEF QuarantineInv
    <3>3. QED
      BY <3>1, <3>2 DEF QuarantineInv
  <2>6. QED
    BY <2>2, <2>5 DEF Reconciling
<1>7. ASSUME NEW p \in Procs, Preflight(p) PROVE Reconciling'
  <2> DEFINE to == Verdict(Source(p), job[p].stamp)
  <2>1. to \in {"number", "duplicate", "persist"}
    BY CurrentIs, IntakeAssumption DEF Verdict, Typed
  <2> HIDE DEF to
  <2>2. Stepped(p, to, job[p])
    BY <1>4, <1>7 DEF Preflight, Stepped, Goto, to
  <2>3. /\ UNCHANGED <<register, quarantine, overlapped, crashes>> /\ ledger' = ledger
        /\ pc[p] = "preflight"
    BY <1>7 DEF Preflight, At, files
  <2>4. QED
    BY <1>5, <2>1, <2>2, <2>3
<1>8. ASSUME NEW p \in Procs, Duplicate(p) PROVE Reconciling'
  <2> PICK e : e = DuplicateEvent(OriginalPaper(Source(p).locator))
    OBVIOUS
  <2>1. e \in AllEvents /\ ~RejectionLine(e)
    BY <1>8, OriginalTyped, EventsTyped DEF Duplicate, Typed, At, DuplicateEvent, RejectionLine
  <2>2. /\ Stepped(p, "idle", NoJob) /\ ledger' = Append(ledger, e) /\ pc[p] = "duplicate"
        /\ UNCHANGED <<register, quarantine, overlapped, crashes>>
    BY <1>8 DEF Duplicate, Leave, Goto, Stepped, Log, At
  <2>3. QED
    BY <1>5, <2>1, <2>2
<1>9. ASSUME NEW p \in Procs, NumberRejection(p) PROVE Reconciling'
  <2> DEFINE j == [job[p] EXCEPT !.number = NextNumber]
  <2>1. /\ Stepped(p, "reject", j) /\ ledger' = ledger /\ pc[p] = "number"
        /\ UNCHANGED <<register, quarantine, overlapped, crashes>>
    BY <1>9 DEF NumberRejection, Goto, Stepped, At, files
  <2>2. j.number = Len(quarantine) + 1
    <3>1. job[p] \in JobTypes
      BY <1>2
    <3>2. QED
      BY <3>1 DEF NextNumber, JobTypes
  <2> HIDE DEF j
  <2>3. QED
    BY <1>5, <2>1, <2>2
<1>10. ASSUME NEW p \in Procs, Reject(p) PROVE Reconciling'
  <2> PICK q : q = RejectionOf(job[p])
    OBVIOUS
  <2>1. /\ Stepped(p, "rejected", job[p]) /\ quarantine' = Append(quarantine, q) /\ ledger' = ledger
        /\ pc[p] = "reject" /\ UNCHANGED <<register, overlapped, crashes>>
    BY <1>4, <1>10 DEF Reject, Goto, Stepped, At
  <2>2. q \in Rejections
    BY <1>2, <2>1, CurrentIs DEF Typed, RejectionOf, Rejections, JobTypes
  <2>3. ~overlapped => q.sequence = Len(quarantine) + 1
    BY <1>4, <2>1 DEF Numbered, RejectionOf
  <2>4. ~overlapped => /\ Quarantined(quarantine', ledger')
                       /\ HasIn(quarantine', q) /\ ~RejectedIn(ledger', q)
    BY <1>2, <1>4, <2>1, <2>2, <2>3, QuarantinedWithLine
  <2>5. ~overlapped => Numbered(quarantine', ledger', "rejected", job[p])
    BY <2>4 DEF Numbered
  <2>6. QuarantineInv'
    BY <1>3, <2>1, <2>4, <2>5, QuarantineOfStep
  <2>7. \A n \in DOMAIN quarantine' : n \in DOMAIN quarantine \/ quarantine'[n] = q
    <3>1. /\ Append(quarantine, q)[Len(quarantine) + 1] = q /\ Len(quarantine) \in Nat
          /\ DOMAIN quarantine = 1..Len(quarantine)
          /\ DOMAIN Append(quarantine, q) = 1..(Len(quarantine) + 1)
      BY <1>2, <2>2, AppendGrows
    <3>2. QED
      BY <2>1, <3>1
  <2>8. SettledInv'
    BY <1>1, <1>3, <2>1, <2>7, SettledOfStep DEF Linking, Rejecting
  <2>9. QED
    BY <2>6, <2>8 DEF Reconciling
<1>11. ASSUME NEW p \in Procs, LinkRejection(p) PROVE Reconciling'
  <2> PICK q : q = RejectionOf(job[p])
    OBVIOUS
  <2> PICK e : e = RejectedEvent(q)
    OBVIOUS
  <2>1. /\ Stepped(p, "idle", NoJob) /\ ledger' = Append(ledger, e) /\ pc[p] = "rejected"
        /\ UNCHANGED <<register, quarantine, overlapped, crashes>>
    BY <1>4, <1>11 DEF LinkRejection, Leave, Goto, Stepped, At, Log
  <2>2. q \in Rejections
    BY <1>2, <2>1, CurrentIs DEF Typed, RejectionOf, Rejections, JobTypes
  <2>3. e \in AllEvents /\ RejectionLine(e) /\ e.about = q
    BY <2>2, EventsTyped DEF RejectedEvent, RejectionLine
  <2>4. RejectedIn(Append(ledger, e), q)
    <3>1. /\ Append(ledger, e)[Len(ledger) + 1] = e /\ Len(ledger) \in Nat
          /\ DOMAIN Append(ledger, e) = 1..(Len(ledger) + 1)
      BY <1>2, <2>3, AppendGrows
    <3>2. QED
      BY <3>1 DEF RejectedIn
  <2>5. RejectedIn(ledger', q)
    BY <2>1, <2>4
  <2>6. SettledInv'
    BY <1>1, <1>3, <2>1, <2>5, SettledOfStep DEF Linking, Rejecting
  <2>7. ~overlapped => HasIn(quarantine, q) /\ \A k \in DOMAIN ledger : ledger[k] # e
    BY <1>4, <2>1 DEF Numbered, RejectedIn
  <2>8. ~overlapped => Quarantined(quarantine, Append(ledger, e))
    BY <1>2, <1>4, <2>3, <2>7, QuarantinedWithEvent
  <2>9. Numbered(quarantine', ledger', "idle", NoJob)
    BY DEF Numbered
  <2>10. ~overlapped => Quarantined(quarantine', ledger')
    BY <2>1, <2>8
  <2>11. QuarantineInv'
    BY <1>3, <2>1, <2>9, <2>10, QuarantineOfStep
  <2>12. QED
    BY <2>6, <2>11 DEF Reconciling
<1>12. ASSUME NEW p \in Procs, Persist(p) \/ Check(p) \/ Reconcile(p) PROVE Reconciling'
  <2>1. /\ UNCHANGED <<register, quarantine, overlapped, crashes>> /\ ledger' = ledger
        /\ pc[p] \notin {"idle", "link", "rejected"}
    BY <1>12 DEF Persist, Check, Reconcile, At, files
  <2>2. \/ Stepped(p, "idle", NoJob) \/ Stepped(p, "check", job[p])
        \/ Stepped(p, "write", job[p]) \/ Stepped(p, "link", job[p])
    BY <1>4, <1>12 DEF Persist, Check, Reconcile, Leave, Goto, Stepped
  <2>3. QED
    BY <1>5, <2>1, <2>2
<1>13. ASSUME NEW p \in Procs, Write(p) PROVE Reconciling'
  <2> PICK r : r = Current(p)
    OBVIOUS
  <2>1. /\ Stepped(p, "link", job[p]) /\ register' = Append(register, r)
        /\ UNCHANGED <<quarantine, ledger, overlapped, crashes>> /\ pc[p] = "write"
    BY <1>4, <1>13 DEF Write, Stepped, Goto, At
  <2>2. \A n \in DOMAIN register' : n \in DOMAIN register \/ register'[n] = r
    <3>1. /\ Append(register, r)[Len(register) + 1] = r /\ Len(register) \in Nat
          /\ DOMAIN register = 1..Len(register)
          /\ DOMAIN Append(register, r) = 1..(Len(register) + 1)
      BY <1>2, <1>4, AppendGrows
    <3>2. QED
      BY <2>1, <3>1
  <2>3. r = Package(job[p].source, job[p].stamp)[job[p].next]
    BY <1>4
  <2>4. SettledInv'
    BY <1>1, <1>3, <2>1, <2>2, <2>3, SettledOfStep DEF Linking, Rejecting
  <2>5. Numbered(quarantine', ledger', "link", job[p])
    BY DEF Numbered
  <2>6. ~overlapped => Quarantined(quarantine', ledger')
    BY <1>4, <2>1
  <2>7. QuarantineInv'
    BY <1>3, <2>1, <2>5, <2>6, QuarantineOfStep
  <2>8. QED
    BY <2>4, <2>7 DEF Reconciling
<1>14. ASSUME NEW p \in Procs, Link(p) PROVE Reconciling'
  <2> PICK r : r = Current(p)
    OBVIOUS
  <2> PICK e : e = RegisteredEvent(r)
    OBVIOUS
  <2>1. /\ pc[p] = "link" /\ UNCHANGED <<register, quarantine, overlapped, crashes>>
        /\ r = Package(job[p].source, job[p].stamp)[job[p].next]
        /\ IF LinkedIn(ledger, r) THEN ledger' = ledger ELSE ledger' = Append(ledger, e)
    BY <1>4, <1>14 DEF Link, At, Log, LinkedIn
  <2>2. e \in AllEvents /\ ~RejectionLine(e)
    BY <1>4, EventsTyped DEF RegisteredEvent, RejectionLine
  <2>3. LinkedIn(ledger', r) /\ (~overlapped => Quarantined(quarantine', ledger'))
    <3>1. CASE LinkedIn(ledger, r)
      BY <1>4, <2>1, <3>1
    <3>2. CASE ~LinkedIn(ledger, r)
      <4>1. ledger' = Append(ledger, e)
        BY <2>1, <3>2
      <4>2. /\ Append(ledger, e)[Len(ledger) + 1] = e /\ Len(ledger) \in Nat
            /\ DOMAIN Append(ledger, e) = 1..(Len(ledger) + 1)
        BY <1>2, <2>2, AppendGrows
      <4>3. LinkedIn(Append(ledger, e), r)
        BY <4>2 DEF LinkedIn
      <4>4. ~overlapped => Quarantined(quarantine, Append(ledger, e))
        BY <1>2, <1>4, <2>2, QuarantinedWithEvent
      <4>5. QED
        BY <2>1, <4>1, <4>3, <4>4
    <3>3. QED
      BY <3>1, <3>2
  <2>4. PICK to, j : to \in {"accept", "check"} /\ Stepped(p, to, j)
    <3>1. Stepped(p, "accept", job[p]) \/ Stepped(p, "check", [job[p] EXCEPT !.next = @ + 1])
      BY <1>4, <1>14 DEF Link, Goto, Stepped
    <3>2. QED
      BY <3>1
  <2>5. SettledInv'
    BY <1>1, <1>3, <2>1, <2>3, <2>4, SettledOfStep DEF Linking, Rejecting
  <2>6. Numbered(quarantine', ledger', to, j)
    BY <2>4 DEF Numbered
  <2>7. QuarantineInv'
    BY <1>3, <2>1, <2>3, <2>4, <2>6, QuarantineOfStep
  <2>8. QED
    BY <2>5, <2>7 DEF Reconciling
<1>15. ASSUME NEW p \in Procs, Accept(p) PROVE Reconciling'
  <2> PICK e : e = AcceptedEvent(Records(p))
    OBVIOUS
  <2>1. e \in AllEvents /\ ~RejectionLine(e)
    BY <1>4, EventsTyped DEF AcceptedEvent, RejectionLine
  <2>2. /\ Stepped(p, "reconcile", job[p]) /\ ledger' = Append(ledger, e) /\ pc[p] = "accept"
        /\ UNCHANGED <<register, quarantine, overlapped, crashes>>
    BY <1>4, <1>15 DEF Accept, Goto, Stepped, Log, At
  <2>3. QED
    BY <1>5, <2>1, <2>2
<1>16. ASSUME NEW p \in Procs, Crash(p) PROVE Reconciling'
  <2>1. /\ Stepped(p, "idle", NoJob) /\ pc[p] # "idle" /\ crashes' = crashes + 1
        /\ UNCHANGED <<quarantine, ledger, overlapped>>
    BY <1>16 DEF Crash, Leave, Goto, Stepped, files
  <2>2. SettledInv'
    BY <1>2, <2>1 DEF SettledInv
  <2>3. Numbered(quarantine', ledger', "idle", NoJob)
    BY DEF Numbered
  <2>4. ~overlapped => Quarantined(quarantine', ledger')
    BY <1>4, <2>1
  <2>5. QuarantineInv'
    BY <1>3, <2>1, <2>3, <2>4, QuarantineOfStep
  <2>6. QED
    BY <2>2, <2>5 DEF Reconciling
<1>17. CASE UNCHANGED vars
  <2>1. UNCHANGED <<pc, job, register, quarantine, ledger, crashes, overlapped>>
    BY <1>17 DEF vars, files
  <2>2. QED
    BY <2>1 DEF Reconciling, SettledInv, AllSettled, QuarantineInv
<1>18. QED
  BY <1>6, <1>7, <1>8, <1>9, <1>10, <1>11, <1>12, <1>13, <1>14, <1>15, <1>16, <1>17 DEF Next

LEMMA ReconcilingInvariant == Spec => []Reconciling
<1>1. Typed /\ SerialInv /\ Reconciling /\ [Next]_vars => Reconciling'
  BY ReconcilingStep
<1>2. QED
  BY <1>1, ReconcilingInit, SerialInvariant, PTL DEF Spec

(* With no record waiting for its event the register is valid.            *)
LEMMA RegisterReconciles ==
    ASSUME EvidenceInv, SerialInv, Reconciling, ~overlapped, crashes = 0,
           \A p \in Procs : pc[p] # "link"
    PROVE  RegisterValid
<1>1. /\ Corpus(register, ledger, objects) /\ UniqueIn(register) /\ AllSettled
  BY DEF EvidenceInv, SerialInv, Reconciling, SettledInv
<1>2. \A n \in DOMAIN register : LinkedIn(ledger, register[n])
  BY <1>1 DEF AllSettled, Linking
<1>3. ASSUME NEW n \in DOMAIN register PROVE OneEvent(RegisteredEvent(register[n]))
  <2>1. PICK k \in DOMAIN ledger : ledger[k] = RegisteredEvent(register[n])
    BY <1>2 DEF LinkedIn
  <2>2. Registration(ledger[k])
    BY <2>1 DEF RegisteredEvent, Registration
  <2>3. \A l \in DOMAIN ledger : ledger[l] = RegisteredEvent(register[n]) <=> l = k
    BY <1>1, <2>1, <2>2 DEF Corpus
  <2>4. QED
    BY <2>3 DEF OneEvent
<1>4. /\ \A n \in DOMAIN register : RelatedTo(register[n]) \subseteq Ids
      /\ \A k \in DOMAIN ledger : ledger[k].type = "evidence_record_registered" =>
             \E n \in DOMAIN register : register[n] = ledger[k].about
  BY <1>1 DEF Corpus, RecordSound, EventSound, Registration, HasIn, Ids, IdsOf
<1>5. QED
  BY <1>1, <1>3, <1>4 DEF RegisterValid, UniqueIn

(* ReconcilesUnlessInterrupted: without overlap and death `athena           *)
(* validate-intake` passes whenever nobody is at work (intake.py 739-787). *)
THEOREM UninterruptedReconciles == Spec => []ReconcilesUnlessInterrupted
<1>1. ASSUME EvidenceInv, SerialInv, Reconciling PROVE ReconcilesUnlessInterrupted
  <2> SUFFICES ASSUME ~overlapped, crashes = 0, \A p \in Procs : pc[p] = "idle"
               PROVE  IntakeStateValid
    BY DEF ReconcilesUnlessInterrupted
  <2>1. /\ Corpus(register, ledger, objects) /\ UniqueIn(register)
        /\ Quarantined(quarantine, ledger) /\ AllSettled
    BY <1>1 DEF EvidenceInv, SerialInv, Reconciling, SettledInv, QuarantineInv
  <2>2. \A n \in DOMAIN quarantine : RejectedIn(ledger, quarantine[n])
    BY <2>1 DEF AllSettled, Rejecting
  <2>3. RegisterValid
    BY <1>1, RegisterReconciles
  <2>4. QuarantineValid
    <3>1. ASSUME NEW n \in DOMAIN quarantine PROVE OneEvent(RejectedEvent(quarantine[n]))
      <4>1. PICK k \in DOMAIN ledger : ledger[k] = RejectedEvent(quarantine[n])
        BY <2>2 DEF RejectedIn
      <4>2. RejectionLine(ledger[k])
        BY <4>1 DEF RejectedEvent, RejectionLine
      <4>3. \A l \in DOMAIN ledger : ledger[l] = RejectedEvent(quarantine[n]) <=> l = k
        BY <2>1, <4>1, <4>2 DEF Quarantined
      <4>4. QED
        BY <4>3 DEF OneEvent
    <3>2. QED
      BY <2>1, <3>1 DEF QuarantineValid, Quarantined, RejectionLine, HasIn
  <2>5. PaperBytesRetained
    BY <2>1 DEF Corpus, RecordSound, PaperBytesRetained, Papers
  <2>6. QED
    BY <2>3, <2>4, <2>5 DEF IntakeStateValid
<1>2. QED
  BY <1>1, ReconcilingInvariant, SerialInvariant, PTL

(* ConfirmedUnlessInterrupted: an intake logged as accepted ends in an     *)
(* exception only after a death or an overlap (intake.py 678-699,          *)
(* records.py 545-590).                                                    *)
THEOREM AcceptanceIsConfirmed == Spec => []ConfirmedUnlessInterrupted
<1>1. Init => ConfirmedUnlessInterrupted
  BY DEF Init, ConfirmedUnlessInterrupted
<1>2. ASSUME Typed, EvidenceInv, SerialInv, Reconciling, ConfirmedUnlessInterrupted, [Next]_vars
      PROVE  ConfirmedUnlessInterrupted'
  <2>1. crashes \in Nat /\ overlapped \in BOOLEAN /\ raised \in BOOLEAN
    BY <1>2, TypesAre DEF Typed
  <2>2. ASSUME raised' = raised, overlapped => overlapped', crashes' \in {crashes, crashes + 1}
        PROVE  ConfirmedUnlessInterrupted'
    <3>1. crashes > 0 => crashes' > 0
      BY <2>1, <2>2
    <3>2. QED
      BY <1>2, <2>2, <3>1 DEF ConfirmedUnlessInterrupted
  <2>3. ASSUME NEW p \in Procs, NEW s \in Sources, Submit(p, s)
        PROVE  ConfirmedUnlessInterrupted'
    <3>1. raised' = raised /\ crashes' = crashes /\ (overlapped => overlapped')
      BY <2>3 DEF Submit
    <3>2. QED
      BY <2>2, <3>1
  <2>4. ASSUME NEW p \in Procs, Reconcile(p) PROVE ConfirmedUnlessInterrupted'
    <3>1. (raised' <=> raised \/ ~RegisterValid) /\ overlapped' = overlapped /\ crashes' = crashes
      BY <2>4 DEF Reconcile
    <3>2. ASSUME ~overlapped, crashes = 0 PROVE RegisterValid
      <4>1. pc[p] = "reconcile" /\ Alone
        BY <1>2, <2>4, <3>2 DEF Reconcile, At, SerialInv
      <4>2. \A q \in Procs : pc[q] # "link"
        BY <4>1 DEF Alone
      <4>3. QED
        BY <1>2, <3>2, <4>2, RegisterReconciles
    <3>3. crashes > 0 \/ crashes = 0
      BY <2>1
    <3>4. QED
      BY <1>2, <3>1, <3>2, <3>3 DEF ConfirmedUnlessInterrupted
  <2>5. ASSUME NEW p \in Procs, \/ Preflight(p) \/ Duplicate(p) \/ NumberRejection(p) \/ Reject(p)
                                \/ LinkRejection(p) \/ Persist(p) \/ Check(p) \/ Write(p)
                                \/ Link(p) \/ Accept(p) \/ Crash(p)
        PROVE  ConfirmedUnlessInterrupted'
    <3>1. raised' = raised /\ overlapped' = overlapped /\ crashes' \in {crashes, crashes + 1}
      BY <2>5 DEF Preflight, Duplicate, NumberRejection, Reject, LinkRejection, Persist, Check,
                  Write, Link, Accept, Crash
    <3>2. QED
      BY <2>2, <3>1
  <2>6. CASE UNCHANGED vars
    BY <2>2, <2>6 DEF vars
  <2>7. QED
    BY <1>2, <2>3, <2>4, <2>5, <2>6 DEF Next
<1>3. QED
  BY <1>1, <1>2, ReconcilingInvariant, SerialInvariant, PTL DEF Spec

=============================================================================
