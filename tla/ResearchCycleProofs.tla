------------------------- MODULE ResearchCycleProofs -------------------------
(***************************************************************************)
(* Research cycles that overlap, die and repeat one another's records, for  *)
(* any number of processes, requests and policies: the types, that         *)
(* evidence comes first, and that the published status is on record.       *)
(***************************************************************************)
EXTENDS ResearchCycle, SequenceTheorems, InductionLemmas, TLAPS

JobTypes == [request : Requests, cycle : Cycles, bound : Policies,
             next : 1..4, verdict : Nat]

-----------------------------------------------------------------------------
(* Records and events.                                                     *)

LEMMA InputsTyped ==
    ASSUME NEW r \in Requests, NEW pol \in Policies
    PROVE  /\ Inputs(r, pol) \in AllInputs
           /\ \A i \in 1..3 : Inputs(r, pol)[i] \in AllRecords
           /\ \A i \in 1..3 : Inputs(r, pol)[i].kind # "validation_result"
           /\ Inputs(r, pol) \in Seq(AllRecords) /\ Len(Inputs(r, pol)) = 3
<1>1. Inputs(r, pol) \in AllInputs
  BY DEF AllInputs
<1>2. \A i \in 1..3 : Inputs(r, pol)[i] \in AllRecords
  BY <1>1 DEF AllRecords
<1>3. \A i \in 1..3 : Inputs(r, pol)[i].kind # "validation_result"
  BY DEF Inputs, Dataset, Strategy, Experiment, Record
<1>4. Inputs(r, pol) \in Seq(AllRecords) /\ Len(Inputs(r, pol)) = 3
  <2>1. /\ Inputs(r, pol)[1] = Dataset(r) /\ Inputs(r, pol)[2] = Strategy(r)
        /\ Inputs(r, pol)[3] = Experiment(r, pol)
    BY DEF Inputs
  <2>2. Dataset(r) \in AllRecords /\ Strategy(r) \in AllRecords /\ Experiment(r, pol) \in AllRecords
    BY <1>2, <2>1
  <2>3. QED
    BY <2>2 DEF Inputs
<1>5. QED
  BY <1>1, <1>2, <1>3, <1>4

LEMMA CurrentIs ==
    ASSUME TypeOK, NEW p \in Procs
    PROVE  /\ job[p] \in JobTypes
           /\ \A i \in 1..3 : InputsOf(p)[i] \in AllRecords /\ Records(p)[i] = InputsOf(p)[i]
                              /\ InputsOf(p)[i].kind # "validation_result"
           /\ InputsOf(p) \in AllInputs
           /\ Records(p)[4] = Validation(job[p].request, job[p].bound, job[p].cycle)
           /\ Current(p) \in AllRecords
<1>1. job[p] \in JobTypes
  BY DEF TypeOK, JobTypes
<1>2. /\ InputsOf(p) \in AllInputs /\ InputsOf(p) \in Seq(AllRecords) /\ Len(InputsOf(p)) = 3
      /\ \A i \in 1..3 : InputsOf(p)[i] \in AllRecords /\ InputsOf(p)[i].kind # "validation_result"
  BY <1>1, InputsTyped DEF InputsOf, JobTypes
<1> DEFINE v == Validation(job[p].request, job[p].bound, job[p].cycle)
<1>3. v \in AllRecords
  BY <1>1 DEF AllRecords, JobTypes
<1> HIDE DEF v
<1>4. /\ \A i \in 1..3 : Append(InputsOf(p), v)[i] = InputsOf(p)[i]
      /\ Append(InputsOf(p), v)[4] = v
  <2>1. ASSUME NEW s \in Seq(AllRecords), Len(s) = 3
        PROVE  (\A i \in 1..3 : Append(s, v)[i] = s[i]) /\ Append(s, v)[4] = v
    <3>1. /\ \A i \in 1..Len(s) : Append(s, v)[i] = s[i]
          /\ Append(s, v)[Len(s) + 1] = v
      BY <1>3, AppendProperties
    <3>2. 3 + 1 = 4
      OBVIOUS
    <3>3. QED
      BY <2>1, <3>1, <3>2
  <2>2. QED
    BY <1>2, <2>1
<1>5. /\ \A i \in 1..3 : Records(p)[i] = InputsOf(p)[i]
      /\ Records(p)[4] = v
  BY <1>4 DEF Records, v
<1>6. Current(p) \in AllRecords
  <2>1. job[p].next \in 1..3 \/ job[p].next = 4
    BY <1>1 DEF JobTypes
  <2>2. QED
    BY <1>2, <1>3, <1>5, <2>1 DEF Current
<1>7. QED
  BY <1>1, <1>2, <1>5, <1>6 DEF v

LEMMA EventsTyped ==
    /\ \A x \in AllRecords : RegisteredEvent(x) \in AllEvents
    /\ \A i \in AllInputs, t \in Cycles : SubmittedEvent(i, t) \in AllEvents
    /\ \A r \in Requests, b, pol \in Policies, t \in Cycles :
           VerdictEvent(Inputs(r, b), t, pol) \in AllEvents
<1>1. ASSUME NEW r \in Requests, NEW b \in Policies, NEW pol \in Policies, NEW t \in Cycles
      PROVE  VerdictEvent(Inputs(r, b), t, pol) \in AllEvents
  <2>1. \A q, rules : Verdict(q, rules) \in {"REJECT", "HOLD", "PROMOTE"}
    BY DEF Verdict
  <2>2. Inputs(r, b) \in AllInputs
    BY InputsTyped
  <2>3. QED
    BY <2>1, <2>2 DEF VerdictEvent, AllEvents
<1>2. QED
  BY <1>1 DEF AllEvents

-----------------------------------------------------------------------------
(* Type correctness.                                                       *)

LEMMA TypeInit ==
    ASSUME Init
    PROVE  TypeOK
<1>1. 0 \in Cycles /\ MaxCycles \in Nat
  BY CycleAssumption DEF Cycles
<1>2. NoJob \in JobTypes /\ NoStatus \in Statuses
  BY <1>1, CycleAssumption DEF NoJob, NoStatus, JobTypes, Statuses
<1>3. job \in [Procs -> JobTypes] /\ pc \in [Procs -> Labels]
  BY <1>2 DEF Init, Labels
<1>4. register \in Seq(AllRecords) /\ ledger \in Seq(AllEvents)
  BY DEF Init
<1>5. QED
  BY <1>1, <1>2, <1>3, <1>4 DEF Init, TypeOK, JobTypes

(* A change of one job. *)
LEMMA JobTyped ==
    ASSUME TypeOK, NEW p \in Procs, NEW j \in JobTypes, job' = [job EXCEPT ![p] = j]
    PROVE  job' \in [Procs -> JobTypes]
BY DEF TypeOK, JobTypes

LEMMA TypeStep ==
    ASSUME TypeOK, [Next]_vars
    PROVE  TypeOK'
<1> USE DEF At, Goto, files, counts
<1>1. ASSUME NEW p \in Procs, NEW r \in Requests, Begin(p, r) PROVE TypeOK'
  <2>1. cycles + 1 \in Cycles
    BY <1>1, CycleAssumption DEF Begin, TypeOK, Cycles
  <2>2. NoJob \in JobTypes /\ policy \in Policies
    BY CycleAssumption DEF NoJob, JobTypes, Cycles, TypeOK
  <2>3. [NoJob EXCEPT !.request = r, !.cycle = cycles + 1, !.bound = policy] \in JobTypes
    BY <2>1, <2>2 DEF JobTypes
  <2>4. job' \in [Procs -> JobTypes]
    BY <1>1, <2>3, JobTyped DEF Begin
  <2>5. QED
    BY <1>1, <2>1, <2>4 DEF Begin, TypeOK, Labels, JobTypes
<1>2. ASSUME NEW p \in Procs, Leave(p), policy' = policy, register' = register,
             ledger' = ledger, temporary' \in Statuses, status' \in Statuses,
             cycles' = cycles, mishaps' \in Nat, overlapped' = overlapped
      PROVE  TypeOK'
  <2>1. NoJob \in JobTypes
    BY CycleAssumption DEF NoJob, JobTypes, Cycles
  <2>2. QED
    BY <1>2, <2>1 DEF Leave, TypeOK, Labels, JobTypes
<1>3. ASSUME NEW p \in Procs, Check(p) PROVE TypeOK'
  <2>1. CASE Leave(p)
    BY <1>2, <1>3, <2>1 DEF Check, TypeOK
  <2>2. CASE ~Leave(p)
    BY <1>3, <2>2 DEF Check, TypeOK, Labels
  <2>3. QED
    BY <2>1, <2>2
<1>4. ASSUME NEW p \in Procs, Write(p) PROVE TypeOK'
  <2>1. register' \in Seq(AllRecords)
    BY <1>4, CurrentIs, AppendProperties DEF Write, TypeOK
  <2>2. QED
    BY <1>4, <2>1 DEF Write, TypeOK, Labels
<1>5. ASSUME NEW event \in AllEvents, Log(event) PROVE ledger' \in Seq(AllEvents)
  BY <1>5, AppendProperties DEF Log, TypeOK
<1>6. ASSUME NEW p \in Procs, Link(p) PROVE TypeOK'
  <2>1. ledger' \in Seq(AllEvents)
    BY <1>5, <1>6, CurrentIs, EventsTyped DEF Link, TypeOK
  <2>2. job' \in [Procs -> JobTypes]
    <3>1. CASE UNCHANGED job
      BY <3>1 DEF TypeOK, JobTypes
    <3>2. CASE job[p].next < 3 /\ job' = [job EXCEPT ![p].next = @ + 1]
      <4>1. [job[p] EXCEPT !.next = @ + 1] \in JobTypes
        BY <3>2, CurrentIs DEF JobTypes
      <4>2. QED
        BY <3>2, <4>1, JobTyped
    <3>3. QED
      BY <1>6, <3>1, <3>2 DEF Link
  <2>3. pc' \in [Procs -> Labels]
    BY <1>6 DEF Link, TypeOK, Labels
  <2>4. QED
    BY <1>6, <2>1, <2>2, <2>3 DEF Link, TypeOK, JobTypes
<1>7. ASSUME NEW p \in Procs, Submit(p) PROVE TypeOK'
  <2>1. ledger' \in Seq(AllEvents)
    BY <1>5, <1>7, CurrentIs, EventsTyped DEF Submit, JobTypes
  <2>2. QED
    BY <1>7, <2>1 DEF Submit, TypeOK, Labels
<1>8. ASSUME NEW p \in Procs, Deliver(p) PROVE TypeOK'
  <2>1. ledger' \in Seq(AllEvents)
    <3>1. VerdictEvent(InputsOf(p), job[p].cycle, policy) \in AllEvents
      BY CurrentIs, EventsTyped DEF InputsOf, JobTypes, TypeOK
    <3>2. QED
      BY <1>5, <1>8, <3>1 DEF Deliver
  <2>2. Len(ledger) + 1 \in Nat
    BY LenProperties DEF TypeOK
  <2>3. job' \in [Procs -> JobTypes]
    <3>1. job[p] \in JobTypes /\ 4 \in 1..4
      BY CurrentIs
    <3>2. [job[p] EXCEPT !.verdict = Len(ledger) + 1, !.next = 4] \in JobTypes
      BY <2>2, <3>1 DEF JobTypes
    <3>3. job' = [job EXCEPT ![p] = [job[p] EXCEPT !.verdict = Len(ledger) + 1, !.next = 4]]
      BY <1>8, <3>1 DEF Deliver, TypeOK
    <3>4. QED
      BY <3>2, <3>3, JobTyped
  <2>4. QED
    BY <1>8, <2>1, <2>3 DEF Deliver, AfterVerdict, TypeOK, Labels, JobTypes
<1>9. ASSUME NEW p \in Procs, Draft(p) PROVE TypeOK'
  <2>1. DraftOf(p) \in Statuses
    BY CurrentIs DEF DraftOf, Statuses, JobTypes
  <2>2. CASE RegisterValid
    BY <1>9, <2>1, <2>2 DEF Draft, Drafted, TypeOK, Labels
  <2>3. CASE ~RegisterValid
    BY <1>2, <1>9, <2>3 DEF Draft, TypeOK
  <2>4. QED
    BY <2>2, <2>3
<1>10. ASSUME NEW p \in Procs, Publish(p) PROVE TypeOK'
  <2>1. temporary' \in Statuses /\ status' \in Statuses
    BY <1>10, CycleAssumption DEF Publish, TypeOK, NoStatus, Statuses, Cycles
  <2>2. QED
    BY <1>2, <1>10, <2>1 DEF Publish, TypeOK
<1>11. ASSUME NEW p \in Procs, Crash(p) PROVE TypeOK'
  BY <1>2, <1>11 DEF Crash, TypeOK
<1>12. CASE EditPolicy
  BY <1>12 DEF EditPolicy, TypeOK
<1>13. CASE UNCHANGED vars
  BY <1>13 DEF vars, TypeOK
<1>14. QED
  BY <1>1, <1>3, <1>4, <1>6, <1>7, <1>8, <1>9, <1>10, <1>11, <1>12, <1>13 DEF Next

(* TypeOK: cycles that overlap, die and repeat one another's records keep  *)
(* every file and every process well-typed.                                *)
THEOREM CycleTypes == Spec => []TypeOK
BY TypeInit, TypeStep, PTL DEF Spec

-----------------------------------------------------------------------------
(* The register and the ledger only grow.                                  *)

Grows(s, t) == /\ DOMAIN s \subseteq DOMAIN t /\ Len(s) <= Len(t)
               /\ \A n \in DOMAIN s : t[n] = s[n]

FilesGrow == Grows(register, register') /\ Grows(ledger, ledger')

LEMMA AppendGrows ==
    ASSUME NEW S, NEW s \in Seq(S), NEW x \in S
    PROVE  /\ Grows(s, s) /\ Grows(s, Append(s, x))
           /\ Len(s) \in Nat /\ Len(Append(s, x)) = Len(s) + 1 /\ Append(s, x)[Len(s) + 1] = x
           /\ DOMAIN s = 1..Len(s) /\ DOMAIN Append(s, x) = 1..(Len(s) + 1)
<1>1. /\ Append(s, x) \in Seq(S) /\ Len(Append(s, x)) = Len(s) + 1
      /\ \A n \in 1..Len(s) : Append(s, x)[n] = s[n]
      /\ Append(s, x)[Len(s) + 1] = x
      /\ Len(s) \in Nat /\ DOMAIN s = 1..Len(s)
      /\ DOMAIN Append(s, x) = 1..Len(Append(s, x))
  BY AppendProperties, LenProperties
<1>2. QED
  BY <1>1 DEF Grows

(* Which steps write, and what. *)
Logs(event) == Log(event) /\ event \in AllEvents

LEMMA FilesStep ==
    ASSUME TypeOK, [Next]_vars
    PROVE  /\ \/ register' = register
              \/ \E p \in Procs : Write(p) /\ register' = Append(register, Current(p))
           /\ \/ ledger' = ledger
              \/ \E p \in Procs : Link(p) /\ ~Linked(Current(p))
                                          /\ Logs(RegisteredEvent(Current(p)))
              \/ \E p \in Procs : Submit(p) /\ Logs(SubmittedEvent(InputsOf(p), job[p].cycle))
              \/ \E p \in Procs : Deliver(p) /\ Logs(VerdictEvent(InputsOf(p), job[p].cycle, policy))
<1> USE DEF files, Logs
<1>1. ASSUME NEW p \in Procs, NEW r \in Requests, Begin(p, r) PROVE UNCHANGED files
  BY <1>1 DEF Begin
<1>2. ASSUME NEW p \in Procs, Check(p) \/ Draft(p) \/ Publish(p) \/ Crash(p)
      PROVE  register' = register /\ ledger' = ledger
  BY <1>2 DEF Check, Draft, Publish, Crash
<1>3. ASSUME NEW p \in Procs, Write(p)
      PROVE  ledger' = ledger /\ register' = Append(register, Current(p))
  BY <1>3 DEF Write
<1>4. ASSUME NEW p \in Procs, Link(p)
      PROVE  /\ register' = register
             /\ \/ ledger' = ledger
                \/ ~Linked(Current(p)) /\ Logs(RegisteredEvent(Current(p)))
  BY <1>4, CurrentIs, EventsTyped DEF Link
<1>5. ASSUME NEW p \in Procs, Submit(p)
      PROVE  register' = register /\ Logs(SubmittedEvent(InputsOf(p), job[p].cycle))
  BY <1>5, CurrentIs, EventsTyped DEF Submit, JobTypes
<1>6. ASSUME NEW p \in Procs, Deliver(p)
      PROVE  register' = register /\ Logs(VerdictEvent(InputsOf(p), job[p].cycle, policy))
  <2>1. VerdictEvent(InputsOf(p), job[p].cycle, policy) \in AllEvents
    BY CurrentIs, EventsTyped DEF InputsOf, JobTypes, TypeOK
  <2>2. QED
    BY <1>6, <2>1 DEF Deliver
<1>7. CASE EditPolicy \/ UNCHANGED vars
  BY <1>7 DEF EditPolicy, vars
<1>8. CASE \E p \in Procs : \/ \E r \in Requests : Begin(p, r)
                            \/ Check(p) \/ Draft(p) \/ Publish(p) \/ Crash(p)
  BY <1>1, <1>2, <1>8
<1>9. CASE \E p \in Procs : Write(p)
  BY <1>3, <1>9
<1>10. CASE \E p \in Procs : Link(p)
  BY <1>4, <1>10
<1>11. CASE \E p \in Procs : Submit(p)
  BY <1>5, <1>11
<1>12. CASE \E p \in Procs : Deliver(p)
  BY <1>6, <1>12
<1>13. QED
  BY <1>7, <1>8, <1>9, <1>10, <1>11, <1>12 DEF Next

LEMMA FilesOnlyGrow ==
    ASSUME TypeOK, [Next]_vars
    PROVE  FilesGrow
<1>1. register \in Seq(AllRecords) /\ ledger \in Seq(AllEvents)
  BY DEF TypeOK
<1>2. Grows(register, register')
  <2>1. ASSUME NEW p \in Procs, register' = Append(register, Current(p))
        PROVE  Grows(register, register')
    BY <1>1, <2>1, CurrentIs, AppendGrows
  <2>2. Grows(register, register)
    BY <1>1 DEF Grows
  <2>3. QED
    BY <2>1, <2>2, FilesStep
<1>3. ASSUME NEW event, Logs(event) PROVE Grows(ledger, ledger')
  BY <1>1, <1>3, AppendGrows DEF Logs, Log
<1>4. Grows(ledger, ledger)
  BY <1>1 DEF Grows
<1>5. Grows(ledger, ledger')
  BY <1>3, <1>4, FilesStep
<1>6. QED
  BY <1>2, <1>5 DEF FilesGrow

-----------------------------------------------------------------------------
(* Evidence first: how far each cycle has come with its input records.     *)

Registered(x) == \E n \in DOMAIN register : register[n] = x
Inputted(p, n) == \A i \in 1..n : Registered(InputsOf(p)[i]) /\ Linked(InputsOf(p)[i])

EvidenceAt(k, inputs, cycle) ==
    /\ ledger[k] = SubmittedEvent(inputs, cycle)
    /\ \A i \in 1..3 : /\ Registered(inputs[i])
                       /\ \E l \in 1..(k - 1) : ledger[l] = RegisteredEvent(inputs[i])

AtRecords == {"check", "write", "link"}

Progress(p) ==
    /\ pc[p] \in AtRecords => Inputted(p, job[p].next - 1)
    /\ pc[p] = "link" => Registered(Current(p))
    /\ pc[p] = "submit" => Inputted(p, 3)
    /\ pc[p] = "verdict" =>
           \E k \in DOMAIN ledger : EvidenceAt(k, InputsOf(p), job[p].cycle)

EvidenceInv == \A p \in Procs : Progress(p)

(* The same of the files after a step, for values taken before it. *)
RegisteredThen(x) == \E n \in DOMAIN register' : register'[n] = x
LinkedThen(x) == \E j \in DOMAIN ledger' : ledger'[j] = RegisteredEvent(x)
EvidenceThen(k, inputs, cycle) ==
    /\ ledger'[k] = SubmittedEvent(inputs, cycle)
    /\ \A i \in 1..3 : /\ RegisteredThen(inputs[i])
                       /\ \E l \in 1..(k - 1) : ledger'[l] = RegisteredEvent(inputs[i])

(* What is registered and linked stays so. *)
LEMMA EvidenceLasts ==
    ASSUME TypeOK, TypeOK', FilesGrow
    PROVE  /\ \A x : Registered(x) => RegisteredThen(x)
           /\ \A x : Linked(x) => LinkedThen(x)
           /\ \A inputs, cycle : \A k \in DOMAIN ledger :
                  EvidenceAt(k, inputs, cycle) => EvidenceThen(k, inputs, cycle)
           /\ \A x : RegisteredThen(x) <=> Registered(x)'
           /\ \A x : LinkedThen(x) <=> Linked(x)'
           /\ \A k, inputs, cycle : EvidenceThen(k, inputs, cycle) <=> EvidenceAt(k, inputs, cycle)'
<1>1. \A x : Registered(x) => RegisteredThen(x)
  BY DEF Registered, RegisteredThen, FilesGrow, Grows
<1>2. \A x : Linked(x) => LinkedThen(x)
  BY DEF Linked, LinkedThen, Positions, FilesGrow, Grows
<1>3. ASSUME NEW inputs, NEW cycle, NEW k \in DOMAIN ledger, EvidenceAt(k, inputs, cycle)
      PROVE  EvidenceThen(k, inputs, cycle)
  <2>1. DOMAIN ledger = 1..Len(ledger) /\ Len(ledger) \in Nat
    BY LenProperties DEF TypeOK
  <2>2. \A l \in 1..(k - 1) : l \in DOMAIN ledger
    BY <2>1
  <2>3. \A l \in 1..(k - 1) : ledger'[l] = ledger[l]
    BY <2>2 DEF FilesGrow, Grows
  <2>4. ledger'[k] = ledger[k]
    BY DEF FilesGrow, Grows
  <2>5. QED
    BY <1>1, <1>3, <2>3, <2>4 DEF EvidenceAt, EvidenceThen
<1>4. \A x : RegisteredThen(x) <=> Registered(x)'
  BY DEF Registered, RegisteredThen
<1>5. \A x : LinkedThen(x) <=> Linked(x)'
  BY DEF Linked, LinkedThen, Positions, RegisteredEvent
<1>6. \A k, inputs, cycle : EvidenceThen(k, inputs, cycle) <=> EvidenceAt(k, inputs, cycle)'
  BY <1>4 DEF EvidenceAt, EvidenceThen, SubmittedEvent, RegisteredEvent
<1>7. QED
  BY <1>1, <1>2, <1>3, <1>4, <1>5, <1>6

LEMMA ProgressLasts ==
    ASSUME TypeOK, TypeOK', FilesGrow, NEW q \in Procs, Progress(q),
           pc'[q] = pc[q], job'[q] = job[q]
    PROVE  Progress(q)'
<1>1. InputsOf(q)' = InputsOf(q) /\ Records(q)' = Records(q) /\ Current(q)' = Current(q)
  BY DEF InputsOf, Records, Current
<1>2. \A n : Inputted(q, n) => Inputted(q, n)'
  BY <1>1, EvidenceLasts DEF Inputted
<1>3. \A k \in DOMAIN ledger :
          EvidenceAt(k, InputsOf(q), job[q].cycle) => EvidenceAt(k, InputsOf(q), job[q].cycle)'
  <2>1. PICK inputs, cycle : inputs = InputsOf(q) /\ cycle = job[q].cycle
    OBVIOUS
  <2>2. \A k \in DOMAIN ledger : EvidenceAt(k, inputs, cycle) => EvidenceAt(k, inputs, cycle)'
    BY EvidenceLasts
  <2>3. inputs = InputsOf(q)' /\ cycle = job'[q].cycle
    BY <1>1, <2>1
  <2>4. QED
    BY <2>1, <2>2, <2>3 DEF EvidenceAt
<1>4. DOMAIN ledger \subseteq DOMAIN ledger'
  BY DEF FilesGrow, Grows
<1>5. QED
  BY <1>1, <1>2, <1>3, <1>4, EvidenceLasts DEF Progress

(* A step of one process leaves the others where they are. *)
OnlyMoves(p) == \A q \in Procs \ {p} : pc'[q] = pc[q] /\ job'[q] = job[q]

LEMMA OwnProgress ==
    ASSUME TypeOK, TypeOK', FilesGrow, EvidenceInv, NEW p \in Procs, OnlyMoves(p), Progress(p)'
    PROVE  EvidenceInv'
<1>1. ASSUME NEW q \in Procs, q # p PROVE Progress(q)'
  BY <1>1, ProgressLasts DEF EvidenceInv, OnlyMoves
<1>2. QED
  BY <1>1 DEF EvidenceInv

LEMMA StepsMoveOne ==
    ASSUME TypeOK, TypeOK', [Next]_vars
    PROVE  \/ pc' = pc /\ job' = job
           \/ \E p \in Procs : /\ OnlyMoves(p)
                               /\ \/ \E r \in Requests : Begin(p, r)
                                  \/ Check(p) \/ Write(p) \/ Link(p) \/ Submit(p) \/ Deliver(p)
                                  \/ Draft(p) \/ Publish(p) \/ Crash(p)
<1> USE DEF TypeOK, OnlyMoves, Goto, Leave
<1>1. ASSUME NEW p \in Procs, NEW r \in Requests, Begin(p, r) PROVE OnlyMoves(p)
  BY <1>1 DEF Begin
<1>2. ASSUME NEW p \in Procs, Check(p) \/ Draft(p) PROVE OnlyMoves(p)
  BY <1>2 DEF Check, Draft
<1>3. ASSUME NEW p \in Procs, Write(p) \/ Submit(p) \/ Publish(p) \/ Crash(p) PROVE OnlyMoves(p)
  BY <1>3 DEF Write, Submit, Publish, Crash
<1>4. ASSUME NEW p \in Procs, Link(p) PROVE OnlyMoves(p)
  BY <1>4 DEF Link
<1>5. ASSUME NEW p \in Procs, Deliver(p) PROVE OnlyMoves(p)
  BY <1>5 DEF Deliver
<1>6. CASE EditPolicy \/ UNCHANGED vars
  BY <1>6 DEF EditPolicy, vars
<1>7. QED
  BY <1>1, <1>2, <1>3, <1>4, <1>5, <1>6 DEF Next

LEMMA ProgressMade ==
    ASSUME TypeOK, TypeOK', [Next]_vars, EvidenceInv
    PROVE  EvidenceInv'
<1> FilesGrow
  BY FilesOnlyGrow
<1>1. CASE pc' = pc /\ job' = job
  BY <1>1, ProgressLasts DEF EvidenceInv
<1> SUFFICES ASSUME NEW p \in Procs, OnlyMoves(p),
                    \/ \E r \in Requests : Begin(p, r)
                    \/ Check(p) \/ Write(p) \/ Link(p) \/ Submit(p) \/ Deliver(p)
                    \/ Draft(p) \/ Publish(p) \/ Crash(p)
             PROVE  Progress(p)'
  BY <1>1, StepsMoveOne, OwnProgress
<1>2. /\ job[p] \in JobTypes /\ Progress(p) /\ pc' \in [Procs -> Labels]
      /\ pc \in [Procs -> Labels] /\ job \in [Procs -> JobTypes]
  BY CurrentIs DEF EvidenceInv, TypeOK, JobTypes
<1>3. ASSUME job'[p] = job[p]
      PROVE  /\ \A n : Inputted(p, n) => Inputted(p, n)'
             /\ InputsOf(p)' = InputsOf(p) /\ Current(p)' = Current(p)
  BY <1>3, EvidenceLasts DEF Inputted, InputsOf, Current, Records
<1>4. ASSUME pc'[p] \in {"idle", "draft", "publish"} PROVE Progress(p)'
  BY <1>4 DEF Progress, AtRecords
<1>5. ASSUME Leave(p) PROVE Progress(p)'
  BY <1>2, <1>4, <1>5 DEF Leave, Goto
<1>6. ASSUME NEW r \in Requests, Begin(p, r) PROVE Progress(p)'
  <2>1. pc'[p] = "check" /\ job'[p].next = 1
    BY <1>2, <1>6 DEF Begin, Goto, NoJob
  <2>2. Inputted(p, 0)'
    BY DEF Inputted
  <2>3. QED
    BY <2>1, <2>2 DEF Progress, AtRecords
<1>7. ASSUME Check(p), ~Leave(p) PROVE Progress(p)'
  <2>1. /\ pc[p] = "check" /\ job' = job /\ ~Refused(Current(p))
        /\ pc'[p] = IF IsNew(Current(p)) THEN "write" ELSE "link"
    BY <1>2, <1>7 DEF Check, At, Goto
  <2>2. (Inputted(p, job[p].next - 1))'
    BY <1>2, <1>3, <2>1 DEF Progress, AtRecords
  <2>3. ASSUME ~IsNew(Current(p)) PROVE Registered(Current(p))
    <3>1. Matches(Current(p)) \in SUBSET Nat /\ Matches(Current(p)) # {}
      BY <2>3, LenProperties DEF IsNew, Matches, TypeOK
    <3>2. PICK n \in Matches(Current(p)) : \A k \in Matches(Current(p)) : n <= k
      BY <3>1, LeastNatural
    <3>3. register[n] = Current(p) /\ n \in DOMAIN register
      BY <2>1, <3>2 DEF Refused, Matches
    <3>4. QED
      BY <3>3 DEF Registered
  <2>4. pc'[p] = "link" => Registered(Current(p))'
    BY <1>3, <2>1, <2>3, EvidenceLasts
  <2>5. QED
    BY <2>1, <2>2, <2>4 DEF Progress
<1>8. ASSUME Write(p) PROVE Progress(p)'
  <2>1. /\ pc[p] = "write" /\ job' = job /\ pc'[p] = "link"
        /\ register' = Append(register, Current(p))
    BY <1>2, <1>8 DEF Write, At, Goto
  <2>2. (Inputted(p, job[p].next - 1))'
    BY <1>2, <1>3, <2>1 DEF Progress, AtRecords
  <2>3. Registered(Current(p))'
    <3>1. /\ Append(register, Current(p))[Len(register) + 1] = Current(p)
          /\ Len(register) + 1 \in DOMAIN register'
      BY <2>1, CurrentIs, AppendGrows DEF TypeOK
    <3>2. QED
      BY <1>3, <2>1, <3>1 DEF Registered
  <2>4. QED
    BY <2>1, <2>2, <2>3 DEF Progress
<1>9. ASSUME Link(p) PROVE Progress(p)'
  <2>1. /\ pc[p] = "link" /\ Registered(Current(p)) /\ Inputted(p, job[p].next - 1)
    BY <1>2, <1>9 DEF Link, At, Progress, AtRecords
  <2>2. RegisteredThen(Current(p)) /\ LinkedThen(Current(p))
    <3>1. CASE Linked(Current(p))
      BY <2>1, <3>1, EvidenceLasts
    <3>2. CASE ledger' = Append(ledger, RegisteredEvent(Current(p)))
      <4>1. /\ ledger'[Len(ledger) + 1] = RegisteredEvent(Current(p))
            /\ Len(ledger) + 1 \in DOMAIN ledger'
        BY <3>2, CurrentIs, EventsTyped, AppendGrows DEF TypeOK
      <4>2. QED
        BY <2>1, <4>1, EvidenceLasts DEF LinkedThen
    <3>3. QED
      BY <1>9, <3>1, <3>2 DEF Link, Log
  <2>3. ASSUME job[p].next \in 1..3
        PROVE  \A i \in 1..job[p].next :
                   RegisteredThen(InputsOf(p)[i]) /\ LinkedThen(InputsOf(p)[i])
    <3>1. Current(p) = InputsOf(p)[job[p].next]
      BY <2>3, CurrentIs DEF Current
    <3>2. \A i \in 1..(job[p].next - 1) :
              RegisteredThen(InputsOf(p)[i]) /\ LinkedThen(InputsOf(p)[i])
      BY <2>1, EvidenceLasts DEF Inputted
    <3>3. QED
      BY <2>2, <2>3, <3>1, <3>2
  <2>4. CASE job[p].next < 3
    <3>1. pc'[p] = "check" /\ job'[p] = [job[p] EXCEPT !.next = @ + 1]
      BY <1>2, <1>9, <2>4 DEF Link, Goto
    <3>2. /\ job'[p].next - 1 = job[p].next /\ job'[p].request = job[p].request
          /\ job'[p].bound = job[p].bound
      BY <1>2, <3>1 DEF JobTypes
    <3>3. (Inputted(p, job[p].next - 1))'
      <4>1. job[p].next \in 1..3 /\ InputsOf(p)' = InputsOf(p)
        BY <1>2, <2>4, <3>2 DEF InputsOf, JobTypes
      <4>2. \A i \in 1..job[p].next :
                RegisteredThen(InputsOf(p)[i]) /\ LinkedThen(InputsOf(p)[i])
        BY <2>3, <4>1
      <4>3. QED
        BY <3>2, <4>1, <4>2, EvidenceLasts DEF Inputted
    <3>4. QED
      BY <3>1, <3>3 DEF Progress
  <2>5. CASE job[p].next = 3
    <3>1. pc'[p] = "submit" /\ job' = job
      BY <1>2, <1>9, <2>5 DEF Link, Goto
    <3>2. Inputted(p, 3)'
      <4>1. \A i \in 1..3 : RegisteredThen(InputsOf(p)[i]) /\ LinkedThen(InputsOf(p)[i])
        BY <2>3, <2>5
      <4>2. QED
        BY <1>3, <3>1, <4>1, EvidenceLasts DEF Inputted
    <3>3. QED
      BY <3>1, <3>2 DEF Progress, AtRecords
  <2>6. CASE job[p].next = 4
    <3>1. pc'[p] = "draft"
      BY <1>2, <1>9, <2>6 DEF Link, Goto
    <3>2. QED
      BY <1>4, <3>1
  <2>7. QED
    BY <1>2, <2>4, <2>5, <2>6 DEF JobTypes
<1>10. ASSUME Submit(p) PROVE Progress(p)'
  <2>1. /\ pc'[p] = "verdict" /\ job' = job /\ Inputted(p, 3)
        /\ ledger' = Append(ledger, SubmittedEvent(InputsOf(p), job[p].cycle))
    BY <1>2, <1>10 DEF Submit, Log, At, Goto, Progress
  <2> PICK k : k = Len(ledger) + 1
    OBVIOUS
  <2>2. /\ k \in DOMAIN ledger' /\ ledger'[k] = SubmittedEvent(InputsOf(p), job[p].cycle)
        /\ DOMAIN ledger = 1..(k - 1)
    <3>1. SubmittedEvent(InputsOf(p), job[p].cycle) \in AllEvents
      BY CurrentIs, EventsTyped DEF JobTypes
    <3>2. Len(ledger) \in Nat => k - 1 = Len(ledger)
      OBVIOUS
    <3>3. QED
      BY <2>1, <3>1, <3>2, AppendGrows DEF TypeOK
  <2>3. ASSUME NEW i \in 1..3
        PROVE  /\ RegisteredThen(InputsOf(p)[i])
               /\ \E l \in 1..(k - 1) : ledger'[l] = RegisteredEvent(InputsOf(p)[i])
    <3>1. Registered(InputsOf(p)[i]) /\ Linked(InputsOf(p)[i])
      BY <2>1 DEF Inputted
    <3>2. \A l \in DOMAIN ledger : ledger'[l] = ledger[l]
      BY DEF FilesGrow, Grows
    <3>3. QED
      BY <2>2, <3>1, <3>2, EvidenceLasts DEF Linked, Positions
  <2>4. EvidenceThen(k, InputsOf(p), job[p].cycle)
    BY <2>2, <2>3 DEF EvidenceThen
  <2>5. EvidenceAt(k, InputsOf(p), job[p].cycle)'
    <3>1. InputsOf(p)' = InputsOf(p) /\ job'[p].cycle = job[p].cycle
      BY <1>3, <2>1
    <3>2. PICK inputs, cycle : inputs = InputsOf(p) /\ cycle = job[p].cycle
      OBVIOUS
    <3>3. EvidenceAt(k, inputs, cycle)'
      BY <2>4, <3>2, EvidenceLasts
    <3>4. QED
      BY <3>1, <3>2, <3>3 DEF EvidenceAt
  <2>6. QED
    BY <2>1, <2>2, <2>5 DEF Progress, AtRecords
<1>11. ASSUME Deliver(p) PROVE Progress(p)'
  <2>1. /\ pc[p] = "verdict" /\ pc'[p] = "check" /\ job'[p].next = 4
        /\ job'[p].request = job[p].request /\ job'[p].bound = job[p].bound
    BY <1>2, <1>11 DEF Deliver, At, Goto, AfterVerdict, JobTypes
  <2>2. PICK k \in DOMAIN ledger : EvidenceAt(k, InputsOf(p), job[p].cycle)
    BY <1>2, <2>1 DEF Progress
  <2>3. Inputted(p, 3)
    <3>1. DOMAIN ledger = 1..Len(ledger) /\ Len(ledger) \in Nat
      BY LenProperties DEF TypeOK
    <3>2. \A l \in 1..(k - 1) : l \in DOMAIN ledger
      BY <3>1
    <3>3. QED
      BY <2>2, <3>2 DEF EvidenceAt, Inputted, Linked, Positions
  <2>4. Inputted(p, 3)'
    <3>1. InputsOf(p)' = InputsOf(p)
      BY <2>1 DEF InputsOf
    <3>2. QED
      BY <2>3, <3>1, EvidenceLasts DEF Inputted
  <2>5. QED
    BY <2>1, <2>4 DEF Progress
<1>12. ASSUME Draft(p), ~Leave(p) PROVE Progress(p)'
  BY <1>2, <1>4, <1>12 DEF Draft, Goto
<1>13. ASSUME Publish(p) \/ Crash(p) PROVE Progress(p)'
  BY <1>5, <1>13 DEF Publish, Crash
<1>14. QED
  BY <1>5, <1>6, <1>7, <1>8, <1>9, <1>10, <1>11, <1>12, <1>13

LEMMA VerdictsHaveEvidence ==
    ASSUME TypeOK, TypeOK', [Next]_vars, EvidenceInv, EvidenceFirst
    PROVE  EvidenceFirst'
<1> FilesGrow
  BY FilesOnlyGrow
<1> DEFINE Evidenced(j) == \E k \in 1..(j - 1) : EvidenceAt(k, ledger[j].about, ledger[j].cycle)
           EvidencedThen(j) ==
               \E k \in 1..(j - 1) : EvidenceThen(k, ledger'[j].about, ledger'[j].cycle)
<1>1. EvidenceFirst <=> \A j \in Verdicts : Evidenced(j)
  BY DEF EvidenceFirst, EvidenceAt, Registered
<1>2. EvidenceFirst' <=> \A j \in Verdicts' : EvidencedThen(j)
  BY DEF EvidenceFirst, EvidenceThen, RegisteredThen, SubmittedEvent, RegisteredEvent
<1>3. DOMAIN ledger = 1..Len(ledger) /\ Len(ledger) \in Nat
  BY LenProperties DEF TypeOK
<1>4. ASSUME NEW j \in DOMAIN ledger, ledger'[j].type = "decision_court_verdict"
      PROVE  EvidencedThen(j)
  <2>1. ledger'[j] = ledger[j]
    BY DEF FilesGrow, Grows
  <2>2. PICK k \in 1..(j - 1) : EvidenceAt(k, ledger[j].about, ledger[j].cycle)
    BY <1>1, <1>4, <2>1 DEF Verdicts
  <2>3. k \in DOMAIN ledger
    BY <1>3
  <2>4. EvidenceThen(k, ledger[j].about, ledger[j].cycle)
    BY <2>2, <2>3, EvidenceLasts
  <2>5. QED
    BY <2>1, <2>4
<1>5. ASSUME NEW event \in AllEvents, ledger' = Append(ledger, event)
      PROVE  /\ \A j \in DOMAIN ledger' : j \in DOMAIN ledger \/ j = Len(ledger) + 1
             /\ ledger'[Len(ledger) + 1] = event
  BY <1>3, <1>5, AppendGrows DEF TypeOK
<1>6. ASSUME NEW event \in AllEvents, ledger' = Append(ledger, event),
             event.type # "decision_court_verdict"
      PROVE  EvidenceFirst'
  BY <1>2, <1>4, <1>5, <1>6 DEF Verdicts
<1>7. ASSUME NEW p \in Procs, Deliver(p), Logs(VerdictEvent(InputsOf(p), job[p].cycle, policy))
      PROVE  EvidenceFirst'
  <2> DEFINE event == VerdictEvent(InputsOf(p), job[p].cycle, policy)
             n == Len(ledger) + 1
  <2>1. event.about = InputsOf(p) /\ event.cycle = job[p].cycle
    BY DEF VerdictEvent
  <2>2. PICK k \in DOMAIN ledger : EvidenceAt(k, InputsOf(p), job[p].cycle)
    BY <1>7 DEF Deliver, At, EvidenceInv, Progress
  <2>3. event \in AllEvents /\ ledger' = Append(ledger, event)
    BY <1>7 DEF Logs, Log
  <2> HIDE DEF event
  <2>4. ledger'[n] = event /\ \A j \in DOMAIN ledger' : j \in DOMAIN ledger \/ j = n
    BY <1>5, <2>3
  <2>5. k \in 1..(n - 1)
    BY <1>3
  <2>6. EvidenceThen(k, ledger'[n].about, ledger'[n].cycle)
    BY <2>1, <2>2, <2>4, EvidenceLasts
  <2>7. \E i \in 1..(n - 1) : EvidenceThen(i, ledger'[n].about, ledger'[n].cycle)
    BY <2>5, <2>6
  <2>8. QED
    BY <1>2, <1>4, <2>4, <2>7 DEF Verdicts
<1>8. CASE ledger' = ledger
  BY <1>2, <1>4, <1>8 DEF Verdicts
<1>9. QED
  BY <1>6, <1>7, <1>8, FilesStep DEF Logs, Log, RegisteredEvent, SubmittedEvent

LEMMA EvidenceInit ==
    ASSUME Init
    PROVE  EvidenceInv /\ EvidenceFirst
BY DEF Init, EvidenceInv, Progress, AtRecords, EvidenceFirst, Verdicts

(* EvidenceFirst: in no interleaving of cycles, crashes and repetitions is  *)
(* there a verdict without its packet submitted before it, and without the  *)
(* three input records registered and logged before that.                  *)
THEOREM VerdictsRest == Spec => []EvidenceFirst
<1>1. TypeOK /\ TypeOK' /\ EvidenceInv /\ EvidenceFirst /\ [Next]_vars
          => EvidenceInv' /\ EvidenceFirst'
  BY ProgressMade, VerdictsHaveEvidence
<1>2. QED
  BY <1>1, EvidenceInit, CycleTypes, PTL DEF Spec

-----------------------------------------------------------------------------
(* The published status: a cycle is before or after its verdict, no two     *)
(* cycles have one number, and no two verdicts are of one cycle.           *)

Before(p) == \/ pc[p] \in {"submit", "verdict"}
             \/ pc[p] \in AtRecords /\ job[p].next \in 1..3
After(p)  == \/ pc[p] \in {"draft", "publish"}
             \/ pc[p] \in AtRecords /\ job[p].next = 4

VerdictsAre(j, cycle) == j \in Verdicts /\ ledger[j].cycle = cycle

NumbersInv ==
    /\ \A p \in Procs : pc[p] # "idle" => job[p].cycle \in 1..cycles
    /\ \A p, q \in Procs : pc[p] # "idle" /\ pc[q] # "idle" /\ p # q => job[p].cycle # job[q].cycle
    /\ \A j \in Verdicts : ledger[j].cycle \in 1..cycles
    /\ \A i, j \in Verdicts : ledger[i].cycle = ledger[j].cycle => i = j
    /\ \A p \in Procs : /\ Before(p) => \A j \in Verdicts : ledger[j].cycle # job[p].cycle
                        /\ After(p) => VerdictsAre(job[p].verdict, job[p].cycle)

Continues(q) ==
    /\ pc[q] # "idle" /\ job'[q].cycle = job[q].cycle /\ job'[q].verdict = job[q].verdict
    /\ Before(q)' => Before(q)
    /\ After(q)' => After(q)

(* What a step does to the verdicts and to the phases of the cycles. *)
LEMMA Phases ==
    ASSUME TypeOK, TypeOK', [Next]_vars
    PROVE  \/ \E p \in Procs, r \in Requests : Begin(p, r) /\ OnlyMoves(p)
           \/ \E p \in Procs : Deliver(p) /\ OnlyMoves(p)
           \/ cycles' = cycles /\ \A q \in Procs : pc'[q] = "idle" \/ Continues(q)
<1> USE DEF Goto, At
<1>1. /\ pc \in [Procs -> Labels] /\ job \in [Procs -> JobTypes]
      /\ pc' \in [Procs -> Labels] /\ job' \in [Procs -> JobTypes]
  BY DEF TypeOK, JobTypes
<1>2. ASSUME NEW q \in Procs, pc'[q] = pc[q], job'[q] = job[q] PROVE pc'[q] = "idle" \/ Continues(q)
  BY <1>2 DEF Continues, Before, After
<1>3. CASE pc' = pc /\ job' = job
  <2>1. cycles' = cycles \/ \E p \in Procs, r \in Requests : Begin(p, r)
    BY DEF Next, Check, Write, Link, Submit, Deliver, Draft, Publish, Crash, EditPolicy,
           vars, counts, files
  <2>2. ASSUME NEW p \in Procs, NEW r \in Requests, Begin(p, r) PROVE FALSE
    BY <1>1, <1>3, <2>2 DEF Begin
  <2>3. QED
    BY <1>2, <1>3, <2>1, <2>2
<1> SUFFICES ASSUME NEW p \in Procs, OnlyMoves(p),
                    \/ Check(p) \/ Write(p) \/ Link(p) \/ Submit(p)
                    \/ Draft(p) \/ Publish(p) \/ Crash(p)
             PROVE  cycles' = cycles /\ (pc'[p] = "idle" \/ Continues(p))
  BY <1>2, <1>3, StepsMoveOne DEF OnlyMoves
<1> cycles' = cycles
  BY DEF Check, Write, Link, Submit, Draft, Publish, Crash, counts
<1>5. ASSUME Leave(p) PROVE pc'[p] = "idle"
  BY <1>1, <1>5 DEF Leave
<1>6. CASE Check(p) \/ Draft(p)
  <2>1. CASE Leave(p) BY <1>5, <2>1
  <2>2. CASE ~Leave(p)
    BY <1>1, <1>6, <2>2 DEF Check, Draft, Continues, Before, After, AtRecords
  <2>3. QED BY <2>1, <2>2
<1>7. CASE Write(p) \/ Submit(p)
  BY <1>1, <1>7 DEF Write, Submit, Continues, Before, After, AtRecords
<1>8. CASE Link(p)
  <2>1. pc[p] = "link" /\ job[p] \in JobTypes
    BY <1>1, <1>8 DEF Link
  <2>2. CASE job[p].next < 3
    <3>1. /\ job'[p] = [job[p] EXCEPT !.next = @ + 1] /\ pc'[p] = "check"
      BY <1>1, <1>8, <2>2 DEF Link
    <3>2. /\ job'[p].cycle = job[p].cycle /\ job'[p].verdict = job[p].verdict
          /\ job[p].next \in 1..3 /\ job'[p].next # 4
      BY <2>1, <2>2, <3>1 DEF JobTypes
    <3>3. QED
      BY <2>1, <3>1, <3>2 DEF Continues, Before, After, AtRecords
  <2>3. CASE ~(job[p].next < 3)
    <3>1. job' = job /\ pc'[p] = IF job[p].next = 3 THEN "submit" ELSE "draft"
      BY <1>1, <1>8, <2>3 DEF Link
    <3>2. job[p].next = 3 \/ job[p].next = 4
      BY <2>1, <2>3 DEF JobTypes
    <3>3. QED
      BY <2>1, <3>1, <3>2 DEF Continues, Before, After, AtRecords
  <2>4. QED BY <2>2, <2>3
<1>9. CASE Publish(p) \/ Crash(p)
  BY <1>5, <1>9 DEF Publish, Crash
<1>10. QED
  BY <1>6, <1>7, <1>8, <1>9

LEMMA NewVerdicts ==
    ASSUME TypeOK, TypeOK', [Next]_vars
    PROVE  /\ \A j \in DOMAIN ledger : ledger'[j] = ledger[j] /\ j \in DOMAIN ledger'
           /\ \A j \in DOMAIN ledger' \ DOMAIN ledger : j = Len(ledger) + 1
           /\ Verdicts \subseteq Verdicts'
           /\ \A j \in Verdicts' \ Verdicts :
                  /\ j = Len(ledger) + 1
                  /\ \E p \in Procs : Deliver(p) /\ ledger'[j].cycle = job[p].cycle
           /\ \A p \in Procs : Deliver(p) =>
                  Len(ledger) + 1 \in Verdicts' /\ ledger'[Len(ledger) + 1].cycle = job[p].cycle
<1>1. \A j \in DOMAIN ledger : ledger'[j] = ledger[j] /\ j \in DOMAIN ledger'
  BY FilesOnlyGrow DEF FilesGrow, Grows
<1>2. DOMAIN ledger = 1..Len(ledger) /\ Len(ledger) \in Nat
  BY LenProperties DEF TypeOK
<1>3. ASSUME NEW event \in AllEvents, ledger' = Append(ledger, event)
      PROVE  /\ DOMAIN ledger' = 1..(Len(ledger) + 1)
             /\ ledger'[Len(ledger) + 1] = event
  BY <1>3, AppendGrows DEF TypeOK
<1>4. \A j \in DOMAIN ledger' \ DOMAIN ledger : j = Len(ledger) + 1
  <2>1. CASE ledger' = ledger
    BY <2>1
  <2>2. ASSUME NEW event, Logs(event) PROVE \A j \in DOMAIN ledger' \ DOMAIN ledger : j = Len(ledger) + 1
    BY <1>2, <1>3, <2>2 DEF Logs, Log
  <2>3. QED
    BY <2>1, <2>2, FilesStep
<1>5. Verdicts \subseteq Verdicts'
  BY <1>1 DEF Verdicts
<1>6. ASSUME NEW p \in Procs, Deliver(p)
      PROVE  Len(ledger) + 1 \in Verdicts' /\ ledger'[Len(ledger) + 1].cycle = job[p].cycle
  <2>1. VerdictEvent(InputsOf(p), job[p].cycle, policy) \in AllEvents
    BY CurrentIs, EventsTyped DEF InputsOf, JobTypes, TypeOK
  <2>2. /\ Len(ledger) + 1 \in DOMAIN ledger'
        /\ ledger'[Len(ledger) + 1] = VerdictEvent(InputsOf(p), job[p].cycle, policy)
    BY <1>2, <1>3, <1>6, <2>1 DEF Deliver, Log
  <2>3. QED
    BY <2>2 DEF Verdicts, VerdictEvent
<1>7. ASSUME NEW j \in Verdicts' \ Verdicts
      PROVE  /\ j = Len(ledger) + 1
             /\ \E p \in Procs : Deliver(p) /\ ledger'[j].cycle = job[p].cycle
  <2>1. j \in DOMAIN ledger' \ DOMAIN ledger
    BY <1>1 DEF Verdicts
  <2>2. j = Len(ledger) + 1
    BY <1>4, <2>1
  <2>3. ASSUME NEW event, Logs(event) PROVE ledger'[j] = event
    BY <1>3, <2>2, <2>3 DEF Logs, Log
  <2>4. ledger'[j].type = "decision_court_verdict" /\ ledger' # ledger
    BY <2>1 DEF Verdicts
  <2>5. \E p \in Procs : Deliver(p)
    <3>1. ASSUME NEW x, Logs(RegisteredEvent(x)) PROVE FALSE
      BY <2>3, <2>4, <3>1 DEF RegisteredEvent
    <3>2. ASSUME NEW i, NEW t, Logs(SubmittedEvent(i, t)) PROVE FALSE
      BY <2>3, <2>4, <3>2 DEF SubmittedEvent
    <3>3. QED
      BY <2>4, <3>1, <3>2, FilesStep
  <2>6. QED
    BY <1>6, <2>2, <2>5
<1>8. QED
  BY <1>1, <1>4, <1>5, <1>6, <1>7

LEMMA NumbersInit ==
    ASSUME Init
    PROVE  NumbersInv
BY DEF Init, NumbersInv, Verdicts, Before, After, AtRecords

LEMMA NumbersStep ==
    ASSUME TypeOK, TypeOK', [Next]_vars, NumbersInv
    PROVE  NumbersInv'
<1> USE DEF Goto, At
<1>1. /\ pc \in [Procs -> Labels] /\ job \in [Procs -> JobTypes] /\ cycles \in Nat
      /\ pc' \in [Procs -> Labels] /\ job' \in [Procs -> JobTypes] /\ cycles' \in Nat
  BY CycleAssumption DEF TypeOK, JobTypes, Cycles
<1>2. ASSUME NEW q \in Procs, VerdictsAre(job[q].verdict, job[q].cycle),
             job'[q].verdict = job[q].verdict, job'[q].cycle = job[q].cycle
      PROVE  VerdictsAre(job[q].verdict, job[q].cycle)'
  BY <1>2, NewVerdicts DEF VerdictsAre, Verdicts
<1>3. CASE \E p \in Procs, r \in Requests : Begin(p, r) /\ OnlyMoves(p)
  <2> PICK p \in Procs, r \in Requests : Begin(p, r) /\ OnlyMoves(p)
    BY <1>3
  <2>1. /\ pc[p] = "idle" /\ pc'[p] = "check" /\ cycles' = cycles + 1 /\ ledger' = ledger
        /\ job'[p].cycle = cycles + 1 /\ job'[p].next = 1
    BY <1>1 DEF Begin, NoJob, files
  <2>2. Verdicts' = Verdicts
    BY <2>1 DEF Verdicts
  <2>3. \A q \in Procs : q # p => pc'[q] = pc[q] /\ job'[q] = job[q]
    BY DEF OnlyMoves
  <2>4. \A q \in Procs : pc'[q] # "idle" => job'[q].cycle \in 1..cycles'
    BY <1>1, <2>1, <2>3 DEF NumbersInv
  <2>5. \A q, u \in Procs : pc'[q] # "idle" /\ pc'[u] # "idle" /\ q # u
            => job'[q].cycle # job'[u].cycle
    <3>1. \A q \in Procs \ {p} : pc'[q] # "idle" => job'[q].cycle # cycles + 1
      BY <1>1, <2>3 DEF NumbersInv
    <3>2. QED
      BY <2>1, <2>3, <3>1 DEF NumbersInv
  <2>6. \A j \in Verdicts' : ledger'[j].cycle \in 1..cycles' /\ ledger'[j].cycle # cycles + 1
    BY <1>1, <2>1, <2>2 DEF NumbersInv
  <2>7. \A i, j \in Verdicts' : ledger'[i].cycle = ledger'[j].cycle => i = j
    BY <2>1, <2>2 DEF NumbersInv
  <2>8. ASSUME NEW q \in Procs
        PROVE  /\ Before(q)' => \A j \in Verdicts' : ledger'[j].cycle # job'[q].cycle
               /\ After(q)' => VerdictsAre(job[q].verdict, job[q].cycle)'
    <3>1. CASE q = p
      BY <2>1, <2>6, <3>1 DEF After, AtRecords
    <3>2. CASE q # p
      BY <1>2, <2>1, <2>2, <2>3, <3>2 DEF Before, After, NumbersInv
    <3>3. QED BY <3>1, <3>2
  <2>9. QED
    BY <2>4, <2>5, <2>6, <2>7, <2>8 DEF NumbersInv
<1>4. CASE \E p \in Procs : Deliver(p) /\ OnlyMoves(p)
  <2> PICK p \in Procs : Deliver(p) /\ OnlyMoves(p)
    BY <1>4
  <2> PICK n : n = Len(ledger) + 1
    OBVIOUS
  <2>1. /\ pc[p] = "verdict" /\ pc'[p] = "check" /\ cycles' = cycles
        /\ job'[p].cycle = job[p].cycle /\ job'[p].next = 4 /\ job'[p].verdict = n
    BY <1>1 DEF Deliver, AfterVerdict, counts, JobTypes
  <2>2. /\ n \in Verdicts' /\ ledger'[n].cycle = job[p].cycle
        /\ \A j \in Verdicts' : j = n \/ j \in Verdicts
        /\ \A j \in Verdicts : j \in DOMAIN ledger /\ ledger'[j] = ledger[j]
    BY NewVerdicts DEF Verdicts
  <2>3. \A q \in Procs : q # p => pc'[q] = pc[q] /\ job'[q] = job[q]
    BY DEF OnlyMoves
  <2>4. \A q \in Procs : pc'[q] # "idle" => pc[q] # "idle" /\ job'[q].cycle = job[q].cycle
    BY <2>1, <2>3
  <2>5. \A j \in Verdicts : ledger[j].cycle # job[p].cycle
    <3>1. Before(p)
      BY <2>1 DEF Before
    <3>2. QED
      BY <3>1 DEF NumbersInv
  <2>6. ASSUME NEW j \in Verdicts' PROVE ledger'[j].cycle \in 1..cycles'
    <3>1. CASE j = n
      BY <2>1, <2>2, <3>1 DEF NumbersInv
    <3>2. CASE j \in Verdicts
      BY <2>1, <2>2, <3>2 DEF NumbersInv
    <3>3. QED
      BY <2>2, <3>1, <3>2
  <2>7. \A i, j \in Verdicts' : ledger'[i].cycle = ledger'[j].cycle => i = j
    BY <2>2, <2>5 DEF NumbersInv
  <2>8. ASSUME NEW q \in Procs
        PROVE  /\ Before(q)' => \A j \in Verdicts' : ledger'[j].cycle # job'[q].cycle
               /\ After(q)' => VerdictsAre(job[q].verdict, job[q].cycle)'
    <3>1. CASE q = p
      <4>1. ~Before(q)'
        BY <2>1, <3>1 DEF Before, AtRecords
      <4>2. VerdictsAre(job[q].verdict, job[q].cycle)'
        BY <2>1, <2>2, <3>1 DEF VerdictsAre
      <4>3. QED BY <4>1, <4>2
    <3>2. CASE q # p
      <4>1. pc'[q] = pc[q] /\ job'[q] = job[q]
        BY <2>3, <3>2
      <4>2. ASSUME Before(q) PROVE \A j \in Verdicts' : ledger'[j].cycle # job[q].cycle
        <5>1. job[q].cycle # job[p].cycle
          BY <2>1, <3>2, <4>2 DEF Before, AtRecords, NumbersInv
        <5>2. QED
          BY <2>2, <4>2, <5>1 DEF NumbersInv
      <4>3. QED
        BY <1>2, <4>1, <4>2 DEF Before, After, NumbersInv
    <3>3. QED BY <3>1, <3>2
  <2>9. QED
    BY <2>1, <2>4, <2>6, <2>7, <2>8 DEF NumbersInv
<1>5. CASE cycles' = cycles /\ \A q \in Procs : pc'[q] = "idle" \/ Continues(q)
  <2>1. ASSUME NEW p \in Procs, Deliver(p) PROVE FALSE
    <3>1. pc[p] = "verdict" /\ pc'[p] = "check" /\ job'[p].next = 4
      BY <1>1, <2>1 DEF Deliver, AfterVerdict, JobTypes
    <3>2. QED
      BY <1>5, <3>1 DEF Continues, After, AtRecords
  <2>2. Verdicts' = Verdicts /\ \A j \in Verdicts : ledger'[j] = ledger[j]
    BY <2>1, NewVerdicts DEF Verdicts
  <2>3. ASSUME NEW q \in Procs
        PROVE  /\ Before(q)' => \A j \in Verdicts' : ledger'[j].cycle # job'[q].cycle
               /\ After(q)' => VerdictsAre(job[q].verdict, job[q].cycle)'
    <3>1. CASE pc'[q] = "idle"
      BY <3>1 DEF Before, After, AtRecords
    <3>2. CASE Continues(q)
      BY <1>2, <2>2, <3>2 DEF Continues, NumbersInv
    <3>3. QED BY <1>5, <3>1, <3>2
  <2>4. QED
    BY <1>5, <2>2, <2>3 DEF NumbersInv, Continues
<1>6. QED
  BY <1>3, <1>4, <1>5, Phases

-----------------------------------------------------------------------------
(* What backs a status.                                                    *)

EventsInv ==
    /\ \A j, k \in DOMAIN ledger :
           ledger[j].type = "evidence_record_registered" /\ ledger[j] = ledger[k] => j = k
    /\ \A j \in DOMAIN ledger :
           /\ ledger[j].type = "evidence_record_registered"
           /\ ledger[j].about.kind = "validation_result"
           => \E v \in Verdicts : v < j /\ ledger[v].cycle = ledger[j].about.key[4]

LEMMA EventsInit ==
    ASSUME Init
    PROVE  EventsInv
BY DEF Init, EventsInv

LEMMA EventsStep ==
    ASSUME TypeOK, TypeOK', [Next]_vars, NumbersInv, EventsInv
    PROVE  EventsInv'
<1> PICK n : n = Len(ledger) + 1
  OBVIOUS
<1>1. /\ \A j \in DOMAIN ledger : ledger'[j] = ledger[j] /\ j \in DOMAIN ledger'
      /\ \A j \in DOMAIN ledger' : j \in DOMAIN ledger \/ j = n
      /\ Verdicts \subseteq Verdicts'
      /\ \A v \in Verdicts : v \in DOMAIN ledger
      /\ DOMAIN ledger = 1..(n - 1) /\ n \in Nat
  BY NewVerdicts, LenProperties DEF TypeOK, Verdicts
<1>2. ASSUME NEW event \in AllEvents, ledger' = Append(ledger, event) PROVE ledger'[n] = event
  BY <1>2, AppendGrows DEF TypeOK
(* An event of another type than that of a record changes nothing. *)
<1>3. ASSUME n \notin DOMAIN ledger' \/ ledger'[n].type # "evidence_record_registered"
      PROVE  EventsInv'
  <2>1. ASSUME NEW j \in DOMAIN ledger', ledger'[j].type = "evidence_record_registered"
        PROVE  j \in DOMAIN ledger /\ ledger'[j] = ledger[j]
    BY <1>1, <1>3, <2>1
  <2>2. QED
    BY <1>1, <2>1 DEF EventsInv
<1>4. ASSUME NEW p \in Procs, Link(p), ~Linked(Current(p)), Logs(RegisteredEvent(Current(p)))
      PROVE  EventsInv'
  <2>1. ledger'[n] = RegisteredEvent(Current(p))
    BY <1>2, <1>4 DEF Logs, Log
  <2>2. \A j \in DOMAIN ledger : ledger'[j] # ledger'[n]
    BY <1>1, <1>4, <2>1 DEF Linked, Positions
  <2>3. \A j, k \in DOMAIN ledger' :
           ledger'[j].type = "evidence_record_registered" /\ ledger'[j] = ledger'[k] => j = k
    BY <1>1, <2>2 DEF EventsInv
  <2>4. ASSUME Current(p).kind = "validation_result"
        PROVE  \E v \in Verdicts : v < n /\ ledger[v].cycle = Current(p).key[4]
    <3>1. job[p].next \in 1..4 /\ ~(job[p].next \in 1..3)
      BY <2>4, CurrentIs DEF Current, JobTypes
    <3>2. job[p].next = 4
      BY <3>1
    <3>3. Current(p) = Validation(job[p].request, job[p].bound, job[p].cycle)
      BY <3>2, CurrentIs DEF Current
    <3>4. Current(p).key[4] = job[p].cycle
      BY <3>3 DEF Validation, Record
    <3>5. After(p)
      BY <1>4, <3>2 DEF After, AtRecords, Link, At
    <3>6. job[p].verdict \in Verdicts /\ ledger[job[p].verdict].cycle = job[p].cycle
      BY <3>5 DEF NumbersInv, VerdictsAre
    <3>7. job[p].verdict < n
      BY <1>1, <3>6
    <3>8. QED
      BY <3>4, <3>6, <3>7
  <2>5. ASSUME NEW j \in DOMAIN ledger', ledger'[j].type = "evidence_record_registered",
               ledger'[j].about.kind = "validation_result"
        PROVE  \E v \in Verdicts' : v < j /\ ledger'[v].cycle = ledger'[j].about.key[4]
    <3>1. \E v \in Verdicts : v < j /\ ledger[v].cycle = ledger'[j].about.key[4]
      <4>1. CASE j = n
        BY <2>1, <2>4, <2>5, <4>1 DEF RegisteredEvent
      <4>2. CASE j \in DOMAIN ledger
        BY <1>1, <2>5, <4>2 DEF EventsInv
      <4>3. QED BY <1>1, <4>1, <4>2
    <3>2. QED
      BY <1>1, <3>1
  <2>6. QED
    BY <2>3, <2>5 DEF EventsInv
<1>5. CASE ledger' = ledger
  BY <1>1, <1>3, <1>5
<1>6. ASSUME NEW inputs, NEW cycle, Logs(SubmittedEvent(inputs, cycle)) PROVE EventsInv'
  BY <1>2, <1>3, <1>6 DEF Logs, Log, SubmittedEvent
<1>7. ASSUME NEW inputs, NEW cycle, NEW pol, Logs(VerdictEvent(inputs, cycle, pol))
      PROVE  EventsInv'
  BY <1>2, <1>3, <1>7 DEF Logs, Log, VerdictEvent
<1>8. QED
  BY <1>4, <1>5, <1>6, <1>7, FilesStep

BackedBy(s, n, j) ==
    /\ register[n].kind = "validation_result" /\ register[n].key[4] = s.cycle
    /\ ledger[j] = RegisteredEvent(register[n])
Backed(s) ==
    /\ VerdictsAre(s.verdict, s.cycle)
    /\ \E n \in DOMAIN register : \E j \in s.verdict..Len(ledger) : BackedBy(s, n, j)

BackedThen(s) ==
    /\ s.verdict \in Verdicts' /\ ledger'[s.verdict].cycle = s.cycle
    /\ \E n \in DOMAIN register' : \E j \in s.verdict..Len(ledger') :
          /\ register'[n].kind = "validation_result" /\ register'[n].key[4] = s.cycle
          /\ ledger'[j] = RegisteredEvent(register'[n])

StatusInv ==
    /\ \A p \in Procs : pc[p] \in {"draft", "publish"} => Backed(DraftOf(p))
    /\ \A s \in {status, temporary} \ {NoStatus} : Backed(s)

LEMMA BackedLasts ==
    ASSUME TypeOK, TypeOK', [Next]_vars, NEW s, Backed(s)
    PROVE  BackedThen(s)
<1>1. /\ \A j \in DOMAIN ledger : ledger'[j] = ledger[j]
      /\ \A n \in DOMAIN register : register'[n] = register[n] /\ n \in DOMAIN register'
      /\ Len(ledger) <= Len(ledger')
      /\ Verdicts \subseteq Verdicts'
  BY FilesOnlyGrow, NewVerdicts DEF FilesGrow, Grows
<1>2. /\ Len(ledger) \in Nat /\ Len(ledger') \in Nat
      /\ DOMAIN ledger = 1..Len(ledger)
  BY LenProperties DEF TypeOK
<1>3. s.verdict \in DOMAIN ledger /\ s.verdict \in Verdicts /\ ledger[s.verdict].cycle = s.cycle
  BY DEF Backed, VerdictsAre, Verdicts
<1>4. PICK n \in DOMAIN register, j \in s.verdict..Len(ledger) : BackedBy(s, n, j)
  BY DEF Backed
<1>5. j \in DOMAIN ledger /\ j \in s.verdict..Len(ledger')
  BY <1>1, <1>2, <1>3
<1>6. QED
  BY <1>1, <1>3, <1>4, <1>5 DEF BackedThen, BackedBy

LEMMA StatusStep ==
    ASSUME TypeOK, TypeOK', [Next]_vars, EvidenceInv, NumbersInv, EventsInv, EventsInv', StatusInv
    PROVE  StatusInv'
<1> USE DEF Goto, At
<1>1. /\ pc \in [Procs -> Labels] /\ job \in [Procs -> JobTypes]
      /\ pc' \in [Procs -> Labels] /\ job' \in [Procs -> JobTypes]
  BY DEF TypeOK, JobTypes
<1>2. \A s : BackedThen(s) <=> Backed(s)'
  BY DEF BackedThen, Backed, BackedBy, VerdictsAre, RegisteredEvent
(* A cycle comes to "draft" by linking its ValidationResult. *)
<1>3. ASSUME NEW p \in Procs, Link(p), pc'[p] = "draft" PROVE BackedThen(DraftOf(p))
  <2>1. job[p].next = 4 /\ pc[p] = "link" /\ job[p] \in JobTypes
    <3>1. job[p].next \in 1..4 /\ pc[p] = "link" /\ job[p] \in JobTypes
      BY <1>1, <1>3 DEF Link, JobTypes
    <3>2. ~(job[p].next < 3) /\ job[p].next # 3
      BY <1>1, <1>3 DEF Link
    <3>3. QED
      BY <3>1, <3>2
  <2>2. /\ Current(p) = Validation(job[p].request, job[p].bound, job[p].cycle)
        /\ Current(p).kind = "validation_result" /\ Current(p).key[4] = job[p].cycle
    BY <2>1, CurrentIs DEF Current, Validation, Record
  <2>3. Registered(Current(p)) /\ RegisteredThen(Current(p))
    BY <2>1, EvidenceLasts, FilesOnlyGrow DEF EvidenceInv, Progress
  <2>4. /\ job[p].verdict \in Verdicts /\ ledger[job[p].verdict].cycle = job[p].cycle
        /\ \A v \in Verdicts : ledger[v].cycle = job[p].cycle => v = job[p].verdict
    BY <2>1 DEF After, AtRecords, NumbersInv, VerdictsAre
  <2>5. /\ Len(ledger) \in Nat /\ DOMAIN ledger = 1..Len(ledger)
        /\ Len(ledger') \in Nat /\ Len(ledger) <= Len(ledger')
        /\ \A j \in DOMAIN ledger : ledger'[j] = ledger[j]
    BY FilesOnlyGrow, LenProperties DEF FilesGrow, Grows, TypeOK
  <2>6. job[p].verdict \in DOMAIN ledger
    BY <2>4 DEF Verdicts
  <2>7. \E j \in job[p].verdict..Len(ledger') : ledger'[j] = RegisteredEvent(Current(p))
    <3>1. CASE Linked(Current(p))
      <4>1. PICK j \in DOMAIN ledger : ledger[j] = RegisteredEvent(Current(p))
        BY <3>1 DEF Linked, Positions
      <4>2. ledger[j].type = "evidence_record_registered" /\ ledger[j].about = Current(p)
        BY <4>1 DEF RegisteredEvent
      <4>3. job[p].verdict < j
        BY <2>2, <2>4, <4>2 DEF EventsInv
      <4>4. j \in job[p].verdict..Len(ledger')
        BY <2>5, <2>6, <4>3
      <4>5. QED
        BY <2>5, <4>1, <4>4
    <3>2. CASE ledger' = Append(ledger, RegisteredEvent(Current(p)))
      <4>1. /\ ledger'[Len(ledger) + 1] = RegisteredEvent(Current(p))
            /\ Len(ledger') = Len(ledger) + 1
        BY <3>2, CurrentIs, EventsTyped, AppendGrows DEF TypeOK
      <4>2. Len(ledger) + 1 \in job[p].verdict..Len(ledger')
        BY <2>5, <2>6, <4>1
      <4>3. QED
        BY <4>1, <4>2
    <3>3. QED
      BY <1>3, <3>1, <3>2 DEF Link, Log
  <2>8. job[p].verdict \in Verdicts' /\ ledger'[job[p].verdict].cycle = job[p].cycle
    BY <2>4, <2>5, <2>6, NewVerdicts
  <2>9. QED
    BY <2>2, <2>3, <2>7, <2>8 DEF BackedThen, DraftOf, RegisteredThen
<1>4. ASSUME NEW p \in Procs, pc'[p] \in {"draft", "publish"} PROVE Backed(DraftOf(p))'
  <2>1. BackedThen(DraftOf(p)) /\ job'[p].cycle = job[p].cycle /\ job'[p].verdict = job[p].verdict
    <3>1. CASE pc[p] \in {"draft", "publish"} /\ job'[p] = job[p]
      BY <3>1, BackedLasts DEF StatusInv
    <3>2. CASE ~(pc[p] \in {"draft", "publish"} /\ job'[p] = job[p])
      <4>1. PICK q \in Procs : /\ OnlyMoves(q)
                               /\ \/ \E r \in Requests : Begin(q, r)
                                  \/ Check(q) \/ Write(q) \/ Link(q) \/ Submit(q) \/ Deliver(q)
                                  \/ Draft(q) \/ Publish(q) \/ Crash(q)
        BY <1>4, <3>2, StepsMoveOne
      <4>2. q = p
        BY <1>4, <3>2, <4>1 DEF OnlyMoves
      <4>3. Link(p) /\ job' = job
        <5>1. ~(\E r \in Requests : Begin(p, r)) /\ ~Write(p) /\ ~Submit(p) /\ ~Deliver(p)
          BY <1>1, <1>4 DEF Begin, Write, Submit, Deliver, AfterVerdict
        <5>2. ~Leave(p)
          BY <1>1, <1>4 DEF Leave
        <5>3. ~Check(p) /\ ~Draft(p) /\ ~Publish(p) /\ ~Crash(p)
          BY <1>1, <1>4, <3>2, <5>2 DEF Check, Draft, Publish, Crash
        <5>4. Link(p)
          BY <4>1, <4>2, <5>1, <5>3
        <5>5. QED
          BY <1>1, <1>4, <5>4 DEF Link
      <4>4. pc'[p] = "draft"
        BY <1>1, <1>4, <4>3 DEF Link
      <4>5. QED
        BY <1>3, <4>3, <4>4
    <3>3. QED BY <3>1, <3>2
  <2>2. DraftOf(p)' = DraftOf(p)
    BY <2>1 DEF DraftOf
  <2>3. PICK s : s = DraftOf(p)
    OBVIOUS
  <2>4. Backed(s)'
    BY <1>2, <2>1, <2>3
  <2>5. QED
    BY <2>2, <2>3, <2>4 DEF Backed, BackedBy, VerdictsAre
<1>5. \A s \in {status', temporary'} \ {NoStatus} :
          s \in {status, temporary} \ {NoStatus} \/ \E p \in Procs : Draft(p) /\ s = DraftOf(p)
  BY DEF Next, Begin, Check, Write, Link, Submit, Deliver, Draft, Drafted, Publish, Crash,
         EditPolicy, files, vars
<1>6. ASSUME NEW s \in {status', temporary'} \ {NoStatus} PROVE Backed(s)'
  <2>1. Backed(s)
    BY <1>5 DEF StatusInv, Draft
  <2>2. PICK x : x = s
    OBVIOUS
  <2>3. QED
    BY <1>2, <2>1, BackedLasts
<1>7. NoStatus' = NoStatus
  BY DEF NoStatus
<1>8. QED
  BY <1>4, <1>6, <1>7 DEF StatusInv

LEMMA StatusInit ==
    ASSUME Init
    PROVE  StatusInv
BY DEF Init, StatusInv

LEMMA CycleInvariant == Spec => [](TypeOK /\ EvidenceInv /\ NumbersInv /\ EventsInv /\ StatusInv)
<1> DEFINE Inv == EvidenceInv /\ NumbersInv /\ EventsInv /\ StatusInv
<1>1. Init => Inv
  BY EvidenceInit, NumbersInit, EventsInit, StatusInit
<1>2. TypeOK /\ TypeOK' /\ Inv /\ [Next]_vars => Inv'
  BY ProgressMade, NumbersStep, EventsStep, StatusStep
<1>3. QED
  BY <1>1, <1>2, CycleTypes, PTL DEF Spec

(* StatusBacked: however cycles overlap on the temporary file, whatever a   *)
(* dead cycle leaves in it, the published status is a verdict of the        *)
(* ledger whose ValidationResult is registered with one event after it.    *)
THEOREM StatusOnRecord == Spec => []StatusBacked
<1>1. TypeOK /\ EventsInv /\ StatusInv => StatusBacked
  <2> SUFFICES ASSUME TypeOK, EventsInv, StatusInv, NEW s \in {status, temporary} \ {NoStatus}
               PROVE  /\ s.verdict \in Verdicts /\ ledger[s.verdict].cycle = s.cycle
                      /\ \E n \in DOMAIN register :
                            /\ register[n].kind = "validation_result"
                            /\ register[n].key[4] = s.cycle
                            /\ \E j \in s.verdict..Len(ledger) :
                                  Positions(RegisteredEvent(register[n])) = {j}
    BY DEF StatusBacked
  <2>1. s.verdict \in Verdicts /\ ledger[s.verdict].cycle = s.cycle
    BY DEF StatusInv, Backed, VerdictsAre
  <2>2. PICK n \in DOMAIN register, j \in s.verdict..Len(ledger) : BackedBy(s, n, j)
    BY DEF StatusInv, Backed
  <2>3. j \in DOMAIN ledger
    BY <2>1, LenProperties DEF TypeOK, Verdicts
  <2>4. \A k \in DOMAIN ledger : ledger[k] = RegisteredEvent(register[n]) => k = j
    BY <2>2, <2>3 DEF BackedBy, EventsInv, RegisteredEvent
  <2>5. Positions(RegisteredEvent(register[n])) = {j}
    BY <2>2, <2>3, <2>4 DEF BackedBy, Positions
  <2>6. QED
    BY <2>1, <2>2, <2>5 DEF BackedBy
<1>2. QED
  BY <1>1, CycleInvariant, PTL

-----------------------------------------------------------------------------
(* Cycles that do not overlap.                                             *)

SerialInv == ~overlapped =>
    /\ \A p, q \in Procs : pc[p] # "idle" /\ pc[q] # "idle" => p = q
    /\ \A p \in Procs : /\ pc[p] # "idle" => job[p].cycle = cycles
                        /\ pc[p] = "write" => IsNew(Current(p))
                        /\ pc[p] = "publish" => temporary = DraftOf(p)
    /\ UniqueIds

LEMMA SerialInit ==
    ASSUME Init
    PROVE  SerialInv
BY DEF Init, SerialInv, UniqueIds

LEMMA SerialStep ==
    ASSUME TypeOK, TypeOK', [Next]_vars, SerialInv
    PROVE  SerialInv'
<1> USE DEF Goto, At
<1> SUFFICES ASSUME ~overlapped'
             PROVE  /\ \A p, q \in Procs : pc'[p] # "idle" /\ pc'[q] # "idle" => p = q
                    /\ \A p \in Procs : /\ pc'[p] # "idle" => job'[p].cycle = cycles'
                                        /\ pc'[p] = "write" => IsNew(Current(p))'
                                        /\ pc'[p] = "publish" => temporary' = DraftOf(p)'
                    /\ UniqueIds'
  BY DEF SerialInv
<1>1. ~overlapped
  BY DEF Next, Begin, Check, Write, Link, Submit, Deliver, Draft, Publish, Crash, EditPolicy,
         counts, vars
<1>2. /\ pc \in [Procs -> Labels] /\ job \in [Procs -> JobTypes]
      /\ pc' \in [Procs -> Labels] /\ job' \in [Procs -> JobTypes]
      /\ register \in Seq(AllRecords)
  BY DEF TypeOK, JobTypes
<1>3. /\ \A p, q \in Procs : pc[p] # "idle" /\ pc[q] # "idle" => p = q
      /\ \A p \in Procs : /\ pc[p] # "idle" => job[p].cycle = cycles
                          /\ pc[p] = "write" => IsNew(Current(p))
                          /\ pc[p] = "publish" => temporary = DraftOf(p)
      /\ UniqueIds
  BY <1>1 DEF SerialInv
<1>4. ASSUME register' = register PROVE UniqueIds'
  BY <1>3, <1>4 DEF UniqueIds, Id
<1>5. CASE pc' = pc /\ job' = job
  <2>1. /\ cycles' = cycles /\ register' = register /\ temporary' = temporary
    <3>1. EditPolicy \/ UNCHANGED vars \/ \E p \in Procs : Link(p)
      BY <1>2, <1>5 DEF Next, Begin, Check, Write, Link, Submit, Deliver, AfterVerdict, Draft,
                        Publish, Crash, Leave, Labels
    <3>2. QED
      BY <3>1 DEF EditPolicy, Link, vars, files, counts
  <2>2. \A p \in Procs : DraftOf(p)' = DraftOf(p) /\ IsNew(Current(p))' = IsNew(Current(p))
    BY <1>5, <2>1 DEF DraftOf, IsNew, Matches, Current, Records, InputsOf, Id
  <2>3. QED
    BY <1>3, <1>4, <1>5, <2>1, <2>2
<1> SUFFICES ASSUME NEW p \in Procs, OnlyMoves(p),
                    \/ \E r \in Requests : Begin(p, r)
                    \/ Check(p) \/ Write(p) \/ Link(p) \/ Submit(p) \/ Deliver(p)
                    \/ Draft(p) \/ Publish(p) \/ Crash(p)
             PROVE  /\ \A u, q \in Procs : pc'[u] # "idle" /\ pc'[q] # "idle" => u = q
                    /\ \A q \in Procs : /\ pc'[q] # "idle" => job'[q].cycle = cycles'
                                        /\ pc'[q] = "write" => IsNew(Current(q))'
                                        /\ pc'[q] = "publish" => temporary' = DraftOf(q)'
                    /\ UniqueIds'
  BY <1>5, StepsMoveOne
(* Every other process is idle. *)
<1>6. \A q \in Procs \ {p} : pc'[q] = "idle"
  <2>1. CASE \E r \in Requests : Begin(p, r)
    BY <2>1 DEF Begin, OnlyMoves
  <2>2. CASE pc[p] # "idle"
    BY <1>3, <2>2 DEF OnlyMoves
  <2>3. QED
    BY <2>1, <2>2 DEF Check, Write, Link, Submit, Deliver, Draft, Publish, Crash, Leave
<1> SUFFICES /\ pc'[p] # "idle" => job'[p].cycle = cycles'
             /\ pc'[p] = "write" => IsNew(Current(p))'
             /\ pc'[p] = "publish" => temporary' = DraftOf(p)'
             /\ UniqueIds'
  <2>1. \A q \in Procs : q = p \/ pc'[q] = "idle"
    BY <1>6
  <2>2. QED
    BY <2>1
<1>7. ASSUME Leave(p), register' = register
      PROVE  pc'[p] = "idle" /\ UniqueIds'
  BY <1>2, <1>4, <1>7 DEF Leave
<1>8. ASSUME NEW r \in Requests, Begin(p, r)
      PROVE  /\ job'[p].cycle = cycles' /\ pc'[p] = "check" /\ UniqueIds'
  <2>1. job'[p].cycle = cycles' /\ pc'[p] = "check" /\ register' = register
    BY <1>2, <1>8 DEF Begin, NoJob, files
  <2>2. QED
    BY <1>4, <2>1
<1>9. CASE Check(p)
  <2>1. CASE Leave(p)
    BY <1>7, <1>9, <2>1 DEF Check, files
  <2>2. CASE ~Leave(p)
    <3>1. /\ job' = job /\ register' = register /\ cycles' = cycles /\ pc[p] = "check"
          /\ pc'[p] = IF IsNew(Current(p)) THEN "write" ELSE "link"
      BY <1>2, <1>9, <2>2 DEF Check, files, counts
    <3>2. IsNew(Current(p))' = IsNew(Current(p))
      BY <3>1 DEF IsNew, Matches, Current, Records, InputsOf, Id
    <3>3. QED
      BY <1>3, <1>4, <3>1, <3>2
  <2>3. QED BY <2>1, <2>2
<1>10. CASE Write(p)
  <2>1. /\ job' = job /\ cycles' = cycles /\ pc[p] = "write" /\ pc'[p] = "link"
        /\ register' = Append(register, Current(p))
    BY <1>2, <1>10 DEF Write, counts
  <2>2. \A n \in DOMAIN register : Id(register[n]) # Id(Current(p))
    BY <1>3, <2>1 DEF IsNew, Matches
  <2>3. /\ \A n \in DOMAIN register : register'[n] = register[n]
        /\ \A n \in DOMAIN register' : n \in DOMAIN register \/ n = Len(register) + 1
        /\ register'[Len(register) + 1] = Current(p)
    BY <1>2, <2>1, CurrentIs, AppendGrows DEF Grows
  <2>4. UniqueIds'
    <3>1. ASSUME NEW a \in DOMAIN register', NEW b \in DOMAIN register',
                 Id(register'[a]) = Id(register'[b])
          PROVE  a = b
      BY <1>3, <2>2, <2>3, <3>1 DEF UniqueIds
    <3>2. QED
      BY <3>1 DEF UniqueIds, Id
  <2>5. QED
    BY <1>3, <2>1, <2>4
<1>11. CASE Link(p)
  <2>1. /\ register' = register /\ cycles' = cycles /\ job'[p].cycle = job[p].cycle
        /\ pc[p] = "link" /\ pc'[p] \in {"check", "submit", "draft"}
    BY <1>2, <1>11 DEF Link, counts, JobTypes
  <2>2. QED
    BY <1>3, <1>4, <2>1
<1>12. CASE Submit(p) \/ Deliver(p)
  <2>1. /\ register' = register /\ cycles' = cycles /\ job'[p].cycle = job[p].cycle
        /\ pc[p] \in {"submit", "verdict"} /\ pc'[p] \in {"check", "verdict"}
    BY <1>2, <1>12 DEF Submit, Deliver, AfterVerdict, counts, JobTypes
  <2>2. QED
    BY <1>3, <1>4, <2>1
<1>13. CASE Draft(p)
  <2>1. CASE Leave(p)
    BY <1>7, <1>13, <2>1 DEF Draft
  <2>2. CASE ~Leave(p)
    <3>1. /\ job' = job /\ register' = register /\ cycles' = cycles /\ pc[p] = "draft"
          /\ pc'[p] = "publish" /\ temporary' = DraftOf(p)
      BY <1>2, <1>13, <2>2 DEF Draft, Drafted, counts
    <3>2. QED
      BY <1>3, <1>4, <3>1 DEF DraftOf
  <2>3. QED BY <2>1, <2>2
<1>14. CASE Publish(p) \/ Crash(p)
  BY <1>7, <1>14 DEF Publish, Crash, files
<1>15. QED
  BY <1>8, <1>9, <1>10, <1>11, <1>12, <1>13, <1>14

LEMMA SerialInvariant == Spec => []SerialInv
<1>1. TypeOK /\ TypeOK' /\ SerialInv /\ [Next]_vars => SerialInv'
  BY SerialStep
<1>2. QED
  BY <1>1, SerialInit, CycleTypes, PTL DEF Spec

(* SerialIdentities: cycles that do not overlap never register an identity *)
(* twice, through any deaths, repetitions and revisions of requests.       *)
THEOREM IdentitiesUnique == Spec => []SerialIdentities
<1>1. SerialInv => SerialIdentities
  BY DEF SerialInv, SerialIdentities
<1>2. QED
  BY <1>1, SerialInvariant, PTL

(* StatusMovesForward: as long as cycles do not overlap, what is published *)
(* is always the latest cycle.                                             *)
THEOREM StatusForward == Spec => StatusMovesForward
<1>1. TypeOK /\ TypeOK' /\ SerialInv /\ [Next]_vars
          => [status' # status /\ ~overlapped => status'.cycle = cycles]_vars
  <2> SUFFICES ASSUME TypeOK, TypeOK', SerialInv, [Next]_vars, status' # status, ~overlapped
               PROVE  status'.cycle = cycles
    OBVIOUS
  <2>1. PICK p \in Procs : Publish(p)
    BY DEF Next, Begin, Check, Write, Link, Submit, Deliver, Draft, Crash, EditPolicy, files, vars
  <2>2. status' = temporary /\ pc[p] = "publish"
    BY <2>1 DEF Publish, At
  <2>3. temporary = DraftOf(p) /\ job[p].cycle = cycles
    BY <2>2 DEF SerialInv
  <2>4. QED
    BY <2>2, <2>3 DEF DraftOf
<1>2. QED
  BY <1>1, SerialInvariant, CycleTypes, PTL DEF Spec, StatusMovesForward

-----------------------------------------------------------------------------
(* The Court: sums and the equity curve.  FoldLeft picks the last index of  *)
(* a set of them and folds the rest, so that its value on 1..k is that of   *)
(* the loop of metrics.py after k trades.                                   *)

LEMMA LastOfInterval ==
    ASSUME NEW k \in Nat \ {0}
    PROVE  Max(1..k) = k /\ (1..k) \ {k} = 1..(k - 1) /\ 1..k # {}
<1>1. k \in 1..k /\ 1..k \in SUBSET Int /\ \A x \in 1..k : x <= k
  OBVIOUS
<1>2. PICK m : m = Max(1..k)
  OBVIOUS
<1>3. m \in 1..k /\ \A x \in 1..k : x <= m
  BY <1>1, <1>2, MaxOfBounded
<1>4. m = k
  BY <1>1, <1>3
<1>5. (1..k) \ {k} = 1..(k - 1)
  OBVIOUS
<1>6. QED
  BY <1>1, <1>2, <1>4, <1>5

LEMMA LastOfPrefix ==
    ASSUME NEW n \in Nat, NEW k \in 1..n
    PROVE  Max(1..k) = k /\ (1..k) \ {k} = 1..(k - 1) /\ 1..k # {} /\ 1..k \in SUBSET (1..n)
<1>1. k \in Nat \ {0} /\ k <= n
  OBVIOUS
<1>2. Max(1..k) = k /\ (1..k) \ {k} = 1..(k - 1) /\ 1..k # {}
  BY <1>1, LastOfInterval
<1>3. 1..k \in SUBSET (1..n)
  BY <1>1
<1>4. QED
  BY <1>2, <1>3

LEMMA MaxAt ==
    ASSUME NEW m \in Nat, NEW T \in SUBSET (1..(m + 1)), m + 1 \in T
    PROVE  Max(T) = m + 1 /\ T \ {m + 1} \in SUBSET (1..m)
<1>1. T \in SUBSET Int /\ T # {} /\ \A x \in T : x \in Int /\ x <= m + 1
  OBVIOUS
<1>2. PICK x : x = Max(T)
  OBVIOUS
<1>3. x \in T /\ \A y \in T : y <= x
  BY <1>1, <1>2, MaxOfBounded
<1>4. x = m + 1
  BY <1>1, <1>3
<1>5. ASSUME NEW y \in T \ {m + 1} PROVE y \in 1..m
  OBVIOUS
<1>6. QED
  BY <1>2, <1>4, <1>5

(* The sum of a sequence runs through its partial sums. *)
LEMMA TotalRuns ==
    ASSUME NEW s \in Seq(Int)
    PROVE  \E e : /\ e[0] = 0 /\ Total(s) = e[Len(s)]
                  /\ \A k \in 1..Len(s) : e[k] = e[k - 1] + s[k]
<1> DEFINE Folds(g, m) ==
             g = [T \in SUBSET (1..m) |->
                     IF T = {} THEN 0 ELSE g[T \ {Max(T)}] + s[Max(T)]]
           S == {m \in Nat : \E g : Folds(g, m)}
<1>1. 0 \in S
  <2>1. Folds([T \in SUBSET (1..0) |-> 0], 0)
    OBVIOUS
  <2>2. QED
    BY <2>1
<1>2. ASSUME NEW m \in Nat, m \in S PROVE m + 1 \in S
  <2>1. PICK g : Folds(g, m)
    BY <1>2
  <2> DEFINE h == [T \in SUBSET (1..(m + 1)) |->
                      IF m + 1 \in T THEN g[T \ {m + 1}] + s[m + 1] ELSE g[T]]
  <2>2. ASSUME NEW T \in SUBSET (1..(m + 1))
        PROVE  h[T] = IF T = {} THEN 0 ELSE h[T \ {Max(T)}] + s[Max(T)]
    <3>1. CASE m + 1 \in T
      <4>1. Max(T) = m + 1 /\ T \ {m + 1} \in SUBSET (1..m) /\ m + 1 \notin T \ {m + 1}
        BY <3>1, MaxAt
      <4>2. T \ {m + 1} \in SUBSET (1..(m + 1))
        OBVIOUS
      <4>3. h[T \ {m + 1}] = g[T \ {m + 1}]
        BY <4>1, <4>2
      <4>4. QED
        BY <3>1, <4>1, <4>3
    <3>2. CASE m + 1 \notin T
      <4>1. T \in SUBSET (1..m) /\ h[T] = g[T]
        BY <3>2
      <4> DEFINE U == T \ {Max(T)}
      <4>2. U \in SUBSET (1..m) /\ U \in SUBSET (1..(m + 1)) /\ m + 1 \notin U
        <5>1. U \subseteq T /\ T \subseteq 1..m /\ T \subseteq 1..(m + 1) /\ m + 1 \notin T
          BY <3>2, <4>1
        <5> HIDE DEF U
        <5>2. QED
          BY <5>1
      <4>3. h[T \ {Max(T)}] = g[T \ {Max(T)}]
        BY <4>2
      <4>4. g[T] = IF T = {} THEN 0 ELSE g[T \ {Max(T)}] + s[Max(T)]
        BY <4>1, <2>1
      <4>5. QED
        BY <4>1, <4>3, <4>4
    <3>3. QED
      BY <3>1, <3>2
  <2> HIDE DEF h
  <2>3. Folds(h, m + 1)
    BY <2>2 DEF h
  <2> HIDE DEF Folds
  <2>4. \E g1 : Folds(g1, m + 1)
    BY <2>3
  <2>5. QED
    BY <2>4
<1> HIDE DEF S
<1>3. Len(s) \in S /\ DOMAIN s = 1..Len(s) /\ Len(s) \in Nat
  <2>1. Nat \subseteq S
    BY <1>1, <1>2, NaturalsFromZero
  <2>2. DOMAIN s = 1..Len(s) /\ Len(s) \in Nat
    BY LenProperties
  <2>3. QED
    BY <2>1, <2>2
<1> DEFINE it == CHOOSE g : Folds(g, Len(s))
<1>4. Folds(it, Len(s))
  BY <1>3 DEF S
<1>5. Total(s) = it[1..Len(s)]
  BY <1>3 DEF Total, FoldLeft, MapThenFoldSet
<1> HIDE DEF it
<1> DEFINE e == [k \in Nat |-> it[1..k]]
<1>6. e[0] = 0
  <2>1. 1..0 = {}
    OBVIOUS
  <2>2. it[1..0] = 0
    BY <1>4, <2>1
  <2>3. QED
    BY <2>2
<1>7. ASSUME NEW k \in 1..Len(s) PROVE e[k] = e[k - 1] + s[k]
  <2>1. Max(1..k) = k /\ (1..k) \ {k} = 1..(k - 1) /\ 1..k # {} /\ 1..k \in SUBSET (1..Len(s))
    BY <1>3, LastOfPrefix
  <2>2. it[1..k] = it[1..(k - 1)] + s[k]
    BY <1>4, <2>1
  <2>3. QED
    BY <2>2, <1>3
<1>8. Total(s) = e[Len(s)]
  BY <1>3, <1>5
<1>9. QED
  BY <1>6, <1>7, <1>8

(* A function that starts at 0 and grows by each element in turn ends at   *)
(* the total.                                                              *)
LEMMA TotalIs ==
    ASSUME NEW s \in Seq(Int), NEW e, e[0] = 0,
           \A k \in 1..Len(s) : e[k] = e[k - 1] + s[k]
    PROVE  Total(s) = e[Len(s)]
<1>1. PICK f : /\ f[0] = 0 /\ Total(s) = f[Len(s)]
               /\ \A k \in 1..Len(s) : f[k] = f[k - 1] + s[k]
  BY TotalRuns
<1> DEFINE S == {k \in Nat : f[k] = e[k]}
<1>2. 0 \in S
  BY <1>1
<1>3. ASSUME NEW k \in 0..(Len(s) - 1), k \in S PROVE k + 1 \in S
  <2>1. Len(s) \in Nat /\ k + 1 \in 1..Len(s) /\ (k + 1) - 1 = k /\ k + 1 \in Nat
    BY LenProperties
  <2>2. f[k + 1] = f[k] + s[k + 1] /\ e[k + 1] = e[k] + s[k + 1]
    BY <1>1, <2>1
  <2>3. QED
    BY <1>3, <2>1, <2>2
<1> HIDE DEF S
<1>4. Len(s) \in Nat /\ Len(s) \in 0..Len(s)
  BY LenProperties
<1>5. 0..Len(s) \subseteq S
  BY <1>2, <1>3, <1>4, NaturalsUpTo
<1>6. QED
  BY <1>1, <1>4, <1>5 DEF S

(* There is such a function, of integers, for every sequence. *)
LEMMA PartialSums ==
    ASSUME NEW s \in Seq(Int)
    PROVE  \E e \in [0..Len(s) -> Int] :
              /\ e[0] = 0 /\ Total(s) = e[Len(s)]
              /\ \A k \in 1..Len(s) : e[k] = e[k - 1] + s[k]
<1>1. PICK f : /\ f[0] = 0 /\ Total(s) = f[Len(s)]
               /\ \A k \in 1..Len(s) : f[k] = f[k - 1] + s[k]
  BY TotalRuns
<1>0. Len(s) \in Nat /\ \A k \in 1..Len(s) : s[k] \in Int
  BY LenProperties, ElementOfSeq
<1> DEFINE S == {k \in Nat : f[k] \in Int}
<1>2. 0 \in S
  BY <1>1
<1>3. ASSUME NEW k \in 0..(Len(s) - 1), k \in S PROVE k + 1 \in S
  <2>1. k + 1 \in 1..Len(s) /\ (k + 1) - 1 = k /\ k + 1 \in Nat
    BY <1>0
  <2>2. f[k + 1] = f[k] + s[k + 1] /\ s[k + 1] \in Int
    BY <1>0, <1>1, <2>1
  <2>3. QED
    BY <1>3, <2>1, <2>2
<1> HIDE DEF S
<1>5. 0..Len(s) \subseteq S
  BY <1>2, <1>3, <1>0, NaturalsUpTo
<1> DEFINE e == [k \in 0..Len(s) |-> f[k]]
<1>6. e \in [0..Len(s) -> Int]
  BY <1>5 DEF S
<1>7. \A k \in 1..Len(s) : k \in 0..Len(s) /\ k - 1 \in 0..Len(s)
  BY <1>0
<1>8. e[0] = 0 /\ Total(s) = e[Len(s)]
  BY <1>0, <1>1
<1>9. \A k \in 1..Len(s) : e[k] = e[k - 1] + s[k]
  BY <1>1, <1>7
<1>10. QED
  BY <1>6, <1>8, <1>9

(* The curve runs through its points. *)
LEMMA CurveRuns ==
    ASSUME NEW s \in Seq(Int)
    PROVE  \E e : /\ e[0] = FlatCurve /\ MaximumDrawdown(s) = e[Len(s)].drawdown
                  /\ \A k \in 1..Len(s) : e[k] = Trade(e[k - 1], s[k])
<1> DEFINE Folds(g, m) ==
             g = [T \in SUBSET (1..m) |->
                     IF T = {} THEN FlatCurve ELSE Trade(g[T \ {Max(T)}], s[Max(T)])]
           S == {m \in Nat : \E g : Folds(g, m)}
<1>1. 0 \in S
  <2>1. Folds([T \in SUBSET (1..0) |-> FlatCurve], 0)
    OBVIOUS
  <2>2. QED
    BY <2>1
<1>2. ASSUME NEW m \in Nat, m \in S PROVE m + 1 \in S
  <2>1. PICK g : Folds(g, m)
    BY <1>2
  <2> DEFINE h == [T \in SUBSET (1..(m + 1)) |->
                      IF m + 1 \in T THEN Trade(g[T \ {m + 1}], s[m + 1]) ELSE g[T]]
  <2>2. ASSUME NEW T \in SUBSET (1..(m + 1))
        PROVE  h[T] = IF T = {} THEN FlatCurve ELSE Trade(h[T \ {Max(T)}], s[Max(T)])
    <3>1. CASE m + 1 \in T
      <4>1. Max(T) = m + 1 /\ T \ {m + 1} \in SUBSET (1..m) /\ m + 1 \notin T \ {m + 1}
        BY <3>1, MaxAt
      <4>2. T \ {m + 1} \in SUBSET (1..(m + 1))
        OBVIOUS
      <4>3. h[T \ {m + 1}] = g[T \ {m + 1}]
        BY <4>1, <4>2
      <4>4. QED
        BY <3>1, <4>1, <4>3
    <3>2. CASE m + 1 \notin T
      <4>1. T \in SUBSET (1..m) /\ h[T] = g[T]
        BY <3>2
      <4> DEFINE U == T \ {Max(T)}
      <4>2. U \in SUBSET (1..m) /\ U \in SUBSET (1..(m + 1)) /\ m + 1 \notin U
        <5>1. U \subseteq T /\ T \subseteq 1..m /\ T \subseteq 1..(m + 1) /\ m + 1 \notin T
          BY <3>2, <4>1
        <5> HIDE DEF U
        <5>2. QED
          BY <5>1
      <4>3. h[T \ {Max(T)}] = g[T \ {Max(T)}]
        BY <4>2
      <4>4. g[T] = IF T = {} THEN FlatCurve ELSE Trade(g[T \ {Max(T)}], s[Max(T)])
        BY <4>1, <2>1
      <4>5. QED
        BY <4>1, <4>3, <4>4
    <3>3. QED
      BY <3>1, <3>2
  <2> HIDE DEF h
  <2>3. Folds(h, m + 1)
    BY <2>2 DEF h
  <2> HIDE DEF Folds
  <2>4. \E g1 : Folds(g1, m + 1)
    BY <2>3
  <2>5. QED
    BY <2>4
<1> HIDE DEF S
<1>3. Len(s) \in S /\ DOMAIN s = 1..Len(s) /\ Len(s) \in Nat
  <2>1. Nat \subseteq S
    BY <1>1, <1>2, NaturalsFromZero
  <2>2. DOMAIN s = 1..Len(s) /\ Len(s) \in Nat
    BY LenProperties
  <2>3. QED
    BY <2>1, <2>2
<1> DEFINE it == CHOOSE g : Folds(g, Len(s))
<1>4. Folds(it, Len(s))
  BY <1>3 DEF S
<1>5. MaximumDrawdown(s) = it[1..Len(s)].drawdown
  BY <1>3 DEF MaximumDrawdown, FoldLeft, MapThenFoldSet
<1> HIDE DEF it
<1> DEFINE e == [k \in Nat |-> it[1..k]]
<1>6. e[0] = FlatCurve
  <2>1. 1..0 = {}
    OBVIOUS
  <2>2. it[1..0] = FlatCurve
    BY <1>4, <2>1
  <2>3. QED
    BY <2>2
<1>7. ASSUME NEW k \in 1..Len(s) PROVE e[k] = Trade(e[k - 1], s[k])
  <2>1. Max(1..k) = k /\ (1..k) \ {k} = 1..(k - 1) /\ 1..k # {} /\ 1..k \in SUBSET (1..Len(s))
    BY <1>3, LastOfPrefix
  <2>2. it[1..k] = Trade(it[1..(k - 1)], s[k])
    BY <1>4, <2>1
  <2>3. QED
    BY <2>2, <1>3
<1>8. MaximumDrawdown(s) = e[Len(s)].drawdown
  BY <1>3, <1>5
<1>9. QED
  BY <1>6, <1>7, <1>8

PartialSumsOf(e, s) ==
    /\ e \in [0..Len(s) -> Int] /\ e[0] = 0
    /\ \A k \in 1..Len(s) : e[k] = e[k - 1] + s[k]

LEMMA TotalOfSegment ==
    ASSUME NEW s \in Seq(Int), NEW e, PartialSumsOf(e, s),
           NEW i \in 1..Len(s), NEW j \in 1..Len(s)
    PROVE  Total(SubSeq(s, i, j)) = IF i <= j THEN e[j] - e[i - 1] ELSE 0
<1>0. Len(s) \in Nat
  BY LenProperties
<1> DEFINE t == SubSeq(s, i, j)
           n == IF i <= j THEN (j - i) + 1 ELSE 0
           f == [k \in 0..n |-> e[(i - 1) + k] - e[i - 1]]
<1>1. /\ t \in Seq(Int) /\ Len(t) = n /\ n \in Nat
      /\ \A k \in 1..n : t[k] = s[(i - 1) + k]
  <2>1. /\ t \in Seq(Int) /\ Len(t) = n
        /\ \A k \in 1..n : t[k] = s[(i + k) - 1]
    BY <1>0, SubSeqProperties
  <2>2. n \in Nat /\ \A k \in 1..n : (i + k) - 1 = (i - 1) + k
    BY <1>0
  <2> HIDE DEF t, n
  <2>3. QED
    BY <2>1, <2>2
<1>2. f[0] = 0
  <2>1. 0 \in 0..n /\ (i - 1) + 0 = i - 1 /\ i - 1 \in 0..Len(s)
    BY <1>0, <1>1
  <2>2. e[i - 1] \in Int
    BY <2>1 DEF PartialSumsOf
  <2> HIDE DEF n
  <2>3. f[0] = e[i - 1] - e[i - 1]
    BY <2>1
  <2> HIDE DEF f
  <2>4. QED
    BY <2>2, <2>3
<1>3. ASSUME NEW k \in 1..n PROVE f[k] = f[k - 1] + t[k]
  <2>1. /\ k \in 0..n /\ k - 1 \in 0..n /\ (i - 1) + k \in 1..Len(s)
        /\ ((i - 1) + k) - 1 = (i - 1) + (k - 1)
        /\ (i - 1) + k \in 0..Len(s) /\ (i - 1) + (k - 1) \in 0..Len(s) /\ i - 1 \in 0..Len(s)
    BY <1>0
  <2>2. e[(i - 1) + k] = e[(i - 1) + (k - 1)] + s[(i - 1) + k]
    BY <2>1 DEF PartialSumsOf
  <2>3. {e[(i - 1) + k], e[(i - 1) + (k - 1)], e[i - 1], s[(i - 1) + k]} \subseteq Int
    BY <2>1, ElementOfSeq DEF PartialSumsOf
  <2>4. f[k] = e[(i - 1) + k] - e[i - 1] /\ f[k - 1] = e[(i - 1) + (k - 1)] - e[i - 1]
    BY <2>1
  <2>5. t[k] = s[(i - 1) + k]
    BY <1>1
  <2>6. \A a, b, c \in Int : (a + c) - b = (a - b) + c
    OBVIOUS
  <2>7. e[(i - 1) + k] - e[i - 1] = (e[(i - 1) + (k - 1)] - e[i - 1]) + s[(i - 1) + k]
    BY <2>2, <2>3, <2>6
  <2> HIDE DEF f, t, n
  <2>8. QED
    BY <2>4, <2>5, <2>7
<1>4. Total(t) = f[n]
  <2> HIDE DEF f, t, n
  <2>1. QED
    BY <1>1, <1>2, <1>3, TotalIs
<1>5. f[n] = IF i <= j THEN e[j] - e[i - 1] ELSE 0
  <2>1. CASE i <= j
    <3>1. n \in 0..n /\ (i - 1) + n = j
      BY <2>1, <1>0
    <3> HIDE DEF n
    <3>2. QED
      BY <3>1, <2>1
  <2>2. CASE ~(i <= j)
    <3>1. n = 0
      BY <2>2
    <3>2. QED
      BY <3>1, <2>2, <1>2
  <2>3. QED
    BY <2>1, <2>2
<1>6. QED
  BY <1>4, <1>5

(* The drawdown is the greatest difference between a partial sum and the    *)
(* partial sum of a later point, or the same one.                          *)
LEMMA DrawdownIsGreatest ==
    ASSUME NEW s \in Seq(Int), NEW e, PartialSumsOf(e, s)
    PROVE  /\ MaximumDrawdown(s) \in Int
           /\ \A i, j \in 0..Len(s) : i <= j => e[i] - e[j] <= MaximumDrawdown(s)
           /\ \E i, j \in 0..Len(s) : i <= j /\ MaximumDrawdown(s) = e[i] - e[j]
<1>0. Len(s) \in Nat /\ \A k \in 1..Len(s) : s[k] \in Int
  BY LenProperties, ElementOfSeq
<1>1. PICK c : /\ c[0] = FlatCurve /\ MaximumDrawdown(s) = c[Len(s)].drawdown
               /\ \A k \in 1..Len(s) : c[k] = Trade(c[k - 1], s[k])
  BY CurveRuns
<1> DEFINE Right(k) ==
             /\ c[k] \in [equity : Int, peak : Int, drawdown : Int]
             /\ c[k].equity = e[k]
             /\ \A i \in 0..k : e[i] <= c[k].peak
             /\ \E i \in 0..k : c[k].peak = e[i]
             /\ \A i, j \in 0..k : i <= j => e[i] - e[j] <= c[k].drawdown
             /\ \E i, j \in 0..k : i <= j /\ c[k].drawdown = e[i] - e[j]
           S == {k \in Nat : Right(k)}
<1>2. 0 \in S
  <2>1. 0..0 = {0} /\ e[0] = 0 /\ c[0] = FlatCurve
    BY <1>1 DEF PartialSumsOf
  <2>2. QED
    BY <2>1 DEF FlatCurve
<1>3. ASSUME NEW k \in 0..(Len(s) - 1), k \in S PROVE k + 1 \in S
  <2>0. /\ k \in Nat /\ k + 1 \in Nat /\ k + 1 \in 1..Len(s) /\ (k + 1) - 1 = k
        /\ 0..k \subseteq 0..Len(s) /\ k + 1 \in 0..Len(s)
    BY <1>0
  <2>1. Right(k)
    BY <1>3
  <2>2. c[k + 1] = Trade(c[k], s[k + 1]) /\ e[k + 1] = e[k] + s[k + 1] /\ s[k + 1] \in Int
    BY <1>0, <1>1, <2>0 DEF PartialSumsOf
  <2>3. \A i \in 0..(k + 1) : (i \in 0..k \/ i = k + 1) /\ e[i] \in Int
    <3>1. ASSUME NEW i \in 0..(k + 1) PROVE (i \in 0..k \/ i = k + 1) /\ i \in 0..Len(s)
      BY <2>0
    <3>2. QED
      BY <3>1 DEF PartialSumsOf
  <2> DEFINE peak == Larger(c[k].peak, e[k + 1])
  <2>4. /\ c[k + 1] = [equity |-> e[k + 1], peak |-> peak,
                       drawdown |-> Larger(c[k].drawdown, peak - e[k + 1])]
        /\ c[k].peak \in Int /\ c[k].drawdown \in Int /\ peak \in Int
    BY <2>1, <2>2, <2>3, <2>0 DEF Trade, Larger
  <2>5. /\ \A i \in 0..(k + 1) : e[i] <= peak
        /\ \E i \in 0..(k + 1) : peak = e[i]
    <3>1. ASSUME NEW i \in 0..(k + 1) PROVE e[i] <= peak
      <4>1. CASE i \in 0..k
        <5>1. e[i] <= c[k].peak /\ e[i] \in Int /\ e[k + 1] \in Int /\ c[k].peak \in Int
          BY <4>1, <2>1, <2>3, <2>4, <2>0
        <5>2. QED
          BY <5>1 DEF Larger
      <4>2. CASE i = k + 1
        BY <4>2, <2>3, <2>4 DEF Larger
      <4>3. QED
        BY <2>3, <4>1, <4>2
    <3>2. PICK i \in 0..k : c[k].peak = e[i]
      BY <2>1
    <3>3. i \in 0..(k + 1) /\ k + 1 \in 0..(k + 1)
      BY <2>0
    <3>4. peak = e[i] \/ peak = e[k + 1]
      BY <3>2 DEF Larger
    <3>5. QED
      BY <3>1, <3>3, <3>4
  <2> HIDE DEF peak
  <2> DEFINE dd == Larger(c[k].drawdown, peak - e[k + 1])
  <2>6. dd \in Int /\ c[k].drawdown <= dd /\ peak - e[k + 1] <= dd
        /\ (dd = c[k].drawdown \/ dd = peak - e[k + 1])
    BY <2>0, <2>3, <2>4 DEF Larger
  <2> HIDE DEF dd
  <2>7. ASSUME NEW i \in 0..(k + 1), NEW j \in 0..(k + 1), i <= j PROVE e[i] - e[j] <= dd
    <3>1. CASE j \in 0..k
      <4>1. i \in 0..k
        BY <3>1, <2>7
      <4>2. e[i] - e[j] <= c[k].drawdown
        BY <4>1, <3>1, <2>1, <2>7
      <4>3. QED
        BY <4>2, <2>6, <2>4, <2>3
    <3>2. CASE j = k + 1
      <4>1. e[i] <= peak
        BY <2>5
      <4>2. QED
        BY <4>1, <3>2, <2>3, <2>4, <2>6
    <3>3. QED
      BY <2>3, <3>1, <3>2
  <2>8. \E i, j \in 0..(k + 1) : i <= j /\ dd = e[i] - e[j]
    <3>1. CASE dd = c[k].drawdown
      <4>1. PICK i \in 0..k, j \in 0..k : i <= j /\ c[k].drawdown = e[i] - e[j]
        BY <2>1
      <4>2. i \in 0..(k + 1) /\ j \in 0..(k + 1)
        BY <2>0
      <4>3. QED
        BY <4>1, <4>2, <3>1
    <3>2. CASE dd = peak - e[k + 1]
      <4>1. PICK i \in 0..(k + 1) : peak = e[i]
        BY <2>5
      <4>2. k + 1 \in 0..(k + 1) /\ i <= k + 1
        BY <2>0
      <4>3. QED
        BY <4>1, <4>2, <3>2
    <3>3. QED
      BY <2>6, <3>1, <3>2
  <2>9. c[k + 1] = [equity |-> e[k + 1], peak |-> peak, drawdown |-> dd]
    BY <2>4 DEF dd
  <2>10. Right(k + 1)
    <3>1. c[k + 1].equity = e[k + 1] /\ c[k + 1].peak = peak /\ c[k + 1].drawdown = dd
      BY <2>9
    <3>2. c[k + 1] \in [equity : Int, peak : Int, drawdown : Int]
      BY <2>9, <2>3, <2>4, <2>6, <2>0
    <3>3. QED
      BY <3>1, <3>2, <2>5, <2>7, <2>8
  <2>11. QED
    BY <2>0, <2>10
<1> HIDE DEF S
<1>4. Len(s) \in S
  <2>1. 0..Len(s) \subseteq S
    BY <1>0, <1>2, <1>3, NaturalsUpTo
  <2>2. QED
    BY <1>0, <2>1
<1>5. Right(Len(s))
  BY <1>4 DEF S
<1>6. QED
  BY <1>1, <1>5

(* DrawdownIsWorstFall of one packet. *)

LEMMA DrawdownIsDeepestFall ==
    ASSUME NEW s \in Seq(Int)
    PROVE  /\ MaximumDrawdown(s) \in Falls(s)
           /\ \A f \in Falls(s) : f \in Int /\ f <= MaximumDrawdown(s)
           /\ MaximumDrawdown(s) = Max(Falls(s))
<1>0. Len(s) \in Nat /\ DOMAIN s = 1..Len(s)
  BY LenProperties
<1>1. PICK e \in [0..Len(s) -> Int] : PartialSumsOf(e, s)
  BY PartialSums DEF PartialSumsOf
<1>2. PICK m : m = MaximumDrawdown(s)
  OBVIOUS
<1>3. /\ m \in Int
      /\ \A i, j \in 0..Len(s) : i <= j => e[i] - e[j] <= m
      /\ \E i, j \in 0..Len(s) : i <= j /\ m = e[i] - e[j]
  BY <1>1, <1>2, DrawdownIsGreatest
<1>4. ASSUME NEW i \in DOMAIN s, NEW j \in DOMAIN s
      PROVE  -Total(SubSeq(s, i, j)) = IF i <= j THEN e[i - 1] - e[j] ELSE 0
  <2>1. Total(SubSeq(s, i, j)) = IF i <= j THEN e[j] - e[i - 1] ELSE 0
    BY <1>0, <1>1, TotalOfSegment
  <2>2. e[j] \in Int /\ e[i - 1] \in Int
    BY <1>0, <1>1
  <2>3. QED
    BY <2>1, <2>2
<1>5. 0 <= m
  <2>1. 0 \in 0..Len(s) /\ e[0] \in Int /\ e[0] - e[0] <= m
    BY <1>0, <1>3
  <2>2. QED
    BY <2>1, <1>3
<1>6. ASSUME NEW f \in Falls(s) PROVE f \in Int /\ f <= m
  <2>1. CASE f = 0
    BY <2>1, <1>5
  <2>2. ASSUME NEW i \in DOMAIN s, NEW j \in DOMAIN s, f = -Total(SubSeq(s, i, j))
        PROVE  f \in Int /\ f <= m
    <3>1. i - 1 \in 0..Len(s) /\ j \in 0..Len(s) /\ e[i - 1] \in Int /\ e[j] \in Int
      BY <1>0
    <3>2. CASE i <= j
      <4>1. f = e[i - 1] - e[j] /\ e[i - 1] - e[j] <= m
        BY <1>0, <1>3, <1>4, <2>2, <3>1, <3>2
      <4>2. QED
        BY <4>1, <3>1
    <3>3. CASE ~(i <= j)
      BY <1>4, <1>5, <2>2, <3>3
    <3>4. QED
      BY <3>2, <3>3
  <2>3. QED
    BY <2>1, <2>2 DEF Falls
<1>7. m \in Falls(s)
  <2>1. PICK i \in 0..Len(s), j \in 0..Len(s) : i <= j /\ m = e[i] - e[j]
    BY <1>3
  <2>2. CASE i = j
    <3>1. m = 0
      BY <2>1, <2>2
    <3>2. QED
      BY <3>1 DEF Falls
  <2>3. CASE i # j
    <3>1. i + 1 \in DOMAIN s /\ j \in DOMAIN s /\ i + 1 <= j /\ (i + 1) - 1 = i
      BY <1>0, <2>1, <2>3
    <3>2. m = -Total(SubSeq(s, i + 1, j))
      BY <1>4, <2>1, <3>1
    <3>3. QED
      BY <3>1, <3>2 DEF Falls
  <2>4. QED
    BY <2>2, <2>3
<1>8. m = Max(Falls(s))
  <2>1. Falls(s) \in SUBSET Int /\ Falls(s) # {} /\ \A f \in Falls(s) : f <= m
    BY <1>6, <1>7
  <2>2. PICK x : x = Max(Falls(s))
    OBVIOUS
  <2>3. x \in Falls(s) /\ \A f \in Falls(s) : f <= x
    BY <2>1, <2>2, <1>3, MaxOfBounded
  <2>4. x <= m /\ m <= x /\ x \in Int
    BY <1>6, <1>7, <2>3
  <2>5. QED
    BY <1>3, <2>2, <2>4
<1>9. QED
  BY <1>2, <1>6, <1>7, <1>8

(* One more trade. *)
LEMMA OneMoreTrade ==
    ASSUME NEW s \in Seq(Int), NEW r \in Int
    PROVE  /\ Append(s, r) \in Seq(Int) /\ Len(Append(s, r)) = Len(s) + 1
           /\ Total(s) \in Int
           /\ Total(Append(s, r)) = Total(s) + r
           /\ r >= 0 => MaximumDrawdown(Append(s, r)) <= MaximumDrawdown(s)
<1> DEFINE t == Append(s, r)
<1>0. /\ Len(s) \in Nat /\ t \in Seq(Int) /\ Len(t) = Len(s) + 1
      /\ \A k \in 1..Len(s) : t[k] = s[k]
      /\ t[Len(s) + 1] = r
  BY AppendProperties, LenProperties
<1> HIDE DEF t
<1>1. PICK e \in [0..Len(s) -> Int] : PartialSumsOf(e, s) /\ Total(s) = e[Len(s)]
  BY PartialSums DEF PartialSumsOf
<1>2. e[Len(s)] \in Int
  BY <1>0
<1> DEFINE f == [k \in 0..Len(t) |-> IF k <= Len(s) THEN e[k] ELSE e[Len(s)] + r]
<1>3. /\ f \in [0..Len(t) -> Int]
      /\ \A k \in 0..Len(s) : k \in 0..Len(t) /\ f[k] = e[k] /\ e[k] \in Int
      /\ Len(t) \in 0..Len(t) /\ f[Len(t)] = e[Len(s)] + r
  <2>1. ASSUME NEW k \in 0..Len(t)
        PROVE  (IF k <= Len(s) THEN e[k] ELSE e[Len(s)] + r) \in Int
    <3>1. k <= Len(s) => k \in 0..Len(s)
      BY <1>0
    <3>2. QED
      BY <3>1, <1>2
  <2>2. \A k \in 0..Len(s) : k \in 0..Len(t) /\ k <= Len(s) /\ e[k] \in Int
    <3>1. \A k \in 0..Len(s) : e[k] \in Int
      OBVIOUS
    <3>2. \A k \in 0..Len(s) : k \in 0..Len(t) /\ k <= Len(s)
      BY <1>0
    <3>3. QED
      BY <3>1, <3>2
  <2>3. Len(t) \in 0..Len(t) /\ ~(Len(t) <= Len(s))
    BY <1>0
  <2>4. QED
    BY <2>1, <2>2, <2>3
<1> HIDE DEF f
<1>4. PartialSumsOf(f, t)
  <2>1. f[0] = 0
    BY <1>0, <1>1, <1>3 DEF PartialSumsOf
  <2>2. ASSUME NEW k \in 1..Len(t) PROVE f[k] = f[k - 1] + t[k]
    <3>1. CASE k <= Len(s)
      <4>1. k \in 1..Len(s) /\ k \in 0..Len(s) /\ k - 1 \in 0..Len(s)
        BY <1>0, <3>1
      <4>2. e[k] = e[k - 1] + s[k]
        BY <4>1, <1>1 DEF PartialSumsOf
      <4>3. QED
        BY <4>1, <4>2, <1>0, <1>3
    <3>2. CASE ~(k <= Len(s))
      <4>1. k = Len(t) /\ k - 1 = Len(s) /\ k = Len(s) + 1 /\ Len(s) \in 0..Len(s)
        BY <1>0, <3>2
      <4>2. f[k - 1] = e[Len(s)] /\ f[k] = e[Len(s)] + r /\ t[k] = r
        BY <4>1, <1>0, <1>3
      <4>3. QED
        BY <4>2
    <3>3. QED
      BY <3>1, <3>2
  <2>3. QED
    BY <2>1, <2>2, <1>3 DEF PartialSumsOf
<1>5. Total(t) = f[Len(t)]
  BY <1>0, <1>4, TotalIs DEF PartialSumsOf
<1>6. ASSUME r >= 0 PROVE MaximumDrawdown(t) <= MaximumDrawdown(s)
  <2>1. PICK m : m = MaximumDrawdown(s)
    OBVIOUS
  <2>2. m \in Int /\ \A i, j \in 0..Len(s) : i <= j => e[i] - e[j] <= m
    BY <2>1, <1>1, DrawdownIsGreatest
  <2>3. PICK i \in 0..Len(t), j \in 0..Len(t) : i <= j /\ MaximumDrawdown(t) = f[i] - f[j]
    BY <1>0, <1>4, DrawdownIsGreatest
  <2>4. CASE j <= Len(s)
    <3>1. i \in 0..Len(s) /\ j \in 0..Len(s)
      BY <2>3, <2>4, <1>0
    <3>2. f[i] - f[j] <= m
      BY <3>1, <2>2, <2>3, <1>3
    <3>3. QED
      BY <3>2, <2>1, <2>3
  <2>5. CASE ~(j <= Len(s))
    <3>1. j = Len(t) /\ f[j] = e[Len(s)] + r
      BY <2>5, <1>0, <1>3
    <3>2. Len(s) \in 0..Len(s) /\ e[Len(s)] - e[Len(s)] <= m
      BY <2>2, <1>0
    <3>3. CASE i = j
      <4>1. f[i] - f[j] = 0 /\ 0 <= m
        BY <3>1, <3>2, <3>3, <1>2
      <4>2. QED
        BY <4>1, <2>1, <2>3
    <3>4. CASE i # j
      <4>1. i \in 0..Len(s) /\ i <= Len(s)
        BY <2>3, <3>1, <3>4, <1>0
      <4>2. f[i] = e[i] /\ e[i] \in Int /\ e[i] - e[Len(s)] <= m
        BY <4>1, <3>2, <2>2, <1>3
      <4>3. f[i] - f[j] <= m
        BY <4>2, <3>1, <1>2, <1>6, <2>2
      <4>4. QED
        BY <4>3, <2>1, <2>3
    <3>5. QED
      BY <3>3, <3>4
  <2>6. QED
    BY <2>4, <2>5, <1>0
<1>7. QED
  BY <1>0, <1>1, <1>2, <1>3, <1>5, <1>6 DEF t

-----------------------------------------------------------------------------
(* The Court: what one more win does to the gates.                         *)

LEMMA WinsCounted ==
    ASSUME NEW s \in Seq(Int)
    PROVE  /\ IsFiniteSet(Wins(s)) /\ Cardinality(Wins(s)) \in Nat
           /\ Cardinality(Wins(s)) <= Len(s)
<1>1. Len(s) \in Nat /\ Wins(s) \subseteq 1..Len(s)
  BY LenProperties DEF Wins
<1>2. IsFiniteSet(1..Len(s)) /\ Cardinality(1..Len(s)) = Len(s)
  <2>1. \A n \in Nat : IsFiniteSet(1..n) /\ Cardinality(1..n) = IF 1 > n THEN 0 ELSE n - 1 + 1
    BY FS_Interval
  <2>2. \A n \in Nat : (IF 1 > n THEN 0 ELSE n - 1 + 1) = n
    OBVIOUS
  <2>3. QED
    BY <1>1, <2>1, <2>2
<1>3. QED
  BY <1>1, <1>2, FS_Subset, FS_CardinalityType

LEMMA OneMoreWin ==
    ASSUME NEW s \in Seq(Int), NEW r \in Int, r > 0
    PROVE  Cardinality(Wins(Append(s, r))) = Cardinality(Wins(s)) + 1
<1>1. /\ Len(s) \in Nat /\ Len(Append(s, r)) = Len(s) + 1
      /\ DOMAIN s = 1..Len(s) /\ DOMAIN Append(s, r) = 1..(Len(s) + 1)
      /\ \A k \in 1..Len(s) : Append(s, r)[k] = s[k]
      /\ Append(s, r)[Len(s) + 1] = r
  BY AppendProperties, LenProperties
<1>2. ASSUME NEW k
      PROVE  k \in Wins(Append(s, r)) <=> k \in Wins(s) \cup {Len(s) + 1}
  <2>1. CASE k \in 1..Len(s)
    BY <1>1, <2>1 DEF Wins
  <2>2. CASE k = Len(s) + 1
    BY <1>1, <2>2 DEF Wins
  <2>3. CASE k \notin 1..Len(s) /\ k # Len(s) + 1
    <3>1. k \notin 1..(Len(s) + 1)
      BY <1>1, <2>3
    <3>2. QED
      BY <1>1, <2>3, <3>1 DEF Wins
  <2>4. QED
    BY <2>1, <2>2, <2>3
<1>3. Wins(Append(s, r)) = Wins(s) \cup {Len(s) + 1}
  BY <1>2
<1>4. Len(s) + 1 \notin Wins(s)
  BY <1>1 DEF Wins
<1>5. QED
  BY <1>3, <1>4, WinsCounted, FS_AddElement

Positive(s) == [i \in DOMAIN s |-> Larger(s[i], 0)]
Negative(s) == [i \in DOMAIN s |-> Larger(-s[i], 0)]

LEMMA GrossOfAppend ==
    ASSUME NEW s \in Seq(Int), NEW r \in Int, r > 0
    PROVE  /\ GrossProfit(s) \in Int /\ GrossLoss(s) \in Int
           /\ GrossProfit(Append(s, r)) = GrossProfit(s) + r
           /\ GrossLoss(Append(s, r)) = GrossLoss(s)
<1>1. /\ Len(s) \in Nat /\ Len(Append(s, r)) = Len(s) + 1
      /\ DOMAIN s = 1..Len(s) /\ DOMAIN Append(s, r) = 1..(Len(s) + 1)
      /\ \A k \in 1..Len(s) : Append(s, r)[k] = s[k] /\ s[k] \in Int
      /\ Append(s, r)[Len(s) + 1] = r
  BY AppendProperties, LenProperties, ElementOfSeq
<1>2. Positive(s) \in Seq(Int) /\ Negative(s) \in Seq(Int)
      /\ Len(Positive(s)) = Len(s) /\ Len(Negative(s)) = Len(s)
  <2>1. /\ \A k \in 1..Len(s) : Larger(s[k], 0) \in Int /\ Larger(-s[k], 0) \in Int
    BY <1>1 DEF Larger
  <2>2. Positive(s) \in [1..Len(s) -> Int] /\ Negative(s) \in [1..Len(s) -> Int]
    BY <1>1, <2>1 DEF Positive, Negative
  <2>3. Positive(s) \in Seq(Int) /\ Negative(s) \in Seq(Int)
    <3>1. \A n \in Nat : \A f \in [1..n -> Int] : f \in Seq(Int)
      OBVIOUS
    <3>2. QED
      BY <1>1, <2>2, <3>1
  <2>4. DOMAIN Positive(s) = 1..Len(s) /\ DOMAIN Negative(s) = 1..Len(s)
    BY <2>2
  <2>5. \A q \in Seq(Int) : DOMAIN q = 1..Len(s) => Len(q) = Len(s)
    BY <1>1
  <2>6. QED
    BY <2>3, <2>4, <2>5
<1>3. Larger(r, 0) = r /\ Larger(-r, 0) = 0
  BY DEF Larger
<1>4. Positive(Append(s, r)) = Append(Positive(s), r)
  <2> DEFINE a == Positive(Append(s, r))
             b == Append(Positive(s), r)
  <2>1. /\ b \in Seq(Int) /\ Len(b) = Len(s) + 1
        /\ \A k \in 1..Len(s) : b[k] = Positive(s)[k]
        /\ b[Len(s) + 1] = r
    BY <1>2, AppendProperties
  <2>2. DOMAIN a = 1..(Len(s) + 1) /\ DOMAIN b = 1..(Len(s) + 1)
    BY <1>1, <2>1, LenProperties DEF Positive
  <2>3. ASSUME NEW k \in 1..(Len(s) + 1) PROVE a[k] = b[k]
    <3>1. k \in 1..Len(s) \/ k = Len(s) + 1
      BY <1>1
    <3>2. QED
      BY <1>1, <1>3, <2>1, <3>1 DEF Positive
  <2>4. a = [k \in 1..(Len(s) + 1) |-> a[k]] /\ b = [k \in 1..(Len(s) + 1) |-> b[k]]
    BY <2>1, <2>2, <1>1, LenProperties DEF Positive
  <2> HIDE DEF a, b
  <2>5. a = b
    BY <2>3, <2>4
  <2>6. QED
    BY <2>5 DEF a, b
<1>5. Negative(Append(s, r)) = Append(Negative(s), 0)
  <2> DEFINE a == Negative(Append(s, r))
             b == Append(Negative(s), 0)
  <2>1. /\ b \in Seq(Int) /\ Len(b) = Len(s) + 1
        /\ \A k \in 1..Len(s) : b[k] = Negative(s)[k]
        /\ b[Len(s) + 1] = 0
    BY <1>2, AppendProperties
  <2>2. DOMAIN a = 1..(Len(s) + 1) /\ DOMAIN b = 1..(Len(s) + 1)
    BY <1>1, <2>1, LenProperties DEF Negative
  <2>3. ASSUME NEW k \in 1..(Len(s) + 1) PROVE a[k] = b[k]
    <3>1. k \in 1..Len(s) \/ k = Len(s) + 1
      BY <1>1
    <3>2. QED
      BY <1>1, <1>3, <2>1, <3>1 DEF Negative
  <2>4. a = [k \in 1..(Len(s) + 1) |-> a[k]] /\ b = [k \in 1..(Len(s) + 1) |-> b[k]]
    BY <2>1, <2>2, <1>1, LenProperties DEF Negative
  <2> HIDE DEF a, b
  <2>5. a = b
    BY <2>3, <2>4
  <2>6. QED
    BY <2>5 DEF a, b
<1>6. /\ Total(Positive(s)) \in Int /\ Total(Negative(s)) \in Int
      /\ Total(Append(Positive(s), r)) = Total(Positive(s)) + r
      /\ Total(Append(Negative(s), 0)) = Total(Negative(s)) + 0
  BY <1>2, OneMoreTrade
<1>7. \A t : GrossProfit(t) = Total(Positive(t)) /\ GrossLoss(t) = Total(Negative(t))
  BY DEF GrossProfit, GrossLoss, Positive, Negative
<1>8. GrossProfit(Append(s, r)) = GrossProfit(s) + r
  BY <1>4, <1>6, <1>7
<1>9. GrossLoss(Append(s, r)) = GrossLoss(s)
  <2>1. GrossLoss(Append(s, r)) = Total(Append(Negative(s), 0))
    BY <1>5, <1>7
  <2>2. QED
    BY <2>1, <1>6, <1>7
<1>10. QED
  BY <1>6, <1>7, <1>8, <1>9

(* A win cannot lower the Wilson bound below a threshold that it reaches:   *)
(* with n trades, w of them won, the excess over c percent grows by 100 - c *)
(* and is at most (100 - c) n, which is what its square has to make up for. *)
LEMMA WilsonOfWin ==
    ASSUME NEW w \in Nat, NEW n \in Nat, w <= n, NEW c \in Int,
           n >= 1, WilsonReaches(w, n, c)
    PROVE  WilsonReaches(w + 1, n + 1, c)
<1>1. CASE c <= 0
  BY <1>1 DEF WilsonReaches
<1>2. CASE c > 100
  <2>1. 100 * w - c * n >= 0
    BY <1>2 DEF WilsonReaches
  <2>2. c * n > 100 * n
    BY <1>2
  <2>3. c * n \in Int
    OBVIOUS
  <2>4. FALSE
    BY <2>1, <2>2, <2>3
  <2>5. QED
    BY <2>4
<1>3. CASE c > 0 /\ c <= 100
  <2> DEFINE x == 100 * w - c * n
             d == 100 - c
             y == 2401 * c
  <2>1. x \in Int /\ d \in Int /\ y \in Int /\ d >= 0 /\ y > 0
    BY <1>3
  <2>2. x >= 0 /\ 625 * x * x >= 2401 * c * (100 - c) * n
    BY <1>3 DEF WilsonReaches
  <2>3. 100 * (w + 1) - c * (n + 1) = x + d
    <3>1. c * (n + 1) = c * n + c
      OBVIOUS
    <3>2. c * n \in Int
      OBVIOUS
    <3>3. QED
      BY <3>1, <3>2
  <2>4. 2401 * c * (100 - c) * n = y * d * n
        /\ 2401 * c * (100 - c) * (n + 1) = (y * d * n) + (y * d)
    OBVIOUS
  <2>5. x <= d * n
    <3>1. d * n = (100 * n) - (c * n)
      OBVIOUS
    <3>2. c * n \in Int
      OBVIOUS
    <3>3. QED
      BY <3>1, <3>2
  <2> HIDE DEF x, d, y
  <2>6. 625 * (x + d) * (x + d) >= (y * d * n) + (y * d)
    <3>1. 625 * x * x >= y * d * n
      BY <2>2, <2>4
    <3>2. CASE d = 0
      <4>1. y * d * n = 0 /\ y * d = 0 /\ x + d = x
        BY <3>2, <2>1
      <4>2. QED
        BY <4>1, <3>1, <2>1
    <3>3. CASE d > 0
      <4>1. CASE x = 0
        <5>1. 625 * x * x = 0
          BY <4>1
        <5>2. y * d * n > 0
          BY <2>1, <3>3
        <5>3. {625 * x * x, y * d * n} \subseteq Int
          BY <2>1
        <5>5. FALSE
          BY <5>1, <5>2, <5>3, <3>1
        <5>6. QED
          BY <5>5
      <4>2. CASE x > 0
        <5>1. 625 * x * (d * n) >= 625 * x * x
          BY <2>1, <2>5, <4>2
        <5>2. 625 * x * (d * n) >= y * d * n
          BY <5>1, <3>1, <2>1
        <5>3. (625 * x - y) * (d * n) >= 0
          BY <5>2, <2>1
        <5>4. d * n > 0 /\ d * n \in Int
          BY <2>1, <3>3
        <5>5. 625 * x - y >= 0
          BY <5>3, <5>4, <2>1
        <5>6. 625 * (x + d) * (x + d) = (625 * x * x) + (1250 * x * d) + (625 * d * d)
          BY <2>1
        <5>7. 625 * x * d >= y * d
          BY <5>5, <2>1
        <5>8. 625 * x * d >= 0 /\ 625 * d * d >= 0 /\ 1250 * x * d = (625 * x * d) + (625 * x * d)
          BY <2>1, <4>2
        <5>9. {625 * x * x, 625 * x * d, 625 * d * d, y * d, y * d * n} \subseteq Int
          BY <2>1
        <5>10. QED
          BY <3>1, <5>6, <5>7, <5>8, <5>9
      <4>3. QED
        BY <2>1, <2>2, <4>1, <4>2
    <3>4. QED
      BY <2>1, <3>2, <3>3
  <2>7. 100 * (w + 1) - c * (n + 1) >= 0
    BY <2>1, <2>2, <2>3
  <2>8. LET excess == 100 * (w + 1) - c * (n + 1)
        IN  625 * excess * excess >= 2401 * c * (100 - c) * (n + 1)
    BY <2>3, <2>4, <2>6
  <2>9. QED
    BY <2>7, <2>8 DEF WilsonReaches
<1>4. QED
  BY <1>1, <1>2, <1>3

-----------------------------------------------------------------------------
(* The Court: the verdicts of a policy.                                    *)

RulesTyped(rules) ==
    /\ {rules.items, rules.sample, rules.hitRate, rules.expectancy, rules.profitFactor,
        rules.drawdown, rules.confidence, rules.weight} \subseteq Int
    /\ {rules.challenge, rules.control} \subseteq BOOLEAN

LEMMA HistoryTyped ==
    ASSUME NEW s \in Histories
    PROVE  s \in Seq(Int) /\ s \in Seq(Outcomes) /\ Len(s) \in Nat /\ Len(s) >= 1
<1>1. PICK m \in 0..MaxTrades : s \in [1..m -> Outcomes]
  BY DEF Histories, SeqOf
<1>2. m \in Nat /\ Outcomes \subseteq Int
  BY CourtAssumption
<1>3. \A S : \A n \in Nat : \A f \in [1..n -> S] : f \in Seq(S)
  OBVIOUS
<1>4. s \in Seq(Outcomes)
  BY <1>1, <1>2, <1>3
<1>5. s \in [1..m -> Int]
  BY <1>1, <1>2
<1>6. s \in Seq(Int)
  BY <1>2, <1>3, <1>5
<1>7. Len(s) \in Nat /\ (Len(s) = 0 => s = <<>>)
  BY <1>4, EmptySeq, LenProperties
<1>8. QED
  BY <1>4, <1>6, <1>7 DEF Histories

LEMMA HitRateOfWin ==
    ASSUME NEW w \in Nat, NEW n \in Nat, w <= n, n >= 1, NEW h \in Int, 100 * w >= h * n
    PROVE  100 * (w + 1) >= h * (n + 1)
<1>1. h * (n + 1) = h * n + h /\ h * n \in Int
  OBVIOUS
<1>2. CASE h <= 100
  BY <1>1, <1>2
<1>3. CASE h > 100
  <2>1. h * n > 100 * n
    BY <1>3
  <2>2. FALSE
    BY <1>1, <2>1
  <2>3. QED
    BY <2>2
<1>4. QED
  BY <1>2, <1>3

LEMMA PassesUnfolded ==
    ASSUME NEW q, NEW rules
    PROVE  /\ Passes("evidence_count", q, rules) <=> Len(q.sources) >= rules.items
           /\ Passes("source_eligibility", q, rules)
                 <=> ~(ToSet(q.sources) \subseteq rules.barred)
           /\ Passes("counter_evidence", q, rules) <=> q.challenges > 0 \/ ~rules.challenge
           /\ Passes("risk_controls", q, rules) <=> q.controlled \/ ~rules.control
           /\ Passes("sample_size", q, rules) <=> Len(q.outcomes) >= rules.sample
           /\ Passes("hit_rate", q, rules)
                 <=> 100 * Cardinality(Wins(q.outcomes)) >= rules.hitRate * Len(q.outcomes)
           /\ Passes("expectancy", q, rules)
                 <=> Total(q.outcomes) >= rules.expectancy * Len(q.outcomes)
           /\ Passes("profit_factor", q, rules) <=> Profitable(q.outcomes, rules)
           /\ Passes("maximum_drawdown", q, rules)
                 <=> MaximumDrawdown(q.outcomes) <= rules.drawdown
           /\ Passes("confidence", q, rules)
                 <=> WilsonReaches(Cardinality(Wins(q.outcomes)), Len(q.outcomes),
                                   rules.confidence)
           /\ Passes("evidence_weight", q, rules) <=> EvidenceWeight(q) >= 12 * rules.weight
BY DEF Passes

Gates == PerformanceGates \cup EvidenceGates

(* One more win of at least the required expectancy fails no gate that was  *)
(* passed before it.                                                       *)
LEMMA WinKeepsGates ==
    ASSUME NEW q, NEW q2, NEW rules, RulesTyped(rules),
           q.outcomes \in Seq(Int), Len(q.outcomes) >= 1,
           q2.sources = q.sources, q2.challenges = q.challenges,
           q2.controlled = q.controlled,
           Cardinality(ToSet(q.sources)) \in Nat, q.challenges \in Nat,
           NEW r \in Int, r > 0, r >= rules.expectancy,
           q2.outcomes = Append(q.outcomes, r),
           NEW g \in Gates, Passes(g, q, rules)
    PROVE  Passes(g, q2, rules)
<1> DEFINE s == q.outcomes
           n == Len(s)
           w == Cardinality(Wins(s))
           t == Append(s, r)
<1>1. /\ n \in Nat /\ n >= 1 /\ Len(t) = n + 1
      /\ w \in Nat /\ w <= n /\ Cardinality(Wins(t)) = w + 1
      /\ Total(s) \in Int /\ Total(t) = Total(s) + r
  BY OneMoreTrade, OneMoreWin, WinsCounted, LenProperties
<1>2. /\ rules.sample \in Int /\ rules.hitRate \in Int /\ rules.expectancy \in Int
      /\ rules.profitFactor \in Int /\ rules.drawdown \in Int /\ rules.confidence \in Int
      /\ rules.weight \in Int
  BY DEF RulesTyped
<1> DEFINE P(gate) == Passes(gate, q, rules) => Passes(gate, q2, rules)
<1>3. P("evidence_count") /\ P("source_eligibility") /\ P("counter_evidence")
      /\ P("risk_controls")
  BY PassesUnfolded
<1>4. P("sample_size")
  <2>1. n >= rules.sample => Len(t) >= rules.sample
    BY <1>1, <1>2
  <2>2. QED
    BY PassesUnfolded, <2>1
<1>5. P("hit_rate")
  BY PassesUnfolded, <1>1, <1>2, HitRateOfWin
<1>6. P("expectancy")
  <2>1. rules.expectancy * (n + 1) = rules.expectancy * n + rules.expectancy
        /\ rules.expectancy * n \in Int
    <3>1. \A x \in Int, k \in Nat : x * (k + 1) = x * k + x /\ x * k \in Int
      OBVIOUS
    <3>2. QED
      BY <1>1, <1>2, <3>1
  <2>2. Total(s) >= rules.expectancy * n => Total(t) >= rules.expectancy * (n + 1)
    BY <1>1, <1>2, <2>1
  <2>3. QED
    BY PassesUnfolded, <1>1, <2>2
<1>7. P("profit_factor")
  <2>1. /\ GrossProfit(s) \in Int /\ GrossLoss(s) \in Int
        /\ GrossProfit(t) = GrossProfit(s) + r /\ GrossLoss(t) = GrossLoss(s)
    BY GrossOfAppend
  <2>2. rules.profitFactor * GrossLoss(s) \in Int
    BY <1>2, <2>1
  <2>3. Profitable(s, rules) => Profitable(t, rules)
    BY <2>1, <2>2 DEF Profitable
  <2>4. QED
    BY PassesUnfolded, <2>3
<1>8. P("maximum_drawdown")
  <2>0. r >= 0
    OBVIOUS
  <2>1. MaximumDrawdown(t) <= MaximumDrawdown(s)
    BY <2>0, OneMoreTrade
  <2>2. \A u \in Seq(Int) : MaximumDrawdown(u) \in Int
    BY DrawdownIsDeepestFall
  <2>3. MaximumDrawdown(t) \in Int /\ MaximumDrawdown(s) \in Int
    BY <2>2, OneMoreTrade
  <2>4. MaximumDrawdown(s) <= rules.drawdown => MaximumDrawdown(t) <= rules.drawdown
    BY <1>2, <2>1, <2>3
  <2>5. QED
    BY PassesUnfolded, <2>4
<1>9. P("confidence")
  BY PassesUnfolded, <1>1, <1>2, WilsonOfWin
<1>10. P("evidence_weight")
  <2>1. /\ EvidenceWeight(q) = 6 * Smaller(100, n) + 100 * Smaller(3, Cardinality(ToSet(q.sources)))
                               + 100 * Smaller(3, q.challenges)
        /\ EvidenceWeight(q2) = 6 * Smaller(100, n + 1) + 100 * Smaller(3, Cardinality(ToSet(q.sources)))
                               + 100 * Smaller(3, q.challenges)
    BY <1>1 DEF EvidenceWeight
  <2>2. Smaller(3, Cardinality(ToSet(q.sources))) \in Int /\ Smaller(3, q.challenges) \in Int
    BY DEF Smaller
  <2>3. Smaller(100, n) \in Int /\ Smaller(100, n + 1) \in Int
        /\ Smaller(100, n) <= Smaller(100, n + 1)
    BY <1>1 DEF Smaller
  <2>4. EvidenceWeight(q) >= 12 * rules.weight => EvidenceWeight(q2) >= 12 * rules.weight
    <3> DEFINE a == Smaller(3, Cardinality(ToSet(q.sources)))
               b == Smaller(3, q.challenges)
               x == Smaller(100, n)
               y == Smaller(100, n + 1)
    <3>1. a \in Int /\ b \in Int /\ x \in Int /\ y \in Int /\ x <= y
      BY <2>2, <2>3
    <3>2. EvidenceWeight(q) = 6 * x + 100 * a + 100 * b
          /\ EvidenceWeight(q2) = 6 * y + 100 * a + 100 * b
      BY <2>1
    <3> HIDE DEF a, b, x, y, P, s, n, w, t
    <3>3. QED
      BY <1>2, <3>1, <3>2
  <2>5. QED
    BY PassesUnfolded, <2>4
<1>11. QED
  BY <1>3, <1>4, <1>5, <1>6, <1>7, <1>8, <1>9, <1>10 DEF Gates, PerformanceGates, EvidenceGates

(* Nor does one more source, counter-evidence item or risk control; and the *)
(* performance gates do not look at these.                                  *)
LEMMA SupportKeepsGates ==
    ASSUME NEW q, NEW q2, NEW rules, RulesTyped(rules),
           q2.outcomes = q.outcomes, Len(q.outcomes) \in Nat,
           {Len(q.sources), Len(q2.sources)} \subseteq Nat, Len(q.sources) <= Len(q2.sources),
           ToSet(q.sources) \subseteq ToSet(q2.sources), IsFiniteSet(ToSet(q2.sources)),
           {q.challenges, q2.challenges} \subseteq Nat, q.challenges <= q2.challenges,
           q.controlled => q2.controlled
    PROVE  /\ \A g \in Gates : Passes(g, q, rules) => Passes(g, q2, rules)
           /\ \A g \in PerformanceGates : Passes(g, q, rules) <=> Passes(g, q2, rules)
<1> DEFINE P(gate) == Passes(gate, q, rules) => Passes(gate, q2, rules)
<1>1. rules.items \in Int /\ rules.weight \in Int
  BY DEF RulesTyped
<1>2. \A g \in PerformanceGates \cup {"sample_size", "confidence"} :
          Passes(g, q, rules) <=> Passes(g, q2, rules)
  BY PassesUnfolded DEF PerformanceGates
<1>3. P("evidence_count")
  <2>1. Len(q.sources) >= rules.items => Len(q2.sources) >= rules.items
    BY <1>1
  <2>2. QED
    BY PassesUnfolded, <2>1
<1>4. P("source_eligibility") /\ P("risk_controls")
  BY PassesUnfolded
<1>5. P("counter_evidence")
  <2>1. q.challenges > 0 => q2.challenges > 0
    OBVIOUS
  <2>2. QED
    BY PassesUnfolded, <2>1
<1>6. P("evidence_weight")
  <2> DEFINE a == Cardinality(ToSet(q.sources))
             b == Cardinality(ToSet(q2.sources))
             n == Smaller(100, Len(q.outcomes))
  <2>1. a \in Nat /\ b \in Nat /\ a <= b
    BY FS_Subset, FS_CardinalityType
  <2>2. n \in Int
    BY DEF Smaller
  <2>3. /\ EvidenceWeight(q) = 6 * n + 100 * Smaller(3, a) + 100 * Smaller(3, q.challenges)
        /\ EvidenceWeight(q2) = 6 * n + 100 * Smaller(3, b) + 100 * Smaller(3, q2.challenges)
    BY DEF EvidenceWeight
  <2> HIDE DEF a, b, n
  <2>4. /\ {Smaller(3, a), Smaller(3, b), Smaller(3, q.challenges), Smaller(3, q2.challenges)}
               \subseteq Int
        /\ Smaller(3, a) <= Smaller(3, b)
        /\ Smaller(3, q.challenges) <= Smaller(3, q2.challenges)
    BY <2>1 DEF Smaller
  <2>5. EvidenceWeight(q) >= 12 * rules.weight => EvidenceWeight(q2) >= 12 * rules.weight
    BY <1>1, <2>2, <2>3, <2>4
  <2>6. QED
    BY PassesUnfolded, <2>5
<1>7. QED
  BY <1>2, <1>3, <1>4, <1>5, <1>6 DEF Gates, PerformanceGates, EvidenceGates

(* Fewer failed gates, no lower verdict; and REJECT is for those of         *)
(* performance alone.                                                      *)
LEMMA RankFollowsGates ==
    ASSUME NEW q, NEW q2, NEW rules,
           \A g \in Gates : Passes(g, q, rules) => Passes(g, q2, rules)
    PROVE  /\ Rank[Verdict(q, rules)] <= Rank[Verdict(q2, rules)]
           /\ (\A g \in PerformanceGates : Passes(g, q, rules) <=> Passes(g, q2, rules))
                 => (Rank[Verdict(q, rules)] = 0 => Rank[Verdict(q2, rules)] = 0)
<1>1. Failed(q2, rules) \subseteq Failed(q, rules)
  BY DEF Failed, Gates
<1>2. /\ Rank["REJECT"] = 0 /\ Rank["HOLD"] = 1 /\ Rank["PROMOTE"] = 2
  BY DEF Rank
<1>3. \A p : Verdict(p, rules) = IF Failed(p, rules) \cap PerformanceGates # {} THEN "REJECT"
                                 ELSE IF Failed(p, rules) # {} THEN "HOLD" ELSE "PROMOTE"
  BY DEF Verdict
<1>4. Rank[Verdict(q, rules)] <= Rank[Verdict(q2, rules)]
  <2>1. CASE Failed(q, rules) \cap PerformanceGates # {}
    BY <2>1, <1>2, <1>3
  <2>2. CASE Failed(q, rules) \cap PerformanceGates = {} /\ Failed(q, rules) # {}
    <3>1. Failed(q2, rules) \cap PerformanceGates = {}
      BY <2>2, <1>1
    <3>2. QED
      BY <2>2, <3>1, <1>2, <1>3
  <2>3. CASE Failed(q, rules) = {}
    <3>1. Failed(q2, rules) = {}
      BY <2>3, <1>1
    <3>2. QED
      BY <2>3, <3>1, <1>2, <1>3
  <2>4. QED
    BY <2>1, <2>2, <2>3
<1>5. ASSUME \A g \in PerformanceGates : Passes(g, q, rules) <=> Passes(g, q2, rules),
             Rank[Verdict(q, rules)] = 0
      PROVE  Rank[Verdict(q2, rules)] = 0
  <2>1. Failed(q, rules) \cap PerformanceGates = Failed(q2, rules) \cap PerformanceGates
    BY <1>5 DEF Failed
  <2>2. Failed(q, rules) \cap PerformanceGates # {}
    BY <1>2, <1>3, <1>5
  <2>3. QED
    BY <1>2, <1>3, <2>1, <2>2
<1>6. QED
  BY <1>4, <1>5

LEMMA PolicyTyped ==
    ASSUME policy \in Policies
    PROVE  RulesTyped(Rules[policy])
BY CourtAssumption DEF RulesTyped

LEMMA PacketTyped ==
    ASSUME NEW q \in Packets
    PROVE  /\ q.outcomes \in Histories /\ q.challenges \in Nat /\ q.controlled \in BOOLEAN
           /\ q.sources \in Seq({"s1", "s2", "s3"})
<1>1. /\ q.outcomes \in Histories /\ q.challenges \in 0..1 /\ q.controlled \in BOOLEAN
      /\ q.sources \in {<<"s1">>, <<"s1", "s2">>, <<"s2", "s2", "s3">>}
  BY DEF Packets
<1>2. {<<"s1">>, <<"s1", "s2">>, <<"s2", "s2", "s3">>} \subseteq Seq({"s1", "s2", "s3"})
  OBVIOUS
<1>3. \A k \in 0..1 : k \in Nat
  OBVIOUS
<1>4. QED
  BY <1>1, <1>2, <1>3

LEMMA SourcesTyped ==
    ASSUME NEW src \in Seq({"s1", "s2", "s3"})
    PROVE  /\ Len(src) \in Nat /\ IsFiniteSet(ToSet(src)) /\ Cardinality(ToSet(src)) \in Nat
           /\ Append(src, "s3") \in Seq({"s1", "s2", "s3"})
           /\ Len(Append(src, "s3")) = Len(src) + 1
           /\ ToSet(src) \subseteq ToSet(Append(src, "s3"))
<1>1. /\ Len(src) \in Nat /\ Append(src, "s3") \in Seq({"s1", "s2", "s3"})
      /\ Len(Append(src, "s3")) = Len(src) + 1
      /\ \A k \in 1..Len(src) : Append(src, "s3")[k] = src[k]
  BY AppendProperties, LenProperties
<1>2. DOMAIN src = 1..Len(src) /\ DOMAIN Append(src, "s3") = 1..(Len(src) + 1)
  BY <1>1, LenProperties
<1>3. ToSet(src) \subseteq {"s1", "s2", "s3"}
  BY <1>2, ElementOfSeq DEF ToSet
<1>4. IsFiniteSet({"s1", "s2", "s3"})
  <2>1. IsFiniteSet({"s1"})
    BY FS_Singleton
  <2>2. IsFiniteSet({"s1"} \cup {"s2"})
    BY <2>1, FS_AddElement
  <2>3. IsFiniteSet(({"s1"} \cup {"s2"}) \cup {"s3"})
    BY <2>2, FS_AddElement
  <2>4. {"s1", "s2", "s3"} = ({"s1"} \cup {"s2"}) \cup {"s3"}
    OBVIOUS
  <2>5. QED
    BY <2>3, <2>4
<1>5. IsFiniteSet(ToSet(src)) /\ Cardinality(ToSet(src)) \in Nat
  BY <1>3, <1>4, FS_Subset, FS_CardinalityType
<1>6. ToSet(src) \subseteq ToSet(Append(src, "s3"))
  <2>1. ASSUME NEW k \in DOMAIN src
        PROVE  k \in DOMAIN Append(src, "s3") /\ Append(src, "s3")[k] = src[k]
    BY <1>1, <1>2
  <2>2. QED
    BY <2>1 DEF ToSet
<1>7. QED
  BY <1>1, <1>5, <1>6

LEMMA VerdictsOfAPolicy ==
    ASSUME policy \in Policies
    PROVE  VerdictIsMonotone
<1> DEFINE rules == Rules[policy]
           Ranked(p) == Rank[Verdict(p, rules)]
<1>1. RulesTyped(rules)
  BY PolicyTyped
<1> HIDE DEF rules
<1>2. ASSUME NEW q \in Packets,
             NEW q2 \in {[q EXCEPT !.sources = Append(@, "s3")],
                         [q EXCEPT !.challenges = @ + 1],
                         [q EXCEPT !.controlled = TRUE]}
      PROVE  Ranked(q) <= Ranked(q2) /\ (Ranked(q) = 0 => Ranked(q2) = 0)
  <2>1. /\ q.outcomes \in Histories /\ q.challenges \in Nat /\ q.controlled \in BOOLEAN
        /\ q.sources \in Seq({"s1", "s2", "s3"})
    BY PacketTyped
  <2>2. /\ Len(q.outcomes) \in Nat
    BY <2>1, HistoryTyped
  <2>3. /\ q2.outcomes = q.outcomes
        /\ \/ /\ q2.sources = Append(q.sources, "s3") /\ q2.challenges = q.challenges
              /\ q2.controlled = q.controlled
           \/ /\ q2.sources = q.sources /\ q2.challenges = q.challenges + 1
              /\ q2.controlled = q.controlled
           \/ /\ q2.sources = q.sources /\ q2.challenges = q.challenges
              /\ q2.controlled = TRUE
    BY DEF Packets
  <2>4. /\ {Len(q.sources), Len(q2.sources)} \subseteq Nat /\ Len(q.sources) <= Len(q2.sources)
        /\ ToSet(q.sources) \subseteq ToSet(q2.sources) /\ IsFiniteSet(ToSet(q2.sources))
    <3>1. CASE q2.sources = q.sources
      BY <2>1, <3>1, SourcesTyped
    <3>2. CASE q2.sources = Append(q.sources, "s3")
      <4>1. /\ Len(q.sources) \in Nat /\ Len(q2.sources) = Len(q.sources) + 1
            /\ ToSet(q.sources) \subseteq ToSet(q2.sources)
            /\ q2.sources \in Seq({"s1", "s2", "s3"})
        BY <2>1, <3>2, SourcesTyped
      <4>2. IsFiniteSet(ToSet(q2.sources))
        BY <4>1, SourcesTyped
      <4>3. QED
        BY <4>1, <4>2
    <3>3. QED
      BY <2>3, <3>1, <3>2
  <2>5. /\ {q.challenges, q2.challenges} \subseteq Nat /\ q.challenges <= q2.challenges
        /\ q.controlled => q2.controlled
    BY <2>1, <2>3
  <2>6. /\ \A g \in Gates : Passes(g, q, rules) => Passes(g, q2, rules)
        /\ \A g \in PerformanceGates : Passes(g, q, rules) <=> Passes(g, q2, rules)
    BY <1>1, <2>2, <2>3, <2>4, <2>5, SupportKeepsGates
  <2>7. QED
    BY <2>6, RankFollowsGates
<1>3. ASSUME NEW q \in Packets,
             NEW r \in Outcomes, r > 0, r >= rules.expectancy
      PROVE  Ranked(q) <= Ranked([q EXCEPT !.outcomes = Append(@, r)])
  <2> DEFINE q2 == [q EXCEPT !.outcomes = Append(@, r)]
  <2>1. /\ q.outcomes \in Histories /\ q.challenges \in Nat
        /\ q.sources \in Seq({"s1", "s2", "s3"})
    BY PacketTyped
  <2>2. /\ q.outcomes \in Seq(Int) /\ Len(q.outcomes) >= 1 /\ r \in Int
        /\ Cardinality(ToSet(q.sources)) \in Nat
    BY <2>1, HistoryTyped, SourcesTyped, CourtAssumption
  <2>3. /\ q2.outcomes = Append(q.outcomes, r) /\ q2.sources = q.sources
        /\ q2.challenges = q.challenges /\ q2.controlled = q.controlled
    BY DEF Packets
  <2> HIDE DEF q2
  <2>4. \A g \in Gates : Passes(g, q, rules) => Passes(g, q2, rules)
    BY <1>1, <1>3, <2>1, <2>2, <2>3, WinKeepsGates
  <2>5. Rank[Verdict(q, rules)] <= Rank[Verdict(q2, rules)]
    BY <2>4, RankFollowsGates
  <2>6. QED
    BY <2>5 DEF q2
<1>4. QED
  BY <1>2, <1>3 DEF VerdictIsMonotone, rules

LEMMA DrawdownsOfAPolicy ==
    ASSUME policy \in Policies
    PROVE  DrawdownIsWorstFall
<1>1. Rules[policy].drawdown \in Int
  BY CourtAssumption
<1>2. ASSUME NEW s \in Histories
      PROVE  /\ MaximumDrawdown(s) = Max(Falls(s))
             /\ Passes("maximum_drawdown", [outcomes |-> s], Rules[policy])
                   <=> \A f \in Falls(s) : f <= Rules[policy].drawdown
  <2>1. s \in Seq(Int)
    BY HistoryTyped
  <2>2. /\ MaximumDrawdown(s) \in Falls(s)
        /\ \A f \in Falls(s) : f \in Int /\ f <= MaximumDrawdown(s)
        /\ MaximumDrawdown(s) = Max(Falls(s))
    BY <2>1, DrawdownIsDeepestFall
  <2>3. Passes("maximum_drawdown", [outcomes |-> s], Rules[policy])
           <=> MaximumDrawdown(s) <= Rules[policy].drawdown
    BY DEF Passes
  <2> DEFINE m == MaximumDrawdown(s)
             d == Rules[policy].drawdown
  <2>4. m \in Falls(s) /\ (\A f \in Falls(s) : f \in Int /\ f <= m) /\ d \in Int
    BY <1>1, <2>2
  <2> HIDE DEF m, d
  <2>5. m <= d <=> \A f \in Falls(s) : f <= d
    BY <2>4
  <2>6. QED
    BY <2>2, <2>3, <2>5 DEF m, d
<1>3. QED
  BY <1>2 DEF DrawdownIsWorstFall

(* DrawdownIsWorstFall: for every policy and every packet, of any length    *)
(* and any whole outcomes, the drawdown that the gate compares is the       *)
(* deepest fall of the equity curve.                                       *)
THEOREM DrawdownsMeasured == Spec => []DrawdownIsWorstFall
<1>1. TypeOK => DrawdownIsWorstFall
  BY DrawdownsOfAPolicy DEF TypeOK
<1>2. QED
  BY <1>1, CycleTypes, PTL

(* VerdictIsMonotone: for every policy and every packet, more in favour     *)
(* never lowers the verdict, and more evidence never excuses performance.   *)
THEOREM VerdictsMonotone == Spec => []VerdictIsMonotone
<1>1. TypeOK => VerdictIsMonotone
  BY VerdictsOfAPolicy DEF TypeOK
<1>2. QED
  BY <1>1, CycleTypes, PTL
=============================================================================
