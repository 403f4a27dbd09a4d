---------------------------- MODULE ResearchCycle ----------------------------
(***************************************************************************)
(* `athena run`: run_cycle of src/athena/orchestrator.py.  A cycle          *)
(* registers the Dataset, Strategy and Experiment records of a request,    *)
(* submits the packet, lets the Decision Court apply the policy, logs the  *)
(* verdict, registers it as a ValidationResult and publishes status.json.  *)
(* The scheduled workflow runs one cycle at a time, but nothing in the code *)
(* keeps two `athena run` apart, a cycle may die anywhere, and the policy   *)
(* file may be edited while a cycle runs (it is read twice).               *)
(*                                                                         *)
(* A request is its strategy specification, its outcomes and its edition   *)
(* (the bytes of the file), and stands for the packet that module Court    *)
(* judges; requests that fail load_request or packet.validate end before   *)
(* any effect and are left out.  A record is its identity with the request it  *)
(* came from, which is all that its record_sha256 covers besides.  An      *)
(* append to the ledger is one step: module EvidenceLedger takes it apart. *)
(***************************************************************************)
EXTENDS Court

CONSTANTS Procs,      \* `athena run` processes
          Requests,   \* request files: [strategy, outcomes, edition]
          Policies,   \* contents that the policy file may have
          Packet,     \* the packet of each request, as Court has it
          Rules,      \* the thresholds of each policy
          MaxCycles,  \* bound: cycles that begin
          MaxMishaps  \* bound: cycles that die and edits of the policy file

ASSUME CycleAssumption ==
    /\ Requests # {} /\ Policies # {}
    /\ DOMAIN Packet = Requests /\ DOMAIN Rules = Policies
    /\ {MaxCycles, MaxMishaps} \subseteq Nat

VARIABLES pc, job,     \* per process: its place in run_cycle and local state
          policy,      \* decision_policy.json
          register,    \* evidence-register.jsonl
          ledger,      \* ledger.jsonl
          temporary,   \* status.json.tmp
          status,      \* status.json
          cycles,      \* history: cycles that began; also their clock readings
          mishaps,     \* history: cycles that died and edits of the policy
          overlapped   \* history: two cycles were at work at once

files == <<register, ledger, temporary, status>>
counts == <<cycles, mishaps, overlapped>>
vars  == <<pc, job, policy, files, counts>>

Labels == {"idle", "check", "write", "link", "submit", "verdict", "draft", "publish"}

-----------------------------------------------------------------------------
(* Records, events and status.                                             *)

Record(kind, key, r) == [kind |-> kind, key |-> key, request |-> r]
Id(x) == <<x.kind, x.key>>

Dataset(r)  == Record("dataset", <<r.strategy, r.outcomes>>, r)
Strategy(r) == Record("strategy", <<r.strategy>>, r)
Experiment(r, pol) == Record("experiment", <<r.strategy, r.outcomes, pol>>, r)

Inputs(r, pol) == <<Dataset(r), Strategy(r), Experiment(r, pol)>>

(* Its identity holds the digest of the decision, which has its own time. *)
Validation(r, pol, cycle) ==
    Record("validation_result", <<r.strategy, r.outcomes, pol, cycle>>, r)

RelatedTo(x) ==
    CASE x.kind \in {"dataset", "strategy"} -> {}
      [] x.kind = "experiment" -> {Id(Dataset(x.request)), Id(Strategy(x.request))}
      [] x.kind = "validation_result" ->
             {Id(Inputs(x.request, x.key[3])[i]) : i \in 1..3}

RegisteredEvent(x) == [type |-> "evidence_record_registered", about |-> x]
SubmittedEvent(inputs, cycle) ==
    [type |-> "research_packet_submitted", about |-> inputs, cycle |-> cycle]
VerdictEvent(inputs, cycle, pol) ==
    [type |-> "decision_court_verdict", about |-> inputs, cycle |-> cycle,
     policy |-> pol, verdict |-> Verdict(Packet[inputs[1].request], Rules[pol])]

NoStatus == [cycle |-> 0, verdict |-> 0]

Log(event) == ledger' = Append(ledger, event)
Positions(event) == {j \in DOMAIN ledger : ledger[j] = event}
OneEvent(event) == \E j \in DOMAIN ledger : Positions(event) = {j}

Ids == {Id(register[n]) : n \in DOMAIN register}
UniqueIds == \A a, b \in DOMAIN register : Id(register[a]) = Id(register[b]) => a = b

(* EvidenceRegister.validate(ledger) *)
RegisterValid ==
    /\ UniqueIds
    /\ \A n \in DOMAIN register : /\ RelatedTo(register[n]) \subseteq Ids
                                  /\ OneEvent(RegisteredEvent(register[n]))
    /\ \A j \in DOMAIN ledger : ledger[j].type = "evidence_record_registered" =>
           \E n \in DOMAIN register : register[n] = ledger[j].about

-----------------------------------------------------------------------------
(* A cycle.                                                                *)

NoJob == [request |-> CHOOSE r \in Requests : TRUE, cycle |-> 0,
          bound |-> CHOOSE pol \in Policies : TRUE, next |-> 1, verdict |-> 0]

At(p, label)   == pc[p] = label
Goto(p, label) == pc' = [pc EXCEPT ![p] = label]
Leave(p)       == Goto(p, "idle") /\ job' = [job EXCEPT ![p] = NoJob]

InputsSwapped(p) == LET i == Inputs(job[p].request, job[p].bound)     \* fault
                    IN <<i[2], i[1], i[3]>>
InputsOf(p) == Inputs(job[p].request, job[p].bound)

(* The records in the order of their registration. *)
Records(p) == Append(InputsOf(p),
                     Validation(job[p].request, job[p].bound, job[p].cycle))
Current(p) == Records(p)[job[p].next]

Init ==
    /\ pc = [p \in Procs |-> "idle"] /\ job = [p \in Procs |-> NoJob]
    /\ policy \in Policies
    /\ register = <<>> /\ ledger = <<>> /\ temporary = NoStatus /\ status = NoStatus
    /\ cycles = 0 /\ mishaps = 0 /\ overlapped = FALSE

(* _register_cycle_inputs reads the policy and binds the Experiment to it; *)
(* nothing is written before that.                                         *)
Begin(p, r) ==
    /\ At(p, "idle") /\ cycles < MaxCycles
    /\ cycles' = cycles + 1
    /\ job' = [job EXCEPT ![p] = [NoJob EXCEPT !.request = r, !.cycle = cycles + 1,
                                             !.bound = policy]]
    /\ overlapped' = (overlapped \/ \E q \in Procs : pc[q] # "idle")
    /\ Goto(p, "check")
    /\ UNCHANGED <<policy, files, mishaps>>

(* EvidenceRegister.append raises for a record whose relations are missing *)
(* or whose identity is registered in another version; one that is         *)
(* registered already, by an earlier cycle of the request, is not written. *)
Matches(x) == {n \in DOMAIN register : Id(register[n]) = Id(x)}

RefusedUnrelated(x) == ~(RelatedTo(x) \subseteq Ids)                  \* fault
Refused(x) ==
    \/ ~(RelatedTo(x) \subseteq Ids)
    \/ \E n \in Matches(x) : (\A k \in Matches(x) : n <= k) /\ register[n] # x

AlwaysNew(x) == TRUE                                                  \* fault
IsNew(x) == Matches(x) = {}

Check(p) ==
    /\ At(p, "check")
    /\ IF Refused(Current(p)) THEN Leave(p)
       ELSE Goto(p, IF IsNew(Current(p)) THEN "write" ELSE "link") /\ UNCHANGED job
    /\ UNCHANGED <<policy, files, counts>>

Write(p) ==
    /\ At(p, "write")
    /\ register' = Append(register, Current(p))
    /\ Goto(p, "link")
    /\ UNCHANGED <<job, policy, ledger, temporary, status, counts>>

(* The record's event unless the ledger has it, which also mends what a    *)
(* cycle that died here left behind; then the next record or step.         *)
Linked(x) == Positions(RegisteredEvent(x)) # {}

Link(p) ==
    /\ At(p, "link")
    /\ IF Linked(Current(p)) THEN UNCHANGED ledger ELSE Log(RegisteredEvent(Current(p)))
    /\ IF job[p].next < 3
       THEN Goto(p, "check") /\ job' = [job EXCEPT ![p].next = @ + 1]
       ELSE Goto(p, IF job[p].next = 3 THEN "submit" ELSE "draft") /\ UNCHANGED job
    /\ UNCHANGED <<policy, register, temporary, status, counts>>

Submit(p) ==
    /\ At(p, "submit")
    /\ Log(SubmittedEvent(InputsOf(p), job[p].cycle))
    /\ Goto(p, "verdict")
    /\ UNCHANGED <<job, policy, register, temporary, status, counts>>

(* DecisionPolicy.from_file reads the policy again, for the Court. *)
VerdictUnregistered(p) == "draft"                                     \* fault
AfterVerdict(p) == "check"

Deliver(p) ==
    /\ At(p, "verdict")
    /\ Log(VerdictEvent(InputsOf(p), job[p].cycle, policy))
    /\ job' = [job EXCEPT ![p].verdict = Len(ledger) + 1, ![p].next = 4]
    /\ Goto(p, AfterVerdict(p))
    /\ UNCHANGED <<policy, register, temporary, status, counts>>

(* register.validate(ledger): an exception ends the cycle with status.json *)
(* as it was.  Otherwise the status is written to a temporary file, whose  *)
(* name all cycles share, and renamed; the rename fails when another cycle *)
(* has renamed the file.                                                   *)
DraftOf(p) == [cycle |-> job[p].cycle, verdict |-> job[p].verdict]
LeftoverFirst(p) == IF temporary # NoStatus THEN temporary ELSE DraftOf(p)   \* fault
Drafted(p) == DraftOf(p)

Draft(p) ==
    /\ At(p, "draft")
    /\ IF RegisterValid
       THEN temporary' = Drafted(p) /\ Goto(p, "publish") /\ UNCHANGED job
       ELSE Leave(p) /\ UNCHANGED temporary
    /\ UNCHANGED <<policy, register, ledger, status, counts>>

Publish(p) ==
    /\ At(p, "publish")
    /\ status' = IF temporary = NoStatus THEN status ELSE temporary
    /\ temporary' = NoStatus
    /\ Leave(p)
    /\ UNCHANGED <<policy, register, ledger, counts>>

(* The process dies, or a failed file access raises. *)
Crash(p) ==
    /\ pc[p] # "idle" /\ mishaps < MaxMishaps
    /\ mishaps' = mishaps + 1
    /\ Leave(p)
    /\ UNCHANGED <<policy, files, cycles, overlapped>>

EditPolicy ==
    /\ mishaps < MaxMishaps
    /\ policy' \in Policies \ {policy}
    /\ mishaps' = mishaps + 1
    /\ UNCHANGED <<pc, job, files, cycles, overlapped>>

Next ==
    \/ \E p \in Procs :
          \/ \E r \in Requests : Begin(p, r)
          \/ Check(p) \/ Write(p) \/ Link(p) \/ Submit(p) \/ Deliver(p)
          \/ Draft(p) \/ Publish(p)
          \/ Crash(p)
    \/ EditPolicy

Spec == Init /\ [][Next]_vars

-----------------------------------------------------------------------------
(* Properties.                                                             *)

Cycles    == 0..MaxCycles
AllInputs == {Inputs(r, pol) : r \in Requests, pol \in Policies}
AllRecords ==
    {inputs[i] : inputs \in AllInputs, i \in 1..3} \cup
    {Validation(r, pol, t) : r \in Requests, pol \in Policies, t \in Cycles}
AllEvents ==
    {RegisteredEvent(x) : x \in AllRecords} \cup
    {SubmittedEvent(i, t) : i \in AllInputs, t \in Cycles} \cup
    [type : {"decision_court_verdict"}, about : AllInputs, cycle : Cycles,
     policy : Policies, verdict : {"REJECT", "HOLD", "PROMOTE"}]
Statuses == [cycle : Cycles, verdict : Nat]

TypeOK ==
    /\ pc \in [Procs -> Labels]
    /\ job \in [Procs -> [request : Requests, cycle : Cycles, bound : Policies,
                          next : 1..4, verdict : Nat]]
    /\ policy \in Policies
    /\ register \in Seq(AllRecords)
    /\ ledger \in Seq(AllEvents)
    /\ temporary \in Statuses /\ status \in Statuses
    /\ cycles \in Cycles /\ mishaps \in Nat /\ overlapped \in BOOLEAN

Verdicts == {j \in DOMAIN ledger : ledger[j].type = "decision_court_verdict"}

(* Evidence first: a verdict comes after the submission of its packet, and *)
(* that after the events of all three input records, with each record in   *)
(* the register in the version the verdict rests on - whichever cycle      *)
(* wrote it, and whatever died between a record and its event              *)
(* (orchestrator.py 147-193, records.py 516-543).                          *)
EvidenceFirst ==
    \A j \in Verdicts : LET v == ledger[j] IN
        \E k \in 1..(j - 1) :
            /\ ledger[k] = SubmittedEvent(v.about, v.cycle)
            /\ \A i \in 1..3 :
                  /\ \E n \in DOMAIN register : register[n] = v.about[i]
                  /\ \E l \in 1..(k - 1) : ledger[l] = RegisteredEvent(v.about[i])

(* What the dashboard shows is on record: the published verdict is on the  *)
(* ledger, and the ValidationResult of that cycle is in the register with  *)
(* one event after the verdict - also when cycles overlap and rename each  *)
(* other's temporary file (orchestrator.py 184-271).                       *)
StatusBacked ==
    \A s \in {status, temporary} \ {NoStatus} :
        /\ s.verdict \in Verdicts /\ ledger[s.verdict].cycle = s.cycle
        /\ \E n \in DOMAIN register :
              /\ register[n].kind = "validation_result" /\ register[n].key[4] = s.cycle
              /\ \E j \in s.verdict..Len(ledger) :
                    Positions(RegisteredEvent(register[n])) = {j}

(* "The same identity cannot be reused for different content"              *)
(* (docs/EVIDENCE_FOUNDATION.md), as long as cycles do not overlap: through *)
(* crashes, repeated requests and revised ones (records.py 504-524).       *)
SerialIdentities == ~overlapped => UniqueIds

(* As long as cycles do not overlap the published status only moves to a   *)
(* later cycle; a draft that a dead cycle left behind is never published   *)
(* (orchestrator.py 267-271).                                              *)
StatusMovesForward ==
    [][status' # status /\ ~overlapped => status'.cycle = cycles]_vars

(* "Policy/version mismatch | Refuse adjudication" (docs/GOVERNANCE.md):   *)
(* no verdict applies another policy than its Experiment is bound to.      *)
VerdictUnderBoundPolicy ==
    \A j \in Verdicts : ledger[j].about[3].key[3] = ledger[j].policy

-----------------------------------------------------------------------------
(* What the Court decides does not depend on the state but for the policy  *)
(* file: two properties of it, of every policy that the file may have and  *)
(* every packet within the bounds, looked at before the first cycle.       *)

CONSTANTS Outcomes,  \* the results a trade may have
          MaxTrades  \* bound: trades of a packet

ASSUME CourtAssumption ==
    /\ Outcomes \subseteq Int /\ MaxTrades \in Nat
    /\ \A pol \in Policies : LET rules == Rules[pol] IN
          /\ {rules.items, rules.sample, rules.hitRate, rules.expectancy, rules.profitFactor,
              rules.drawdown, rules.confidence, rules.weight} \subseteq Int
          /\ {rules.challenge, rules.control} \subseteq BOOLEAN

Histories == SeqOf(Outcomes, MaxTrades) \ {<<>>}
Packets ==
    [outcomes : Histories, sources : {<<"s1">>, <<"s1", "s2">>, <<"s2", "s2", "s3">>},
     challenges : 0..1, controlled : BOOLEAN]

(* The maximum drawdown is the deepest fall of the equity curve, from any  *)
(* point, its start included, to any later one - which the single pass of  *)
(* metrics.py 23-29 never compares - so that the gate passes exactly the   *)
(* packets no fall of which exceeds the policy's.                          *)
Falls(s) == {0} \cup {-Total(SubSeq(s, i, j)) : i, j \in DOMAIN s}
DrawdownIsWorstFall ==
    cycles = 0 => \A s \in Histories :
        /\ MaximumDrawdown(s) = Max(Falls(s))
        /\ Passes("maximum_drawdown", [outcomes |-> s], Rules[policy])
               <=> \A f \in Falls(s) : f <= Rules[policy].drawdown

(* More in favour never tells against a packet, and more evidence never    *)
(* excuses its performance: another source, counter-evidence item or risk  *)
(* controls cannot lower the verdict nor lift it out of REJECT, and one    *)
(* more win of at least the required expectancy cannot lower it, although  *)
(* hit rate, expectancy, profit factor, drawdown and the Wilson bound all  *)
(* move at once (court.py 48-112).                                         *)
Rank == [REJECT |-> 0, HOLD |-> 1, PROMOTE |-> 2]

VerdictIsMonotone ==
    cycles = 0 => \A packet \in Packets :
        LET Ranked(q) == Rank[Verdict(q, Rules[policy])]
            before == Ranked(packet)
            supported == {[packet EXCEPT !.sources = Append(@, "s3")],
                          [packet EXCEPT !.challenges = @ + 1],
                          [packet EXCEPT !.controlled = TRUE]}
            wins == {r \in Outcomes : r > 0 /\ r >= Rules[policy].expectancy}
        IN  /\ \A q \in supported :
                  before <= Ranked(q) /\ (before = 0 => Ranked(q) = 0)
            /\ \A r \in wins : before <= Ranked([packet EXCEPT !.outcomes = Append(@, r)])

=============================================================================
