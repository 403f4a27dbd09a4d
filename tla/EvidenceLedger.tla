--------------------------- MODULE EvidenceLedger ---------------------------
(***************************************************************************)
(* The hash-chained audit ledger of src/athena/evidence.py, appended to by  *)
(* several `athena` commands at once.  Every command opens the same file    *)
(* (runtime/ledger.jsonl by default) and EvidenceLedger.append takes no     *)
(* lock: it validates the file, reads it a second time to compute the next  *)
(* sequence number and previous hash, and then appends one line.  Each of   *)
(* the three file accesses is an action here, so appends interleave at      *)
(* every point where the operating system may schedule another command.     *)
(*                                                                         *)
(* A line is the record of the fields that validate() looks at.  SHA-256    *)
(* is an injective constructor: Digest(b) = Digest(c) only if b = c.        *)
(* recorded_at, event_type and payload are folded into `actor`, the        *)
(* command that wrote the line.                                            *)
(***************************************************************************)
EXTENDS Naturals, Sequences

CONSTANTS Writers,     \* commands that share the ledger file
          MaxEntries   \* bound: appends stop at this many lines

ASSUME BoundAssumption == MaxEntries \in Nat

VARIABLES file,        \* the lines of the ledger, oldest first
          pc,          \* where each command is inside append()
          basis,       \* the sequence and previous hash it read and will write
          overlapped   \* history: some line landed during another append

vars == <<file, pc, basis, overlapped>>

GENESIS_HASH == <<"GENESIS">>

Digest(body) == <<"sha256", body>>

Body(n, previous, w) == [sequence |-> n, previous_hash |-> previous, actor |-> w]

(* Fault: every line is linked to the start of the chain. *)
LastHashUnread == GENESIS_HASH

LastHash == IF file = <<>> THEN GENESIS_HASH ELSE file[Len(file)].hash

(* Fault: sequence numbers counted from zero. *)
NextSequenceFromZero == Len(file)

NextSequence == Len(file) + 1

CurrentBasis == [sequence |-> NextSequence, previous_hash |-> LastHash]

NoBasis == [sequence |-> 0, previous_hash |-> GENESIS_HASH]

(* validate() accepts line n: its sequence number, its link and its hash. *)
LineValid(n) ==
    /\ file[n].body.sequence = n
    /\ file[n].body.previous_hash = IF n = 1 THEN GENESIS_HASH ELSE file[n-1].hash
    /\ file[n].hash = Digest(file[n].body)

Valid == \A n \in DOMAIN file : LineValid(n)

(* Fault: append() without its call of validate(). *)
AppendsUnchecked == TRUE

AppendAllowed == Valid

(* Fault: the file opened for writing instead of appending. *)
Overwritten(line) == <<line>>

Appended(line) == Append(file, line)

InAppend(w) == pc[w] # "idle"

Entries == {file[n] : n \in DOMAIN file}

TypeOK ==
    /\ file \in Seq(Entries)
    /\ \A e \in Entries : e.body.actor \in Writers
    /\ pc \in [Writers -> {"idle", "validated", "read"}]
    /\ DOMAIN basis = Writers
    /\ \A w \in Writers : basis[w].sequence \in IF pc[w] = "read" THEN Nat \ {0} ELSE {0}
    /\ overlapped \in BOOLEAN

Init ==
    /\ file = <<>>
    /\ pc = [w \in Writers |-> "idle"]
    /\ basis = [w \in Writers |-> NoBasis]
    /\ overlapped = FALSE

(* append(): self.validate() passes.  When it raises LedgerIntegrityError  *)
(* the append has no effect, so there is no step to take.                  *)
Validate(w) ==
    /\ pc[w] = "idle"
    /\ Len(file) < MaxEntries
    /\ AppendAllowed
    /\ pc' = [pc EXCEPT ![w] = "validated"]
    /\ UNCHANGED <<file, basis, overlapped>>

(* append(): the second read, which fixes sequence and previous_hash. *)
Read(w) ==
    /\ pc[w] = "validated"
    /\ basis' = [basis EXCEPT ![w] = CurrentBasis]
    /\ pc' = [pc EXCEPT ![w] = "read"]
    /\ UNCHANGED <<file, overlapped>>

(* append(): one line is written at the end of the file, whatever the file *)
(* holds by now.                                                           *)
Write(w) ==
    /\ pc[w] = "read"
    /\ LET body == Body(basis[w].sequence, basis[w].previous_hash, w)
       IN  file' = Appended([body |-> body, hash |-> Digest(body)])
    /\ pc' = [pc EXCEPT ![w] = "idle"]
    /\ basis' = [basis EXCEPT ![w] = NoBasis]
    /\ overlapped' = (overlapped \/ \E v \in Writers \ {w} : InAppend(v))

(* The command dies, or an exception leaves append(), before the write. *)
Crash(w) ==
    /\ InAppend(w)
    /\ pc' = [pc EXCEPT ![w] = "idle"]
    /\ basis' = [basis EXCEPT ![w] = NoBasis]
    /\ UNCHANGED <<file, overlapped>>

Next == \E w \in Writers : Validate(w) \/ Read(w) \/ Write(w) \/ Crash(w)

Spec == Init /\ [][Next]_vars

-----------------------------------------------------------------------------
(* Appends that never overlap keep the chain valid, through any number of  *)
(* crashed commands: the ledger breaks only when a line lands between      *)
(* another command's validate() and its write (evidence.py 55-68).         *)
SerialAppendsKeepChain == ~overlapped => Valid

(* Once validate() rejects the file it rejects it for ever: append() only  *)
(* adds lines, so no later command can mend a break or hide it.            *)
BreakIsPermanent == [][~Valid => ~Valid']_vars

(* A break is noticed before the ledger grows on top of it: append()       *)
(* validates first, so only commands that were already inside it when the  *)
(* chain broke add a line past the longest valid prefix, and each at most  *)
(* one.                                                                    *)
ValidPrefix == {n \in 0..Len(file) : \A i \in 1..n : LineValid(i)}

SoleAuthors(n) == \A i, j \in n+1..Len(file) :
    i # j => file[i].body.actor # file[j].body.actor

BreakIsContained == \E n \in ValidPrefix : SoleAuthors(n)

-----------------------------------------------------------------------------
(* What makes the two invariants inductive.                                *)

(* Until two appends overlap, whoever is about to write has read the end   *)
(* of the file as it still is.                                             *)
BasisCurrent == ~overlapped =>
    \A w \in Writers : pc[w] = "read" => basis[w] = CurrentBasis

(* A command with a line past the valid prefix has left append(), and      *)
(* validate() keeps it from coming back.                                   *)
LateAuthorsIdle(n) == \A i \in n+1..Len(file) : ~InAppend(file[i].body.actor)

LateLinesContained == \E n \in ValidPrefix : SoleAuthors(n) /\ LateAuthorsIdle(n)

=============================================================================
