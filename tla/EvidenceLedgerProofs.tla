------------------------ MODULE EvidenceLedgerProofs ------------------------
(***************************************************************************)
(* The properties of EvidenceLedger for any set of commands and any number *)
(* of lines.  The inductive invariant adds two facts to what is claimed:   *)
(* until appends overlap, a command about to write has read the end of the *)
(* file as it still is; and the author of a line past the valid prefix has *)
(* left append() for good.                                                 *)
(***************************************************************************)
EXTENDS EvidenceLedger, SequenceTheorems, TLAPS

Chain == TypeOK /\ SerialAppendsKeepChain /\ BasisCurrent /\ LateLinesContained

(* What one append does to a file that is a sequence: it is a sequence      *)
(* again, one line longer, with the earlier lines where they were          *)
(* (evidence.py 67-68, opened for appending).                              *)
LEMMA AppendedFile ==
    ASSUME file \in Seq(Entries), NEW line, file' = Appended(line)
    PROVE  /\ Len(file) \in Nat
           /\ DOMAIN file = 1..Len(file) /\ DOMAIN file' = 1..(Len(file) + 1)
           /\ Len(file') = Len(file) + 1
           /\ \A n \in 1..Len(file) : file'[n] = file[n]
           /\ file'[Len(file) + 1] = line
           /\ file' \in Seq(Entries')
           /\ Entries' = Entries \cup {line}
<1> DEFINE S == Entries \cup {line}
<1>1. file \in Seq(S)
  BY DEF Entries
<1>2. /\ file' \in Seq(S) /\ Len(file') = Len(file) + 1
      /\ \A n \in 1..Len(file) : file'[n] = file[n]
      /\ file'[Len(file) + 1] = line
  BY <1>1, AppendProperties, line \in S DEF Appended
<1>3. Len(file) \in Nat /\ DOMAIN file = 1..Len(file) /\ DOMAIN file' = 1..(Len(file) + 1)
  BY <1>1, <1>2, LenProperties
<1>4. Entries' = S
  BY <1>2, <1>3 DEF Entries
<1>5. QED
  BY <1>2, <1>3, <1>4

(* Earlier lines keep their validity when a line is appended.               *)
LEMMA EarlierLinesKeepValidity ==
    ASSUME file \in Seq(Entries), NEW line, file' = Appended(line)
    PROVE  \A n \in 1..Len(file) : LineValid(n)' <=> LineValid(n)
<1> SUFFICES ASSUME NEW n \in 1..Len(file) PROVE LineValid(n)' <=> LineValid(n)
  OBVIOUS
<1>1. file'[n] = file[n] /\ (n # 1 => file'[n-1] = file[n-1])
  <2>1. n # 1 => n - 1 \in 1..Len(file)
    BY AppendedFile
  <2>2. QED
    BY <2>1, AppendedFile
<1>2. QED
  BY <1>1 DEF LineValid

LEMMA InitChain == Init => Chain
<1> SUFFICES ASSUME Init PROVE Chain
  OBVIOUS
<1>1. file = <<>> /\ Len(file) = 0 /\ DOMAIN file = {} /\ Entries = {}
  BY EmptySeq DEF Init, Entries
<1>2. TypeOK
  <2>1. file \in Seq(Entries) /\ \A e \in Entries : e.body.actor \in Writers
    BY <1>1
  <2>2. DOMAIN basis = Writers /\ \A w \in Writers : basis[w].sequence = 0
    BY DEF Init, NoBasis
  <2>3. QED
    BY <2>1, <2>2 DEF Init, TypeOK
<1>3. SerialAppendsKeepChain
  BY <1>1 DEF SerialAppendsKeepChain, Valid
<1>4. BasisCurrent
  BY DEF Init, BasisCurrent
<1>5. LateLinesContained
  <2>1. 0 \in ValidPrefix
    BY <1>1 DEF ValidPrefix
  <2>2. SoleAuthors(0) /\ LateAuthorsIdle(0)
    BY <1>1 DEF SoleAuthors, LateAuthorsIdle
  <2>3. QED
    BY <2>1, <2>2 DEF LateLinesContained
<1>6. QED
  BY <1>2, <1>3, <1>4, <1>5 DEF Chain
(***************************************************************************)
(* Every step preserves the invariant.                                     *)
(***************************************************************************)

LEMMA TypeStep == TypeOK /\ [Next]_vars => TypeOK'
<1> SUFFICES ASSUME TypeOK, [Next]_vars PROVE TypeOK'
  OBVIOUS
<1> USE DEF TypeOK
<1>0. Len(file) \in Nat
  BY LenProperties
<1>1. ASSUME NEW w \in Writers, Validate(w) PROVE TypeOK'
  BY <1>1 DEF Validate, Entries
<1>2. ASSUME NEW w \in Writers, Read(w) PROVE TypeOK'
  <2>1. CurrentBasis.sequence \in Nat \ {0}
    BY <1>0 DEF CurrentBasis, NextSequence
  <2>2. QED
    BY <1>2, <2>1 DEF Read, Entries
<1>3. ASSUME NEW w \in Writers, Write(w) PROVE TypeOK'
  <2> DEFINE body == Body(basis[w].sequence, basis[w].previous_hash, w)
             line == [body |-> body, hash |-> Digest(body)]
  <2>1. file' = Appended(line)
    BY <1>3 DEF Write
  <2>2. file' \in Seq(Entries') /\ Entries' = Entries \cup {line}
    BY <2>1, AppendedFile
  <2>3. line.body.actor = w
    BY DEF Body
  <2> HIDE DEF line
  <2>4. \A e \in Entries' : e.body.actor \in Writers
    BY <2>2, <2>3
  <2>5. NoBasis.sequence = 0
    BY DEF NoBasis
  <2>6. /\ pc' \in [Writers -> {"idle", "validated", "read"}]
        /\ DOMAIN basis' = Writers /\ overlapped' \in BOOLEAN
        /\ \A v \in Writers : basis'[v].sequence \in IF pc'[v] = "read" THEN Nat \ {0} ELSE {0}
    BY <1>3, <2>5 DEF Write
  <2>7. QED
    BY <2>2, <2>4, <2>6
<1>4. ASSUME NEW w \in Writers, Crash(w) PROVE TypeOK'
  <2>1. NoBasis.sequence = 0
    BY DEF NoBasis
  <2>2. QED
    BY <1>4, <2>1 DEF Crash, Entries
<1>5. CASE UNCHANGED vars
  BY <1>5 DEF vars, Entries
<1>6. QED
  BY <1>1, <1>2, <1>3, <1>4, <1>5 DEF Next

(* No step but Write touches the file.                                      *)
LEMMA FileUnchanged ==
    ASSUME [Next]_vars, ~\E w \in Writers : Write(w)
    PROVE  file' = file /\ overlapped' = overlapped
BY DEF Next, vars, Validate, Read, Crash

(* A break stays: append() adds lines and changes none.                     *)
LEMMA BreakStays == TypeOK /\ [Next]_vars /\ ~Valid => ~Valid'
<1> SUFFICES ASSUME TypeOK, [Next]_vars, Valid' PROVE Valid
  OBVIOUS
<1>1. CASE \E w \in Writers : Write(w)
  <2>1. PICK line : file' = Appended(line)
    BY <1>1 DEF Write
  <2>2. file \in Seq(Entries)
    BY DEF TypeOK
  <2>3. QED
    BY <2>1, <2>2, AppendedFile, EarlierLinesKeepValidity DEF Valid
<1>2. CASE ~\E w \in Writers : Write(w)
  BY <1>2, FileUnchanged DEF Valid, LineValid
<1>3. QED
  BY <1>1, <1>2

(* Without overlap the line that Write adds is the one validate() expects.  *)
LEMMA ChainStep ==
    TypeOK /\ SerialAppendsKeepChain /\ BasisCurrent /\ [Next]_vars
        => (SerialAppendsKeepChain /\ BasisCurrent)'
<1> SUFFICES ASSUME TypeOK, SerialAppendsKeepChain, BasisCurrent, [Next]_vars, ~overlapped'
             PROVE  /\ Valid'
                    /\ \A v \in Writers : pc'[v] = "read" => basis'[v] = CurrentBasis'
  BY DEF SerialAppendsKeepChain, BasisCurrent
<1>1. ASSUME NEW w \in Writers, Write(w)
      PROVE  /\ Valid'
             /\ \A v \in Writers : pc'[v] = "read" => basis'[v] = CurrentBasis'
  <2> DEFINE body == Body(basis[w].sequence, basis[w].previous_hash, w)
             line == [body |-> body, hash |-> Digest(body)]
  <2>0. PICK new \in Nat : new = Len(file) + 1
    BY LenProperties DEF TypeOK
  <2>1. ~overlapped /\ \A v \in Writers \ {w} : pc[v] = "idle"
    BY <1>1 DEF Write, InAppend
  <2>2. Valid /\ basis[w] = CurrentBasis
    BY <1>1, <2>1 DEF SerialAppendsKeepChain, BasisCurrent, Write
  <2>3. file' = Appended(line) /\ file \in Seq(Entries)
    BY <1>1 DEF Write, TypeOK
  <2>4. LineValid(new)'
    <3>1. body.sequence = new /\ body.previous_hash = LastHash
      BY <2>0, <2>2 DEF CurrentBasis, NextSequence, Body
    <3>2. file'[new].body = body /\ file'[new].hash = Digest(body)
      BY <2>0, <2>3, AppendedFile
    <3>3. LastHash = IF new = 1 THEN GENESIS_HASH ELSE file'[new - 1].hash
      <4>1. Len(file) \in Nat /\ (file = <<>> <=> Len(file) = 0)
        BY <2>3, EmptySeq, LenProperties
      <4>2. Len(file) # 0 => Len(file) \in 1..Len(file) /\ new - 1 = Len(file)
        BY <2>0, <4>1
      <4>3. QED
        BY <2>0, <2>3, <4>1, <4>2, AppendedFile DEF LastHash
    <3> HIDE DEF body
    <3>4. QED
      BY <3>1, <3>2, <3>3 DEF LineValid
  <2> HIDE DEF line
  <2>5. \A n \in 1..Len(file) : LineValid(n)'
    BY <2>2, <2>3, AppendedFile, EarlierLinesKeepValidity DEF Valid
  <2>6. DOMAIN file' = 1..new /\ Len(file) \in Nat
    BY <2>0, <2>3, AppendedFile
  <2>7. Valid'
    <3>1. \A n \in 1..new : n \in 1..Len(file) \/ n = new
      BY <2>0, <2>6
    <3>2. QED
      BY <2>4, <2>5, <2>6, <3>1 DEF Valid
  <2>8. \A v \in Writers : pc'[v] # "read"
    BY <1>1, <2>1 DEF Write, TypeOK
  <2>9. QED
    BY <2>7, <2>8
<1>2. CASE ~\E w \in Writers : Write(w)
  <2>1. file' = file /\ ~overlapped
    BY <1>2, FileUnchanged
  <2>2. Valid' /\ CurrentBasis' = CurrentBasis
    BY <2>1 DEF SerialAppendsKeepChain, Valid, LineValid, CurrentBasis, NextSequence, LastHash
  <2>3. \A v \in Writers : pc[v] = "read" => basis[v] = CurrentBasis
    BY <2>1 DEF BasisCurrent
  <2>4. ASSUME NEW v \in Writers, pc'[v] = "read" PROVE basis'[v] = CurrentBasis
    BY <1>2, <2>3, <2>4 DEF Next, vars, Validate, Read, Crash, TypeOK
  <2>5. QED
    BY <2>2, <2>4
<1>3. QED
  BY <1>1, <1>2

LEMMA ContainedStep ==
    TypeOK /\ LateLinesContained /\ [Next]_vars => LateLinesContained'
<1> SUFFICES ASSUME TypeOK, LateLinesContained, [Next]_vars PROVE LateLinesContained'
  OBVIOUS
<1>0. PICK n \in ValidPrefix : SoleAuthors(n) /\ LateAuthorsIdle(n)
  BY DEF LateLinesContained
<1>1. /\ file \in Seq(Entries) /\ Len(file) \in Nat /\ DOMAIN file = 1..Len(file)
      /\ n \in 0..Len(file) /\ \A i \in n+1..Len(file) : file[i].body.actor \in Writers
  BY <1>0, LenProperties DEF TypeOK, ValidPrefix, Entries
<1>2. ASSUME NEW w \in Writers, Write(w) PROVE LateLinesContained'
  <2> DEFINE body == Body(basis[w].sequence, basis[w].previous_hash, w)
             line == [body |-> body, hash |-> Digest(body)]
             new == Len(file) + 1
  <2>1. file' = Appended(line) /\ line.body.actor = w
    BY <1>2 DEF Write, Body
  <2> HIDE DEF line
  <2>2. n \in ValidPrefix'
    <3>1. n \in 0..Len(file)'
      BY <1>1, <2>1, AppendedFile
    <3>2. \A i \in 1..n : LineValid(i)'
      BY <1>0, <1>1, <2>1, EarlierLinesKeepValidity DEF ValidPrefix
    <3>3. QED
      BY <3>1, <3>2 DEF ValidPrefix
  <2>3. \A i \in n+1..Len(file)' : (i \in n+1..Len(file) /\ file'[i] = file[i]) \/ i = new
    BY <1>1, <2>1, AppendedFile
  <2>4. file'[new].body.actor = w
    BY <1>1, <2>1, AppendedFile
  <2>5. \A i \in n+1..Len(file) : file[i].body.actor # w
    BY <1>0, <1>2 DEF LateAuthorsIdle, InAppend, Write
  <2>6. SoleAuthors(n)'
    BY <1>0, <2>3, <2>4, <2>5 DEF SoleAuthors
  <2>7. LateAuthorsIdle(n)'
    BY <1>0, <1>1, <1>2, <2>3, <2>4 DEF LateAuthorsIdle, InAppend, Write, TypeOK
  <2>8. QED
    BY <2>2, <2>6, <2>7 DEF LateLinesContained
<1>3. ASSUME NEW w \in Writers, Validate(w) PROVE LateLinesContained'
  <2>0. PICK all : all = Len(file)
    OBVIOUS
  <2>1. all \in ValidPrefix'
    BY <1>1, <1>3, <2>0 DEF Validate, AppendAllowed, Valid, LineValid, ValidPrefix
  <2>2. SoleAuthors(all)' /\ LateAuthorsIdle(all)'
    BY <1>1, <1>3, <2>0 DEF Validate, SoleAuthors, LateAuthorsIdle
  <2>3. QED
    BY <2>1, <2>2 DEF LateLinesContained
<1>4. CASE ~\E w \in Writers : Write(w) \/ Validate(w)
  <2>1. file' = file
    BY <1>4, FileUnchanged
  <2>2. \A v \in Writers : ~InAppend(v) => ~InAppend(v)'
    BY <1>4 DEF Next, vars, Read, Crash, InAppend, TypeOK
  <2>3. n \in ValidPrefix' /\ SoleAuthors(n)' /\ LateAuthorsIdle(n)'
    <3>1. n \in ValidPrefix' /\ SoleAuthors(n)'
      BY <1>0, <2>1 DEF ValidPrefix, LineValid, SoleAuthors
    <3>2. LateAuthorsIdle(n)'
      BY <1>0, <1>1, <2>1, <2>2 DEF LateAuthorsIdle
    <3>3. QED
      BY <3>1, <3>2
  <2>4. QED
    BY <2>3 DEF LateLinesContained
<1>5. QED
  BY <1>2, <1>3, <1>4

-----------------------------------------------------------------------------
(* The chain invariant holds in every state: of any number of commands on   *)
(* one ledger file, appending and dying at any point.                      *)
THEOREM ChainInvariant == Spec => []Chain
<1>1. Chain /\ [Next]_vars => Chain'
  BY TypeStep, ChainStep, ContainedStep DEF Chain
<1>2. QED
  BY InitChain, <1>1, PTL DEF Spec

(* The type invariant of evidence.py's ledger file and its writers.         *)
THEOREM LedgerTypes == Spec => []TypeOK
BY ChainInvariant, PTL DEF Chain

(* Appends that never overlap keep the chain valid: the ledger breaks only  *)
(* when a line lands between another command's validate() and its write    *)
(* (evidence.py 55-68).                                                    *)
THEOREM SerialAppendsAreSafe == Spec => []SerialAppendsKeepChain
BY ChainInvariant, PTL DEF Chain

(* When commands do race, each adds at most one line past the break.        *)
THEOREM BreaksAreContained == Spec => []BreakIsContained
<1>1. Chain => BreakIsContained
  BY DEF Chain, LateLinesContained, BreakIsContained
<1>2. QED
  BY ChainInvariant, <1>1, PTL

(* A ledger that validate() rejects is rejected for ever.                   *)
THEOREM BreaksArePermanent == Spec => BreakIsPermanent
<1>1. TypeOK /\ [Next]_vars => [~Valid => ~Valid']_vars
  BY BreakStays
<1>2. QED
  BY LedgerTypes, <1>1, PTL DEF Spec, BreakIsPermanent
=============================================================================
