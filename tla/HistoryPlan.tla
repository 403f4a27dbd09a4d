---------------------------- MODULE HistoryPlan ----------------------------
(***************************************************************************)
(* What a historical manifest asks for and what of the answers is accepted: *)
(* _partition_windows and HistoricalManifest.validate of history.py,        *)
(* MarketDataRequest.validate and normalize_provider_payload of             *)
(* market_data.py (src/athena).  Module History has the order in which     *)
(* windows are requested, and leaves open which answers pass; here the     *)
(* windows of one plan are answered one after the other, and what matters  *)
(* is which bars a complete plan may lack.                                 *)
(*                                                                         *)
(* Days are numbered from day 0, a Friday like 2010-01-01, and a bar is     *)
(* the number of its interval since then.  A plan has one series (symbol   *)
(* and interval): a manifest of several is the plans of each in a row.      *)
(* Everything the controls ask of an answer but the times of its bars -    *)
(* fields, prices, order, uniqueness - is one flag.                        *)
(***************************************************************************)
EXTENDS Integers, Sequences, FiniteSets, FiniteSetsExt

CONSTANTS Series,      \* [asset, daily, perDay, width, approved, ends]: class, whether
                       \* the interval is 1day, bars of a day, request_window_days,
                       \* approved start, and the values of requested_end
          Overrides,   \* values of start_override, 0 for none
          Cap,         \* policy: maximum_rows_per_response
          Boundary,    \* policy: maximum_noncrypto_boundary_missing_sessions
          Percent,     \* policy: noncrypto_session_date_coverage_target_percent
          Closures     \* weekdays on which the other markets are closed

ASSUME PlanAssumption ==
    /\ \A s \in Series : /\ {s.perDay, s.width} \subseteq Nat \ {0}
                         /\ s.daily \in BOOLEAN /\ (s.daily => s.perDay = 1)
                         /\ s.approved \in Nat /\ s.ends \subseteq Nat
    /\ Overrides \cup Closures \subseteq Nat
    /\ Cap \in Nat /\ Boundary \in Nat /\ Percent \in 0..100

VARIABLES series,   \* the series that is planned
          period,   \* its first and last day
          windows,  \* the manifest's windows: [start, end]
          answers,  \* the accepted answers, one per window so far: sets of bars
          state     \* "none", "planned", "COMPLETE" or "BLOCKED"

vars == <<series, period, windows, answers, state>>

Least(a, b)    == IF a <= b THEN a ELSE b
Greatest(a, b) == IF a >= b THEN a ELSE b

Weekday(d) == (d + 4) % 7 < 5
Days(w)    == w.start .. w.end
DayOf(bar) == bar \div series.perDay
BarsOf(days) == {d * series.perDay + i : d \in days, i \in 0 .. series.perDay - 1}
DatesOf(bars) == {DayOf(b) : b \in bars}

-----------------------------------------------------------------------------
(* Planning.                                                               *)

DayAfterWidth(start, s) == start + s.width                            \* fault
LastDay(start, s) == start + s.width - 1

Partition(s, first, last) ==
    LET From[cursor \in Int] ==
            IF cursor > last THEN <<>>
            ELSE LET w == [start |-> cursor, end |-> Least(last, LastDay(cursor, s))]
                 IN  <<w>> \o From[w.end + 1]
    IN  From[first]

(* MarketDataRequest.validate *)
RequestValid(s, w) ==
    w.start <= w.end /\ s.approved <= w.start /\ w.end - w.start + 1 <= s.width

(* HistoricalManifest.validate, of one series. *)
ManifestValid(s, ws, last) ==
    /\ ws # <<>> /\ ws[Len(ws)].end = last
    /\ \A i \in DOMAIN ws : RequestValid(s, ws[i])
    /\ \A i \in 1 .. Len(ws) - 1 : ws[i + 1].start = ws[i].end + 1

(* The planner raises for a start after the end; nothing is written then. *)
Plan(s, override, last) ==
    LET first == Greatest(s.approved, override)
    IN  /\ state = "none" /\ first <= last
        /\ series' = s /\ period' = [start |-> first, end |-> last]
        /\ windows' = Partition(s, first, last)
        /\ state' = IF ManifestValid(s, windows', last) THEN "planned" ELSE "none"
        /\ UNCHANGED answers

-----------------------------------------------------------------------------
(* The controls of an answer.                                              *)

Successive(bars) == {ab \in bars \X bars : ab[1] < ab[2] /\ \A c \in bars : c <= ab[1] \/ ab[2] <= c}

AnyAsset(a, b) == IF series.daily THEN b - a <= 4 ELSE DayOf(a) # DayOf(b)  \* fault
Weekend(a, b) == /\ series.asset # "crypto"                           \* fault
                 /\ IF series.daily THEN b - a <= 3 ELSE DayOf(a) # DayOf(b)
AllowedGap(a, b) == /\ series.asset # "crypto"
                    /\ IF series.daily THEN b - a <= 4 ELSE DayOf(a) # DayOf(b)

NoMissingBar(bars) == \A ab \in Successive(bars) : ab[2] - ab[1] = 1 \/ AllowedGap(ab[1], ab[2])

(* The element of a set of days that has n elements before it. *)
Nth(days, n) == CHOOSE d \in days : Cardinality({e \in days : e < d}) = n

Weekdays(w) == {d \in Days(w) : Weekday(d)}

FromBoundaryOn(w) ==                                                  \* fault
    LET open == Weekdays(w)
    IN  IF series.asset = "crypto" \/ open = {} THEN w.start
        ELSE Nth(open, Least(Boundary + 1, Cardinality(open) - 1))
EarliestPermitted(w) ==
    LET open == Weekdays(w)
    IN  IF series.asset = "crypto" \/ open = {} THEN w.start
        ELSE Nth(open, Least(Boundary, Cardinality(open) - 1))

LatestPermitted(w) ==
    LET open == Weekdays(w)
    IN  IF series.asset = "crypto" \/ open = {} THEN w.end
        ELSE Nth(open, Greatest(0, Cardinality(open) - Boundary - 1))

(* Sessions that may be missing: the percentage is rounded up, and one     *)
(* session date must be there whatever the allowance.                      *)
PermittedMissing(n) == Greatest(Boundary, (n * (100 - Percent) + 99) \div 100)

CoverageMet(w, bars) ==
    series.asset # "crypto" =>
        LET open == Weekdays(w)
        IN  Cardinality(DatesOf(bars) \cap open)
                >= Greatest(1, Cardinality(open) - PermittedMissing(Cardinality(open)))

InPeriod(w, bars) == DatesOf(bars) \subseteq Days(w)

Accepted(w, bars) ==
    /\ bars # {} /\ Cardinality(bars) < Cap
    /\ InPeriod(w, bars)
    /\ NoMissingBar(bars)
    /\ CoverageMet(w, bars)
    /\ DayOf(Min(bars)) <= EarliestPermitted(w)
    /\ DayOf(Max(bars)) >= LatestPermitted(w)

Current == windows[Len(answers) + 1]

(* Any bars of the window, and perhaps one of the day before or after it. *)
Strays(w) == {{}} \cup {{b} : b \in BarsOf({w.start - 1, w.end + 1})}

(* A quarantined window stops the manifest for good. *)
Answer(bars) ==
    /\ state = "planned"
    /\ IF Accepted(Current, bars)
       THEN /\ answers' = Append(answers, bars)
            /\ state' = IF Len(answers') = Len(windows) THEN "COMPLETE" ELSE "planned"
       ELSE state' = "BLOCKED" /\ UNCHANGED answers
    /\ UNCHANGED <<series, period, windows>>

AnswerMalformed ==
    /\ state = "planned"
    /\ state' = "BLOCKED"
    /\ UNCHANGED <<series, period, windows, answers>>

-----------------------------------------------------------------------------
Init ==
    /\ series \in Series /\ period = [start |-> 0, end |-> 0]
    /\ windows = <<>> /\ answers = <<>> /\ state = "none"

Next ==
    \/ \E override \in Overrides, last \in series.ends : Plan(series, override, last)
    \/ /\ state = "planned"
       /\ \E bars \in SUBSET BarsOf(Days(Current)), stray \in Strays(Current) :
              Answer(bars \cup stray)
    \/ AnswerMalformed

Spec == Init /\ [][Next]_vars

-----------------------------------------------------------------------------
(* Properties.                                                             *)

TypeOK ==
    /\ series \in Series
    /\ \A i \in DOMAIN windows : {windows[i].start, windows[i].end} \subseteq Nat
    /\ Len(answers) <= Len(windows)
    /\ \A i \in DOMAIN answers : answers[i] \subseteq BarsOf(Days(windows[i]))
    /\ state \in {"none", "planned", "COMPLETE", "BLOCKED"}
    /\ state = "COMPLETE" => Len(answers) = Len(windows)

(* The windows of a plan divide its period: every day from the first to    *)
(* the last is in exactly one of them, none is longer than the provider    *)
(* may be asked for, and the manifest's own validation accepts them.       *)
PlanDividesPeriod ==
    windows # <<>> =>
        /\ state # "none"
        /\ \A d \in period.start - 1 .. period.end + 1 :
               Cardinality({i \in DOMAIN windows : d \in Days(windows[i])})
                   = IF d \in Days(period) THEN 1 ELSE 0

Acquired == UNION {answers[i] : i \in DOMAIN answers}

(* A complete plan of a crypto series has every bar of its period, with    *)
(* one exception that the controls cannot see and missing_bar_count does   *)
(* not count: intraday bars before the first one of a window's first day,  *)
(* or after the last one of its last day.                                  *)
CryptoGapsAtBordersOnly ==
    state = "COMPLETE" /\ series.asset = "crypto" =>
        \A i \in DOMAIN windows :
            \A b \in BarsOf(Days(windows[i])) \ answers[i] :
                /\ ~series.daily
                /\ \/ DayOf(b) = windows[i].start /\ b < Min(answers[i])
                   \/ DayOf(b) = windows[i].end /\ b > Max(answers[i])

(* In a complete plan of another daily series the longest silence is       *)
(* twice the boundary allowance, or the three weekdays that a gap of four  *)
(* days can hide, whatever the windows' borders do to the two controls:    *)
(* more successive weekdays than that have a bar among them.               *)
LongestSilence == Greatest(2 * Boundary, 3)
SilenceIsBounded ==
    state = "COMPLETE" /\ series.asset # "crypto" /\ series.daily =>
        \A d, e \in {x \in Days(period) : Weekday(x)} :
            Cardinality({x \in d..e : Weekday(x)}) > LongestSilence =>
                DatesOf(Acquired) \cap (d..e) # {}

(* What a market that is in order answers: a bar for each of its intervals. *)
Sessions(w) == IF series.asset = "crypto" THEN Days(w) ELSE Weekdays(w) \ Closures
MarketsAnswer(w) == BarsOf(Sessions(w))

(* Closures that the three controls tolerate, in the days that a plan may   *)
(* cover: no more weekdays in a row than the boundary allowance, no more of *)
(* a window's weekdays than the coverage target leaves out, and, in a daily *)
(* series, no four days in a row, weekends included.                       *)
OrderlyCalendar ==
    \A s \in {x \in Series : x.asset # "crypto"} : \A last \in s.ends :
        /\ s.daily =>
              \A a \in 0 .. last - 3 : \E d \in a .. a + 3 : Weekday(d) /\ d \notin Closures
        /\ \A a, b \in 0 .. last :
              LET open == {d \in a..b : Weekday(d)}
              IN  /\ open \subseteq Closures => Cardinality(open) <= Boundary
                  /\ b - a < s.width =>
                        Cardinality(open \cap Closures) <= PermittedMissing(Cardinality(open))

(* The controls quarantine nothing that is in order: the market's own      *)
(* answer is accepted wherever the window has a session and the answer is  *)
(* below the cap, with weekends, closures and borders where they fall.     *)
MarketsAnswerAccepted ==
    \A i \in DOMAIN windows :
        Sessions(windows[i]) # {} /\ Cardinality(MarketsAnswer(windows[i])) < Cap =>
            Accepted(windows[i], MarketsAnswer(windows[i]))

(* Every plan can be completed: there is no window whose market's own      *)
(* answer is quarantined (docs/HISTORICAL_ACQUISITION.md: "The full        *)
(* approved plan covers eight instruments, five intervals, daily history   *)
(* from 2010 or inception").  The code does not give this.                 *)
EveryPlanCanComplete ==
    \A i \in DOMAIN windows : Accepted(windows[i], MarketsAnswer(windows[i]))
=============================================================================
