------------------------------- MODULE Court -------------------------------
(***************************************************************************)
(* The Decision Court: adjudicate of src/athena/court.py, with the metrics  *)
(* of metrics.py that its gates read.  Both are pure; ResearchCycle calls   *)
(* them when a cycle delivers its verdict.                                 *)
(*                                                                         *)
(* Outcomes are whole numbers of some fraction of R, thresholds are whole  *)
(* percentages or in the outcomes' unit, and each comparison of quotients  *)
(* is multiplied out: the rounding of binary floating point is not          *)
(* modelled.  A packet that is not structurally complete does not reach    *)
(* the Court in a cycle, so packet_structure is not among the gates.       *)
(***************************************************************************)
EXTENDS Integers, Sequences, FiniteSets, SequencesExt

(* A packet is [outcomes, sources, challenges, controlled]: its trade      *)
(* outcomes, the source of each evidence reference, the number of          *)
(* counter-evidence items, and whether there are risk controls.            *)

Larger(a, b)  == IF a >= b THEN a ELSE b
Smaller(a, b) == IF a <= b THEN a ELSE b

Total(s) == FoldLeft(+, 0, s)
Wins(s)  == {i \in DOMAIN s : s[i] > 0}
GrossProfit(s) == Total([i \in DOMAIN s |-> Larger(s[i], 0)])
GrossLoss(s)   == Total([i \in DOMAIN s |-> Larger(-s[i], 0)])

(* The loop over the equity curve: the peak is raised before the drawdown  *)
(* is measured from it.                                                    *)
LastFall(e, r) ==                                                    \* fault
    LET equity == e.equity + r
    IN  [equity |-> equity, peak |-> Larger(e.peak, equity),
         drawdown |-> Larger(e.drawdown, e.equity - equity)]
Trade(e, r) ==
    LET equity == e.equity + r
        peak   == Larger(e.peak, equity)
    IN  [equity |-> equity, peak |-> peak, drawdown |-> Larger(e.drawdown, peak - equity)]

FlatCurve == [equity |-> 0, peak |-> 0, drawdown |-> 0]
MaximumDrawdown(s) == FoldLeft(Trade, FlatCurve, s).drawdown

(* wilson_lower_bound(w, n) >= c percent, with z = 1.96.  The interval     *)
(* inverts the score test, so that its lower end reaches c exactly if the  *)
(* hit rate does by z standard errors of c; squared, and multiplied out.   *)
WilsonReaches(w, n, c) ==
    LET excess == 100 * w - c * n
    IN  \/ c <= 0
        \/ excess >= 0 /\ 625 * excess * excess >= 2401 * c * (100 - c) * n

(* In units of 1/1200.  Every source counts, barred or not. *)
EvidenceWeight(packet) ==
    6 * Smaller(100, Len(packet.outcomes))
    + 100 * Smaller(3, Cardinality(ToSet(packet.sources)))
    + 100 * Smaller(3, packet.challenges)

PerformanceGates == {"hit_rate", "expectancy", "profit_factor", "maximum_drawdown"}
EvidenceGates == {"evidence_count", "source_eligibility", "counter_evidence",
                  "risk_controls", "sample_size", "confidence", "evidence_weight"}

Profitable(s, policy) ==
    GrossLoss(s) = 0 \/ 100 * GrossProfit(s) >= policy.profitFactor * GrossLoss(s)

Passes(gate, packet, policy) ==
    LET s == packet.outcomes
        n == Len(s)
        w == Cardinality(Wins(s))
    IN  CASE gate = "evidence_count"     -> Len(packet.sources) >= policy.items
          [] gate = "source_eligibility" -> ~(ToSet(packet.sources) \subseteq policy.barred)
          [] gate = "counter_evidence"   -> packet.challenges > 0 \/ ~policy.challenge
          [] gate = "risk_controls"      -> packet.controlled \/ ~policy.control
          [] gate = "sample_size"        -> n >= policy.sample
          [] gate = "hit_rate"           -> 100 * w >= policy.hitRate * n
          [] gate = "expectancy"         -> Total(s) >= policy.expectancy * n
          [] gate = "profit_factor"      -> Profitable(s, policy)
          [] gate = "maximum_drawdown"   -> MaximumDrawdown(s) <= policy.drawdown
          [] gate = "confidence"         -> WilsonReaches(w, n, policy.confidence)
          [] gate = "evidence_weight"    -> EvidenceWeight(packet) >= 12 * policy.weight

Failed(packet, policy) ==
    {g \in PerformanceGates \cup EvidenceGates : ~Passes(g, packet, policy)}

HoldFirst(packet, policy) ==                                          \* fault
    LET failed == Failed(packet, policy)
    IN  IF failed \cap EvidenceGates # {} THEN "HOLD"
        ELSE IF failed # {} THEN "REJECT"
        ELSE "PROMOTE"
Verdict(packet, policy) ==
    LET failed == Failed(packet, policy)
    IN  IF failed \cap PerformanceGates # {} THEN "REJECT"
        ELSE IF failed # {} THEN "HOLD"
        ELSE "PROMOTE"
=============================================================================
