-------------------------- MODULE MCResearchCycle --------------------------
(* ResearchCycle with a request and its revision, two policies, and           *)
(* interchangeable processes.  Outcomes are in halves of R.                    *)
EXTENDS ResearchCycle, TLC

Request(strategy, outcomes, edition) ==
    [strategy |-> strategy, outcomes |-> outcomes, edition |-> edition]

First   == Request("s1", "o1", 1)
Revised == Request("s1", "o2", 2)    \* the strategy with new outcomes

TwoRequests == {First, Revised}
OneRequest  == {First}

PacketWith(s) == [outcomes |-> s, sources |-> <<"s1", "s2">>, challenges |-> 1,
                  controlled |-> TRUE]
TwoPackets == (First :> PacketWith(<<4, -1, 2>>)) @@ (Revised :> PacketWith(<<-1, -2>>))
OnePacket  == First :> PacketWith(<<4, -1, 2>>)

\* v1 promotes First; v2, stricter in every gate, holds it for its sample.
TwoRules == [
    v1 |-> [items |-> 1, barred |-> {"s1"}, challenge |-> FALSE, control |-> FALSE,
            sample |-> 2, hitRate |-> 50, expectancy |-> 0, profitFactor |-> 110,
            drawdown |-> 2, confidence |-> 20, weight |-> 18],
    v2 |-> [items |-> 2, barred |-> {"s1", "s2"}, challenge |-> TRUE, control |-> TRUE,
            sample |-> 4, hitRate |-> 60, expectancy |-> 1, profitFactor |-> 150,
            drawdown |-> 1, confidence |-> 30, weight |-> 27]]

Results == -2..2

Symmetry == Permutations(Procs)
=============================================================================
