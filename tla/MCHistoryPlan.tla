--------------------------- MODULE MCHistoryPlan ---------------------------
(* HistoryPlan with short windows in place of those of                     *)
(* config/market_data_policy.json, and the policy's own daily crypto series. *)
EXTENDS HistoryPlan

Scope(asset, daily, perDay, width, approved, ends) ==
    [asset |-> asset, daily |-> daily, perDay |-> perDay, width |-> width,
     approved |-> approved, ends |-> ends]

ShortSeries == {Scope("crypto", TRUE,  1, 4, 2, {3, 9, 14}),
                Scope("crypto", FALSE, 2, 3, 1, {1, 9}),
                Scope("etf",    TRUE,  1, 8, 0, {9, 14, 15}),
                Scope("etf",    FALSE, 2, 3, 0, {2, 6, 7})}

(* What the theorem on MarketsAnswerAccepted asks of the closures. *)
ASSUME InOrder == OrderlyCalendar

Bitcoin == {Scope("crypto", TRUE, 1, 5000, 0, {6068})}
=============================================================================
