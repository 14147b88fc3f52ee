---------------------------- MODULE MCPaperEngine ----------------------------
(* Small instances of PaperEngine: entry plans of each kind around price 5. *)
EXTENDS PaperEngine

Plan(side, mode, lo, hi, entry, risk, tp, hold) ==
  [side |-> side, mode |-> mode, lo |-> lo, hi |-> hi, entry |-> entry,
   risk |-> risk, tp |-> tp, hold |-> hold]

MarketBuy == Plan("BUY", "MARKET", 5, 5, 5, 2, <<4, 6, 8>>, FALSE)
ZoneBuy == Plan("BUY", "LIMIT", 4, 6, 5, 2, <<4, 6>>, TRUE)
ZoneShort == Plan("SHORT", "LIMIT", 7, 11, 9, 2, <<4, 6>>, FALSE)

MCLadders == {<<4, 6, 8>>, <<4, 6>>}

TradePlans == {MarketBuy, ZoneShort}
OrderPlans == {ZoneBuy, ZoneShort, MarketBuy}
MCRisks == {plan.risk : plan \in Plans}

\* configs/paper_trading.json: armed at 1.5 and following at 1.0 times the ATR, which
\* the engine takes as two thirds of the risk; here rounded up to whole ticks.
MCActivation == [r \in MCRisks |-> r]
MCTrailDistance == [r \in MCRisks |-> (2 * r + 2) \div 3]
\* Two ticks of profit when less than half is left, one tick otherwise.
MCNetFloor == [u \in 1..Size |-> IF 2 * u < Size THEN 2 ELSE 1]
MCSwings == {2, 3, 5}
=============================================================================
