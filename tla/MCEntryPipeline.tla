--------------------------- MODULE MCEntryPipeline ----------------------------
(* Two symbols, and the rows that tell the paths of a candidate apart.         *)
EXTENDS EntryPipeline, TLC

CONSTANTS a, b

Row(in, long, conf, short, shortConf) ==
  [in |-> in, long |-> long, conf |-> conf, clear |-> TRUE,
   short |-> short, shortConf |-> shortConf, shortClear |-> TRUE, levels |-> TRUE]

both == {"long", "short"}
ShapesDef ==
  {Row(both, "BUY", 2, "SKIP", 0),
   Row(both, "BUY", 2, "SELL", 3),              \* both directions, the short is surer
   Row(both, "SKIP", 0, "SELL", 3),             \* a short the long ranking lists too
   Row({"short"}, "SKIP", 0, "SELL", 2),
   [Row(both, "BUY", 3, "SKIP", 0) EXCEPT !.clear = FALSE],
   Row(both, "SKIP", 0, "WATCH", 1),
   Row({"short"}, "SKIP", 0, "WATCH", 2),
   Row(both, "WATCH", 1, "SKIP", 0)}            \* its short half silences the WATCH

Twins == Permutations({a, b})
=============================================================================
