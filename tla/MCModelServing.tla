--------------------------- MODULE MCModelServing ---------------------------
(***************************************************************************)
(* CSV files, horizons and recent readings for ModelServing.               *)
(***************************************************************************)
EXTENDS ModelServing

\* Ten readings, two a minute, and horizons of one to three minutes.
Row(at, t, x) == [at |-> at, t |-> t, x |-> x]
MCWhole    == [i \in 1..10 |-> Row(i, TRUE, TRUE)]
MCSwapped  == [i \in 1..10 |-> Row(11 - i, TRUE, i # 10)]
MCGap      == [i \in 1..10 |-> Row(IF i <= 5 THEN i ELSE i + 2, TRUE, i # 4)]
MCDropped  == [i \in 1..10 |-> Row(i, i # 4, TRUE)]
MCMedian   == [i \in 1..10 |-> Row(i, i \notin {2, 3, 7}, TRUE)]
MCTwice    == [i \in 1..10 |-> Row(IF i = 10 THEN 3 ELSE i, TRUE, TRUE)]
MCShort    == [i \in 1..3 |-> Row(i, TRUE, TRUE)]
Csv(schema, rows) == [schema |-> schema, rows |-> rows]
MCFiles    == {Csv("readings", rows) :
                 rows \in {MCWhole, MCSwapped, MCDropped, MCMedian, MCTwice, MCShort}}
              \cup {Csv("collector", MCGap)}
MCHorizons == {{2}, {1, 2}, {1, 2, 3}}

MCWindow(now, rows, target, sibling, humidity) ==
  [now |-> now, rows |-> rows, target |-> target, sibling |-> sibling, humidity |-> humidity,
   other |-> "all"]
MCWindows == {MCWindow(12, "none", "all", "all", "all"), MCWindow(12, "short", "all", "all", "all"),
              MCWindow(12, "enough", "some", "all", "none"), MCWindow(12, "enough", "none", "none", "all"),
              MCWindow(14, "enough", "none", "all", "some")}
=============================================================================
