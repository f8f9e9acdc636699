------------------------ MODULE MCObservationTick ------------------------
(* Instances of ObservationTick for TLC.  Time is in units of a point's    *)
(* spacing; the windows of consecutive points overlap by one unit.         *)
EXTENDS ObservationTick

Row(e, pt, prim, at, deadline) ==
    [entity |-> e, point |-> pt, primitive |-> prim,
     due_at |-> at, deadline_at |-> deadline]

\* Two entities in one SEARCH batch, one of them with a later point.
SearchPanel == {Row("a", "Y1", "SEARCH", 0, 1), Row("b", "Y1", "SEARCH", 0, 1),
                Row("a", "Y2", "SEARCH", 1, 2)}

\* The common panel: SEARCH and BUY at X, the dependent SELL at X and at Y1.
QuotePanel == {Row("a", "X", "SEARCH", 0, 1), Row("a", "X", "BUY", 0, 1),
               Row("a", "X", "SELL", 0, 1), Row("a", "Y1", "SELL", 1, 2)}

BothEligible == {"a", "b"}
===========================================================================
