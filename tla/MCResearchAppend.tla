-------------------------- MODULE MCResearchAppend -------------------------
(* Two transactions with two contents each.  The contents of t1 fall on    *)
(* one day and share a record id; those of t2 fall on two days, and one of *)
(* them reuses the record id of t1.                                        *)
EXTENDS ResearchAppend

TwoTxns == {"t1", "t2"}
TwoContents == {"a", "b"}
IdsOf(t, c) == IF <<t, c>> = <<"t2", "a">> THEN {"r2"} ELSE {"r1"}
DayOf(t, c) == IF <<t, c>> = <<"t2", "b">> THEN 2 ELSE 1
============================================================================
