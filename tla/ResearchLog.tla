---------------------------- MODULE ResearchLog ----------------------------
(***************************************************************************)
(* What ResearchStore.append promises its callers: a log in which a        *)
(* transaction has one content and a record id one transaction.  An append *)
(* is visible before it has settled; until then it is the only one, and it *)
(* may be taken back.  Nothing that has settled ever is.                   *)
(***************************************************************************)
CONSTANTS Txns, Contents, RecordIds(_, _)

VARIABLES
    log,     \* visible transactions, as <<id, content>>
    settled  \* those that stay

Absent(t, c) ==
    \A m \in log : m[1] # t /\ RecordIds(m[1], m[2]) \cap RecordIds(t, c) = {}

Init == log = {} /\ settled = {}

Publish(t, c) ==
    /\ settled = log /\ Absent(t, c)
    /\ log' = log \cup {<<t, c>>} /\ settled' = settled

Settle == settled' = log /\ log' = log

TakeBack == log' = settled /\ settled' = settled

\* visible and settled in one step
Commit(t, c) ==
    /\ settled = log /\ Absent(t, c)
    /\ log' = log \cup {<<t, c>>} /\ settled' = log'

Next ==
    \/ \E t \in Txns, c \in Contents : Publish(t, c) \/ Commit(t, c)
    \/ Settle \/ TakeBack

Spec == Init /\ [][Next]_<<log, settled>>
============================================================================
