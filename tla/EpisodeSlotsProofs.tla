------------------------ MODULE EpisodeSlotsProofs ------------------------
(***************************************************************************)
(* Theorems about EpisodeSlots, for any set of episodes, any windows and   *)
(* batch size and any number of crashes.  The inductive invariant says     *)
(* which slots the running tick holds, that a ledger entry owns its slots  *)
(* through their intents, and that a terminal slot has its row somewhere.  *)
(***************************************************************************)
EXTENDS EpisodeSlots, TLAPS

\* Slots of an episode that is not admitted are untouched, all others exist.
AdmissionOK ==
    \A s \in Slots : /\ IF t0[s[1]] = -1 THEN slot[s] = Slot("NONE", {})
                        ELSE slot[s].state # "NONE"
                     /\ slot[s].state \in {"PENDING", "CLAIMED"} => s[2] # 0

\* What the tick holds in memory is claimed, and nothing is held twice.
ClaimsOK ==
    /\ \A s \in tick.claims \cup tick.todo : slot[s].state = "CLAIMED"
    /\ tick.claims \cap tick.todo = {}
    /\ tick.pc \notin {"merge", "apply"} => tick.todo = {}
    /\ tick.pc \in {"merge", "call", "started", "sent"} =>
          /\ \A s \in tick.occ : slot[s].state = "CLAIMED"
          /\ tick.claims \cap tick.occ = {}
          /\ tick.todo \subseteq tick.occ /\ tick.occ # {}

\* A ledger entry owns the slots it was made for; an intent names its slot.
LedgerOK ==
    /\ \A s \in Slots : slot[s].intent # {} => s \in slot[s].intent
    /\ \A o \in Occurrences : ledger[o].state # "NONE" => \A s \in o : slot[s].intent = o

\* A slot that was sent is recorded, and its call is in the ledger.
SentOK ==
    /\ \A s \in Slots : sent[s] = 0 \/ /\ sent[s] = 1
                                       /\ slot[s].intent # {}
                                       /\ ledger[slot[s].intent].state # "NONE"
    /\ \A o \in Occurrences : ledger[o].status = "NO_REQUEST" => \A s \in o : sent[s] = 0
    /\ \A o \in Occurrences : ledger[o].state = "COMPLETED" <=> ledger[o].status # "none"

\* The stages of a call.
CallOK ==
    /\ tick.pc = "merge" => \A s \in tick.occ :
          sent[s] = 0 /\ slot[s].intent = IF s \in tick.todo THEN {} ELSE tick.occ
    /\ tick.pc = "call" => \A s \in tick.occ : sent[s] = 0 /\ slot[s].intent = tick.occ
    /\ tick.pc = "started" => /\ ledger[tick.occ].state = "STARTED"
                              /\ \A s \in tick.occ : sent[s] = 0 /\ slot[s].intent = tick.occ
    /\ tick.pc = "sent" => /\ ledger[tick.occ].state = "STARTED"
                           /\ \A s \in tick.occ : slot[s].intent = tick.occ

\* The verdict being applied is what the ledger says.
ApplyOK ==
    tick.pc = "apply" =>
       /\ \A s \in tick.todo : slot[s].intent = tick.occ
       /\ \/ /\ tick.verdict = "RESULT"
             /\ ledger[tick.occ].status \in {"OBSERVED", "FAILED"}
          \/ tick.verdict = "NOT_EXECUTED" /\ \A s \in tick.todo : sent[s] = 0
          \/ tick.verdict = "OUTCOME_UNKNOWN" /\ ledger[tick.occ].state = "STARTED"
          \/ tick.verdict = "RAW_MISSING"

\* A terminal slot has its row in the outbox or in a registered batch.
RowsKept ==
    \A s \in Slots : slot[s].state \in Terminal =>
       \E r \in outbox \cup UNION registered : r.slot = s

\* A batch is registered after it became visible.
BatchOK ==
    /\ registered \subseteq visible
    /\ tick.pc = "show" => tick.batch \in accepted
    /\ tick.pc \in {"finish", "mark"} => tick.batch \in visible

SlotsInv == TypeOK /\ AdmissionOK /\ ClaimsOK /\ LedgerOK /\ SentOK /\ CallOK /\ ApplyOK
            /\ RowsKept /\ BatchOK /\ OneRowPerSlot /\ RowsAreHonest

-----------------------------------------------------------------------------
\* A call is made for slots, never for a witness (Occurrences).
LEMMA OccurrenceSlots ==
    ASSUME NEW o \in Occurrences, NEW s \in o
    PROVE  s \in Slots /\ s[2] # 0
BY SlotsAssumption DEF Occurrences, Slots, Points

\* Every stage of run is a stage of the tick.
LEMMA ProgramStages ==
    /\ Len(Program) = 11
    /\ \A i \in 1 .. 11 : Program[i] \in {"slots", "repair", "publish", "nominate"}
BY DEF Program

\* The next stage starts with nothing in memory (run).
LEMMA AdvanceStage ==
    ASSUME TypeOK, Advance
    PROVE  /\ tick'.pc \in {"idle", "slots", "repair", "publish", "nominate"}
           /\ tick'.step \in 0 .. 11
           /\ tick' = [Idle EXCEPT !.step = tick'.step, !.pc = tick'.pc]
<1>1. CASE tick.step = 11
  <2>1. tick' = Idle
    BY <1>1, ProgramStages DEF Advance
  <2>2. Idle = [Idle EXCEPT !.step = Idle.step, !.pc = Idle.pc]
    BY DEF Idle
  <2> QED BY <2>1, <2>2 DEF Idle
<1>2. CASE tick.step # 11
  <2>1. tick.step + 1 \in 1 .. 11
    BY <1>2 DEF TypeOK
  <2>2. tick' = [Idle EXCEPT !.step = tick.step + 1, !.pc = Program[tick.step + 1]]
    BY <1>2, ProgramStages DEF Advance
  <2> QED BY <2>1, <2>2, ProgramStages DEF Idle
<1> QED BY <1>1, <1>2

\* What the rows in the outbox and in the batches are (_insert_episode_outbox).
LEMMA WrittenRows ==
    ASSUME SlotsInv, NEW r \in Written
    PROVE  r \in Rows /\ r.slot \in Slots /\ r.state \in Terminal /\ slot[r.slot].state = r.state
<1>1. r \in Rows
  BY DEF SlotsInv, TypeOK, Written
<1> QED BY <1>1 DEF SlotsInv, OneRowPerSlot, Rows

\* A step that leaves the slots with rows alone keeps what is said of rows.
LEMMA RowsUntouched ==
    ASSUME SlotsInv, Written' = Written,
           \A r \in Written : /\ slot'[r.slot] = slot[r.slot]
                              /\ sent'[r.slot] = sent[r.slot]
                              /\ t0'[r.slot[1]] = t0[r.slot[1]]
                              /\ r.slot[2] # 0 =>
                                    ledger'[slot[r.slot].intent] = ledger[slot[r.slot].intent]
    PROVE  OneRowPerSlot' /\ RowsAreHonest'
<1>1. OneRowPerSlot'
  BY DEF SlotsInv, OneRowPerSlot
<1>2. ASSUME NEW r \in Written, r.slot[2] # 0 PROVE Honest(r)'
  BY <1>2 DEF SlotsInv, RowsAreHonest, Honest, AvailabilityDeadline, DueAt, Due
<1> QED BY <1>1, <1>2 DEF RowsAreHonest

\* A tick that holds nothing satisfies what is said of its memory.
LEMMA EmptyTick ==
    ASSUME SlotsInv, UNCHANGED <<clock, t0, slot, ledger, sent, outbox, registered,
                                 accepted, visible, done>>,
           crashes' \in Nat,
           tick'.pc \in {"idle", "slots", "repair", "publish", "nominate"},
           tick'.step \in 0 .. 11,
           tick' = [Idle EXCEPT !.step = tick'.step, !.pc = tick'.pc]
    PROVE  SlotsInv'
<1>1. TypeOK'
  BY DEF SlotsInv, TypeOK, Idle, Occurrences
<1>2. AdmissionOK' /\ LedgerOK' /\ SentOK' /\ RowsKept'
  BY DEF SlotsInv, AdmissionOK, LedgerOK, SentOK, RowsKept
<1>3. ClaimsOK' /\ CallOK' /\ ApplyOK' /\ BatchOK'
  BY DEF SlotsInv, ClaimsOK, CallOK, ApplyOK, BatchOK, Idle
<1>4. OneRowPerSlot' /\ RowsAreHonest'
  BY RowsUntouched DEF Written
<1> QED BY <1>1, <1>2, <1>3, <1>4 DEF SlotsInv

\* Writing the row of a claimed slot (terminalize_episode_slot) keeps what is
\* said of rows: the slot had none before.
LEMMA TerminalizeKeepsRows ==
    ASSUME SlotsInv, NEW s \in Slots, slot[s].state = "CLAIMED",
           NEW st \in Terminal, NEW reason \in Reasons,
           Terminalize(s, st, reason),
           UNCHANGED <<t0, ledger, sent, registered, accepted, visible, done>>
    PROVE  /\ outbox' \in SUBSET Rows
           /\ slot' \in [Slots -> [state : {"NONE", "PENDING", "CLAIMED"} \cup Terminal,
                                   intent : Occurrences]]
           /\ \A x \in Slots : slot'[x].intent = slot[x].intent
           /\ slot'[s].state = st
           /\ \A x \in Slots \ {s} : slot'[x] = slot[x]
           /\ Written' = Written \cup {Row(s, st, reason)}
           /\ \A r \in Written : r.slot # s /\ r \in Rows
           /\ AdmissionOK' /\ LedgerOK' /\ SentOK' /\ RowsKept' /\ OneRowPerSlot'
<1>1. /\ outbox' = outbox \cup {Row(s, st, reason)}
      /\ slot' = [slot EXCEPT ![s] = Slot(st, slot[s].intent)]
  BY DEF Terminalize
<1>2. slot' \in [Slots -> [state : {"NONE", "PENDING", "CLAIMED"} \cup Terminal,
                          intent : Occurrences]]
  BY <1>1 DEF SlotsInv, TypeOK, Slot
<1>3. /\ \A x \in Slots : slot'[x].intent = slot[x].intent
      /\ slot'[s].state = st
      /\ \A x \in Slots \ {s} : slot'[x] = slot[x]
  BY <1>1 DEF SlotsInv, TypeOK, Slot
<1>4. Row(s, st, reason) \in Rows /\ Row(s, st, reason).slot = s /\ Row(s, st, reason).state = st
  BY DEF Rows, Row
<1>5. outbox' \in SUBSET Rows
  BY <1>1, <1>4 DEF SlotsInv, TypeOK
<1>6. \A r \in Written : r \in Rows
  BY WrittenRows
<1>7. \A r \in Written : r.slot # s
  BY WrittenRows DEF Terminal
<1>8. Written' = Written \cup {Row(s, st, reason)}
  BY <1>1 DEF Written
<1>9. AdmissionOK'
  <2>1. t0[s[1]] # -1
    BY DEF SlotsInv, AdmissionOK, Slot
  <2>2. slot'[s].state # "NONE"
    BY <1>3 DEF Terminal
  <2> QED BY <2>1, <2>2, <1>3 DEF SlotsInv, AdmissionOK
<1>10. LedgerOK'
  BY <1>3, OccurrenceSlots DEF SlotsInv, LedgerOK
<1>11. SentOK'
  BY <1>3 DEF SlotsInv, SentOK
<1>12. RowsKept'
  <2> SUFFICES ASSUME NEW x \in Slots, slot'[x].state \in Terminal
               PROVE  \E r \in outbox' \cup UNION registered' : r.slot = x
    BY DEF RowsKept
  <2>1. CASE x = s
    BY <2>1, <1>1, <1>4
  <2>2. CASE x # s
    BY <2>2, <1>1, <1>3 DEF SlotsInv, RowsKept
  <2> QED BY <2>1, <2>2
<1>13. OneRowPerSlot'
  <2> SUFFICES ASSUME NEW r \in Written', NEW q \in Written', q.slot = r.slot
               PROVE  slot'[r.slot].state = r.state /\ q = r
    BY DEF OneRowPerSlot
  <2>1. CASE r = Row(s, st, reason)
    BY <2>1, <1>3, <1>4, <1>7, <1>8
  <2>2. CASE r \in Written
    <3>1. r.slot \in Slots \ {s}
      BY <2>2, <1>6, <1>7 DEF Rows
    <3> QED BY <2>2, <3>1, <1>3, <1>4, <1>8 DEF SlotsInv, OneRowPerSlot
  <2> QED BY <2>1, <2>2, <1>8
<1> QED BY <1>2, <1>3, <1>5, <1>6, <1>7, <1>8, <1>9, <1>10, <1>11, <1>12, <1>13

\* A call that is under way (start_call, complete_call) changes one ledger
\* entry, of slots that have no rows yet.
LEMMA LedgerKeepsRows ==
    ASSUME SlotsInv, NEW e, ledger' = [ledger EXCEPT ![tick.occ] = e],
           tick.occ # {}, \A s \in tick.occ : slot[s].state = "CLAIMED",
           \A s \in tick.occ : slot[s].intent = tick.occ,
           UNCHANGED <<t0, slot, sent, outbox, registered, accepted>>
    PROVE  OneRowPerSlot' /\ RowsAreHonest'
<1> SUFFICES ASSUME NEW r \in Written
             PROVE  ledger'[slot[r.slot].intent] = ledger[slot[r.slot].intent]
  BY RowsUntouched DEF Written
<1>1. r.slot \in Slots /\ r.slot \notin tick.occ
  BY WrittenRows DEF Terminal
<1>2. slot[r.slot].intent # tick.occ
  BY <1>1 DEF SlotsInv, LedgerOK
<1> QED BY <1>1, <1>2 DEF SlotsInv, TypeOK

-----------------------------------------------------------------------------
\* The tables are empty at first (Init).
LEMMA InitInv == Init => SlotsInv
<1> SUFFICES ASSUME Init PROVE SlotsInv
  OBVIOUS
<1> USE SlotsAssumption DEF Init, Panel!Init, Idle
<1>1. TypeOK
  BY DEF TypeOK, Slot, Entry, Occurrences
<1>2. AdmissionOK
  BY DEF AdmissionOK, Slots, Slot
<1>3. ClaimsOK /\ CallOK /\ ApplyOK /\ BatchOK
  BY DEF ClaimsOK, CallOK, ApplyOK, BatchOK
<1>4. LedgerOK /\ SentOK /\ RowsKept
  BY DEF LedgerOK, SentOK, RowsKept, Slot, Entry, Terminal
<1>5. OneRowPerSlot /\ RowsAreHonest
  BY DEF OneRowPerSlot, RowsAreHonest, Written
<1> QED BY <1>1, <1>2, <1>3, <1>4, <1>5 DEF SlotsInv

\* Claiming (process_slots) touches no slot that has a row.
LEMMA ClaimInv == SlotsInv /\ Claim => SlotsInv'
<1> SUFFICES ASSUME SlotsInv, Claim PROVE SlotsInv'
  OBVIOUS
<1>0. /\ tick.pc = "slots"
      /\ UNCHANGED <<clock, t0, ledger, sent, outbox, registered, accepted, visible, done, crashes>>
  BY DEF Claim
<1>1. /\ \A s \in Slots : slot'[s].intent = slot[s].intent
      /\ \A s \in Slots : slot'[s] = slot[s] \/ /\ slot[s].state = "PENDING"
                                                /\ slot'[s].state = "CLAIMED"
                                                /\ t0[s[1]] >= 0
      /\ slot' \in [Slots -> [state : {"NONE", "PENDING", "CLAIMED"} \cup Terminal,
                              intent : Occurrences]]
  <2>1. PICK fresh \in SUBSET Slots :
           /\ slot' = [s \in Slots |-> IF s \in fresh THEN Slot("CLAIMED", slot[s].intent) ELSE slot[s]]
           /\ \A s \in fresh : slot[s].state = "PENDING" /\ t0[s[1]] >= 0
    <3>1. {s \in Slots : slot[s].state = "PENDING" /\ Eligible(s)} \in SUBSET Slots
      OBVIOUS
    <3> QED BY <3>1 DEF Claim, Eligible
  <2>2. ASSUME NEW s \in Slots
        PROVE  /\ slot'[s].intent = slot[s].intent
               /\ slot'[s] = slot[s] \/ /\ slot[s].state = "PENDING"
                                        /\ slot'[s].state = "CLAIMED"
                                        /\ t0[s[1]] >= 0
               /\ slot'[s] \in [state : {"NONE", "PENDING", "CLAIMED"} \cup Terminal,
                                intent : Occurrences]
    <3>1. slot[s] \in [state : {"NONE", "PENDING", "CLAIMED"} \cup Terminal, intent : Occurrences]
      BY DEF SlotsInv, TypeOK
    <3>2. CASE s \in fresh
      <4>1. slot'[s] = [state |-> "CLAIMED", intent |-> slot[s].intent]
        BY <2>1, <3>2 DEF Slot
      <4> QED BY <4>1, <3>1, <3>2, <2>1
    <3>3. CASE s \notin fresh
      <4>1. slot'[s] = slot[s]
        BY <2>1, <3>3
      <4>2. slot'[s].intent = slot[s].intent
        BY <4>1
      <4>3. slot'[s] \in [state : {"NONE", "PENDING", "CLAIMED"} \cup Terminal, intent : Occurrences]
        BY <4>1, <3>1
      <4> QED BY <4>1, <4>2, <4>3
    <3> QED BY <3>2, <3>3
  <2> QED BY <2>1, <2>2
<1>2. /\ tick'.claims \in SUBSET Slots
      /\ \A s \in tick'.claims : slot'[s].state = "CLAIMED"
      /\ tick' = [tick EXCEPT !.pc = "pass", !.claims = tick'.claims]
  BY <1>1 DEF Claim, SlotsInv, TypeOK, Slot
<1>3. TypeOK'
  BY <1>0, <1>1, <1>2 DEF SlotsInv, TypeOK
<1>4. ClaimsOK'
  BY <1>0, <1>2 DEF SlotsInv, TypeOK, ClaimsOK
<1>5. CallOK' /\ ApplyOK' /\ BatchOK'
  BY <1>0, <1>2 DEF SlotsInv, TypeOK, CallOK, ApplyOK, BatchOK
<1>6. AdmissionOK'
  BY <1>0, <1>1 DEF SlotsInv, TypeOK, AdmissionOK, Slot
<1>7. LedgerOK' /\ SentOK'
  BY <1>0, <1>1, OccurrenceSlots DEF SlotsInv, LedgerOK, SentOK
<1>8. RowsKept'
  BY <1>0, <1>1 DEF SlotsInv, RowsKept, Terminal
<1>9. \A r \in Written : r.slot \in Slots /\ slot'[r.slot] = slot[r.slot]
  BY <1>1, WrittenRows DEF Terminal
<1>10. OneRowPerSlot' /\ RowsAreHonest'
  BY <1>0, <1>9, RowsUntouched DEF Written
<1> QED BY <1>3, <1>4, <1>5, <1>6, <1>7, <1>8, <1>10 DEF SlotsInv

\* What a tick holds besides its stage, and what the tables say of it, when
\* only the tick moves (process_slots between two commits).
LEMMA TablesUntouched ==
    ASSUME SlotsInv, UNCHANGED <<clock, t0, slot, ledger, sent, outbox, registered,
                                 accepted, visible, done, crashes>>
    PROVE  AdmissionOK' /\ LedgerOK' /\ SentOK' /\ RowsKept' /\ OneRowPerSlot' /\ RowsAreHonest'
<1>1. AdmissionOK' /\ LedgerOK' /\ SentOK' /\ RowsKept'
  BY DEF SlotsInv, AdmissionOK, LedgerOK, SentOK, RowsKept
<1> QED BY <1>1, RowsUntouched DEF Written

\* A claim past its deadline without an intent was never sent (process_slots).
LEMMA ExpireInv == SlotsInv /\ Expire => SlotsInv'
<1> SUFFICES ASSUME SlotsInv, Expire PROVE SlotsInv'
  OBVIOUS
<1>1. PICK s \in tick.claims : /\ slot[s].intent = {}
                               /\ Terminalize(s, "CENSORED", "NOT_EXECUTED")
                               /\ tick' = [tick EXCEPT !.claims = @ \ {s}]
  BY DEF Expire, Unrecorded
<1>2. tick.pc = "pass" /\ UNCHANGED <<clock, t0, ledger, sent, registered, accepted, visible, done, crashes>>
  BY DEF Expire
<1>3. s \in Slots /\ slot[s].state = "CLAIMED" /\ sent[s] = 0
  BY <1>1 DEF SlotsInv, TypeOK, ClaimsOK, SentOK
<1>4. /\ outbox' \in SUBSET Rows
      /\ slot' \in [Slots -> [state : {"NONE", "PENDING", "CLAIMED"} \cup Terminal,
                              intent : Occurrences]]
      /\ \A x \in Slots : slot'[x].intent = slot[x].intent
      /\ \A x \in Slots \ {s} : slot'[x] = slot[x]
      /\ Written' = Written \cup {Row(s, "CENSORED", "NOT_EXECUTED")}
      /\ \A r \in Written : r.slot # s
      /\ AdmissionOK' /\ LedgerOK' /\ SentOK' /\ RowsKept' /\ OneRowPerSlot'
  <2>1. "CENSORED" \in Terminal /\ "NOT_EXECUTED" \in Reasons
    BY DEF Terminal, Reasons
  <2> QED BY <1>1, <1>2, <1>3, <2>1, TerminalizeKeepsRows
<1>5. /\ tick'.pc = "pass" /\ tick'.todo = tick.todo /\ tick'.claims = tick.claims \ {s}
      /\ tick'.occ = tick.occ /\ tick'.batch = tick.batch
      /\ tick' = [tick EXCEPT !.claims = tick'.claims]
  BY <1>1, <1>2 DEF SlotsInv, TypeOK
<1>6. TypeOK'
  BY <1>2, <1>4, <1>5 DEF SlotsInv, TypeOK
<1>7. ClaimsOK' /\ CallOK' /\ ApplyOK' /\ BatchOK'
  <2>1. tick.todo = {} /\ tick.claims \subseteq Slots
    BY <1>2 DEF SlotsInv, ClaimsOK, TypeOK
  <2> QED BY <1>2, <1>4, <1>5, <2>1 DEF SlotsInv, ClaimsOK, CallOK, ApplyOK, BatchOK
<1>8. RowsAreHonest'
  <2>1. ASSUME NEW r \in Written, r.slot[2] # 0 PROVE Honest(r)'
    <3>1. slot'[r.slot] = slot[r.slot]
      BY <1>4, WrittenRows
    <3> QED BY <2>1, <3>1, <1>2 DEF SlotsInv, RowsAreHonest, Honest, AvailabilityDeadline, DueAt, Due
  <2>2. Honest(Row(s, "CENSORED", "NOT_EXECUTED"))'
    BY <1>2, <1>3 DEF Honest, Row
  <2> QED BY <1>4, <2>1, <2>2 DEF RowsAreHonest
<1> QED BY <1>4, <1>6, <1>7, <1>8 DEF SlotsInv

\* What is settled from the ledger is what the ledger says (_recover_recorded).
LEMMA RecoverInv == SlotsInv /\ Recover => SlotsInv'
<1> SUFFICES ASSUME SlotsInv, Recover PROVE SlotsInv'
  OBVIOUS
<1>0. PICK o \in {slot[s].intent : s \in Recorded} : \E v \in RecoveredVerdicts(o) :
         tick' = [tick EXCEPT !.pc = "apply", !.occ = o,
                              !.todo = {s \in Recorded : slot[s].intent = o},
                              !.claims = @ \ {s \in Recorded : slot[s].intent = o}, !.verdict = v]
  BY DEF Recover
<1>1. PICK v \in RecoveredVerdicts(o) :
         tick' = [tick EXCEPT !.pc = "apply", !.occ = o,
                              !.todo = {s \in Recorded : slot[s].intent = o},
                              !.claims = @ \ {s \in Recorded : slot[s].intent = o}, !.verdict = v]
  BY <1>0
<1> DEFINE mine == {s \in Recorded : slot[s].intent = o}
<1>2. tick.pc = "pass" /\ UNCHANGED <<clock, t0, slot, ledger, sent, outbox, registered,
                                      accepted, visible, done, crashes>>
  BY DEF Recover
<1>3. /\ mine \subseteq tick.claims /\ tick.claims \subseteq Slots
      /\ \A s \in mine : slot[s].intent = o
      /\ o \in Occurrences /\ o # {}
  BY DEF Recorded, SlotsInv, TypeOK
<1>4. v \in {"RESULT", "NOT_EXECUTED", "OUTCOME_UNKNOWN", "RAW_MISSING"}
  BY <1>1 DEF RecoveredVerdicts
<1>5. tick' = [tick EXCEPT !.pc = "apply", !.occ = o, !.todo = mine,
                           !.claims = @ \ mine, !.verdict = v]
  BY <1>1
<1>6. \A s \in mine : s \in o
  BY <1>3 DEF SlotsInv, LedgerOK
<1>7. \/ v = "RESULT" /\ ledger[o].status \in {"OBSERVED", "FAILED"}
      \/ v = "NOT_EXECUTED" /\ \A s \in mine : sent[s] = 0
      \/ v = "OUTCOME_UNKNOWN" /\ ledger[o].state = "STARTED"
      \/ v = "RAW_MISSING"
  <2>1. ledger[o].state \in {"NONE", "STARTED", "COMPLETED"}
        /\ ledger[o].status \in {"none", "OBSERVED", "FAILED", "NO_REQUEST"}
    BY <1>3 DEF SlotsInv, TypeOK
  <2>2. CASE ledger[o].state = "NONE"
    <3>1. v = "NOT_EXECUTED"
      BY <1>1, <2>2 DEF RecoveredVerdicts
    <3> QED BY <3>1, <2>2, <1>3 DEF SlotsInv, SentOK
  <2>3. CASE ledger[o].state = "STARTED"
    BY <1>1, <2>3 DEF RecoveredVerdicts
  <2>4. CASE ledger[o].state = "COMPLETED" /\ ledger[o].status = "NO_REQUEST"
    <3>1. v = "NOT_EXECUTED"
      BY <1>1, <2>4 DEF RecoveredVerdicts
    <3> QED BY <3>1, <2>4, <1>3, <1>6 DEF SlotsInv, SentOK
  <2>5. CASE ledger[o].state = "COMPLETED" /\ ledger[o].status # "NO_REQUEST"
    <3>1. ledger[o].status # "none"
      BY <2>5, <1>3 DEF SlotsInv, SentOK
    <3>2. v \in {"RESULT", "RAW_MISSING"}
      BY <1>1, <2>5 DEF RecoveredVerdicts
    <3> QED BY <2>1, <2>5, <3>1, <3>2
  <2> QED BY <2>1, <2>2, <2>3, <2>4, <2>5
<1> HIDE DEF mine
<1>8. TypeOK'
  BY <1>2, <1>3, <1>4, <1>5 DEF SlotsInv, TypeOK
<1>9. ClaimsOK' /\ CallOK' /\ ApplyOK' /\ BatchOK'
  <2>1. /\ tick'.pc = "apply" /\ tick'.occ = o /\ tick'.todo = mine
        /\ tick'.claims = tick.claims \ mine /\ tick'.verdict = v
    BY <1>5 DEF SlotsInv, TypeOK
  <2> QED BY <1>2, <1>3, <1>7, <2>1 DEF SlotsInv, ClaimsOK, CallOK, ApplyOK, BatchOK
<1> QED BY <1>2, <1>8, <1>9, TablesUntouched DEF SlotsInv

\* A batch takes claims that carry no intent, hence were never sent
\* (_process_batch).
LEMMA BatchInv == SlotsInv /\ Batch => SlotsInv'
<1> SUFFICES ASSUME SlotsInv, Batch PROVE SlotsInv'
  OBVIOUS
<1>1. /\ tick.pc = "pass"
      /\ tick' = [tick EXCEPT !.pc = "merge", !.occ = NextBatch, !.todo = NextBatch,
                              !.claims = @ \ NextBatch]
      /\ UNCHANGED <<clock, t0, slot, ledger, sent, outbox, registered, accepted, visible,
                     done, crashes>>
      /\ NextBatch # {}
  BY DEF Batch
<1>2. \A s \in NextBatch : s \in tick.claims /\ slot[s].intent = {}
  BY DEF NextBatch, FirstDue, Unrecorded
<1>3. \A s \in tick.claims : s \in Slots /\ slot[s].state = "CLAIMED"
  BY DEF SlotsInv, TypeOK, ClaimsOK
<1>4. NextBatch \in Occurrences
  <2>1. ASSUME NEW s \in tick.claims PROVE s \in Episodes \X Points
    <3>1. s \in Slots /\ s[2] # 0
      BY <1>3, <2>1 DEF SlotsInv, AdmissionOK
    <3> QED BY <3>1, SlotsAssumption DEF Slots, Points
  <2> QED BY <1>2, <2>1 DEF Occurrences
<1>5. \A s \in NextBatch : sent[s] = 0
  BY <1>2, <1>3 DEF SlotsInv, SentOK
<1> HIDE DEF NextBatch
<1>6. /\ tick'.pc = "merge" /\ tick'.occ = NextBatch /\ tick'.todo = NextBatch
      /\ tick'.claims = tick.claims \ NextBatch
  BY <1>1 DEF SlotsInv, TypeOK
<1>7. TypeOK'
  BY <1>1, <1>2, <1>3, <1>4 DEF SlotsInv, TypeOK
<1>8. ClaimsOK'
  BY <1>1, <1>2, <1>3, <1>6 DEF SlotsInv, ClaimsOK
<1>9. CallOK' /\ ApplyOK' /\ BatchOK'
  BY <1>1, <1>2, <1>5, <1>6 DEF SlotsInv, CallOK, ApplyOK, BatchOK
<1> QED BY <1>1, <1>7, <1>8, <1>9, TablesUntouched DEF SlotsInv

\* Recording an intent (merge_due_payload) concerns a slot without a row.
LEMMA MergeInv == SlotsInv /\ Merge => SlotsInv'
<1> SUFFICES ASSUME SlotsInv, Merge PROVE SlotsInv'
  OBVIOUS
<1>1. PICK s \in tick.todo : /\ slot' = [slot EXCEPT ![s] = Slot(slot[s].state, tick.occ)]
                             /\ Merged(tick.todo \ {s})
  BY DEF Merge
<1>2. tick.pc = "merge" /\ UNCHANGED <<clock, t0, ledger, sent, outbox, registered,
                                       accepted, visible, done, crashes>>
  BY DEF Merge
<1>3. /\ s \in Slots /\ slot[s].state = "CLAIMED" /\ s \in tick.occ /\ sent[s] = 0
      /\ slot[s].intent = {} /\ tick.occ \in Occurrences /\ tick.occ # {}
      /\ tick.todo \subseteq tick.occ
  BY <1>1, <1>2 DEF SlotsInv, TypeOK, ClaimsOK, CallOK
<1>4. /\ tick'.pc \in {"merge", "call"} /\ tick'.occ = tick.occ /\ tick'.claims = tick.claims
      /\ tick'.todo = tick.todo \ {s} /\ (tick'.pc = "call" <=> tick.todo \ {s} = {})
      /\ tick' = [tick EXCEPT !.todo = tick.todo \ {s}, !.pc = tick'.pc]
  BY <1>1 DEF SlotsInv, TypeOK, Merged
<1>5. /\ slot'[s] = Slot("CLAIMED", tick.occ)
      /\ \A x \in Slots \ {s} : slot'[x] = slot[x]
      /\ slot' \in [Slots -> [state : {"NONE", "PENDING", "CLAIMED"} \cup Terminal,
                              intent : Occurrences]]
  BY <1>1, <1>3 DEF SlotsInv, TypeOK, Slot
<1>6. slot'[s].state = "CLAIMED" /\ slot'[s].intent = tick.occ
  BY <1>5 DEF Slot
<1>7. TypeOK'
  BY <1>2, <1>3, <1>4, <1>5, ZenonT(40) DEF SlotsInv, TypeOK
<1>8. ClaimsOK'
  <2>1. \A x \in tick.claims \cup tick.todo \cup tick.occ : x \in Slots /\ slot[x].state = "CLAIMED"
    BY <1>2, <1>3, OccurrenceSlots DEF SlotsInv, TypeOK, ClaimsOK
  <2>2. \A x \in tick.claims \cup tick.todo \cup tick.occ : slot'[x].state = "CLAIMED"
    BY <2>1, <1>5, <1>6
  <2> QED BY <1>2, <1>3, <1>4, <2>2 DEF SlotsInv, ClaimsOK
<1>9. CallOK' /\ ApplyOK' /\ BatchOK'
  <2>1. ASSUME NEW x \in tick.occ
        PROVE  /\ sent'[x] = 0
               /\ slot'[x].intent = IF x \in tick'.todo THEN {} ELSE tick.occ
    BY <1>2, <1>3, <1>4, <1>5, <1>6, OccurrenceSlots DEF SlotsInv, CallOK
  <2> QED BY <1>4, <2>1, <1>2 DEF SlotsInv, CallOK, ApplyOK, BatchOK
<1>10. AdmissionOK'
  <2>1. t0[s[1]] # -1
    BY <1>3 DEF SlotsInv, AdmissionOK, Slot
  <2>2. s[2] # 0
    BY <1>3 DEF SlotsInv, AdmissionOK
  <2> SUFFICES ASSUME NEW x \in Slots
               PROVE  /\ IF t0[x[1]] = -1 THEN slot'[x] = Slot("NONE", {})
                         ELSE slot'[x].state # "NONE"
                      /\ slot'[x].state \in {"PENDING", "CLAIMED"} => x[2] # 0
    BY <1>2 DEF AdmissionOK
  <2>3. CASE x = s
    BY <2>1, <2>2, <2>3, <1>6
  <2>4. CASE x # s
    BY <2>4, <1>5 DEF SlotsInv, AdmissionOK
  <2> QED BY <2>3, <2>4
<1>11. LedgerOK'
  <2>1. ASSUME NEW o \in Occurrences, ledger[o].state # "NONE", NEW x \in o
        PROVE  slot'[x].intent = o
    <3>1. x \in Slots /\ slot[x].intent = o /\ o # {}
      BY <2>1, OccurrenceSlots DEF SlotsInv, LedgerOK
    <3> QED BY <3>1, <1>3, <1>5
  <2>2. ASSUME NEW x \in Slots, slot'[x].intent # {} PROVE x \in slot'[x].intent
    BY <2>2, <1>3, <1>5, <1>6 DEF SlotsInv, LedgerOK
  <2> QED BY <1>2, <2>1, <2>2 DEF LedgerOK
<1>12. SentOK'
  BY <1>2, <1>3, <1>5, <1>6 DEF SlotsInv, SentOK
<1>13. RowsKept'
  BY <1>2, <1>5, <1>6 DEF SlotsInv, RowsKept, Terminal
<1>14. \A r \in Written : slot'[r.slot] = slot[r.slot]
  BY <1>3, <1>5, WrittenRows DEF Terminal
<1>15. OneRowPerSlot' /\ RowsAreHonest'
  BY <1>2, <1>14, RowsUntouched DEF Written
<1> QED BY <1>7, <1>8, <1>9, <1>10, <1>11, <1>12, <1>13, <1>15 DEF SlotsInv

\* The stages of a call (_call) before its result is applied.
LEMMA CallInv ==
    SlotsInv /\ (CallRefused \/ CallStart \/ Send \/ WindowClosed \/ CallComplete) => SlotsInv'
<1> SUFFICES ASSUME SlotsInv, CallRefused \/ CallStart \/ Send \/ WindowClosed \/ CallComplete
             PROVE  SlotsInv'
  OBVIOUS
<1>1. /\ UNCHANGED <<clock, t0, slot, outbox, registered, accepted, visible, done, crashes>>
      /\ tick.pc \in {"call", "started", "sent"}
  BY DEF CallRefused, CallStart, Send, WindowClosed, CallComplete
<1>2. /\ tick.occ \in Occurrences /\ tick.occ # {} /\ tick.todo = {}
      /\ \A s \in tick.occ : /\ s \in Slots /\ s[2] # 0
                             /\ slot[s].state = "CLAIMED" /\ slot[s].intent = tick.occ
      /\ tick.claims \cap tick.occ = {} /\ tick.occ \in SUBSET Slots
  BY <1>1, OccurrenceSlots DEF SlotsInv, TypeOK, ClaimsOK, CallOK
<1>3. AdmissionOK' /\ RowsKept'
  BY <1>1 DEF SlotsInv, AdmissionOK, RowsKept
<1>4. ASSUME NEW v \in {"RESULT", "NOT_EXECUTED"}, ToApply(v)
      PROVE  /\ tick' = [tick EXCEPT !.pc = "apply", !.todo = tick.occ, !.verdict = v]
             /\ tick'.pc = "apply" /\ tick'.occ = tick.occ /\ tick'.todo = tick.occ
             /\ tick'.claims = tick.claims /\ tick'.verdict = v
             /\ ClaimsOK' /\ CallOK' /\ BatchOK'
  <2>1. /\ tick' = [tick EXCEPT !.pc = "apply", !.todo = tick.occ, !.verdict = v]
        /\ tick'.pc = "apply" /\ tick'.occ = tick.occ /\ tick'.todo = tick.occ
        /\ tick'.claims = tick.claims /\ tick'.verdict = v
    BY <1>4 DEF SlotsInv, TypeOK, ToApply
  <2>2. ClaimsOK' /\ CallOK' /\ BatchOK'
    BY <1>1, <1>2, <2>1 DEF SlotsInv, ClaimsOK, CallOK, BatchOK
  <2> QED BY <2>1, <2>2
<1>5. CASE CallRefused
  <2>1. UNCHANGED <<ledger, sent>> /\ ToApply("NOT_EXECUTED") /\ tick.pc = "call"
    BY <1>5 DEF CallRefused
  <2>2. ClaimsOK' /\ CallOK' /\ BatchOK' /\ ApplyOK'
    BY <1>1, <1>2, <1>4, <2>1 DEF SlotsInv, CallOK, ApplyOK
  <2>3. TypeOK'
    BY <1>1, <1>2, <1>4, <2>1, ZenonT(40) DEF SlotsInv, TypeOK
  <2> QED BY <1>1, <2>1, <2>2, <2>3, TablesUntouched DEF SlotsInv
<1>6. CASE CallStart
  <2>1. /\ tick.pc = "call" /\ ledger[tick.occ].state = "NONE" /\ sent' = sent
        /\ ledger' = [ledger EXCEPT ![tick.occ] = Entry("STARTED", "none", {}, 0)]
        /\ tick' = [tick EXCEPT !.pc = "started"]
    BY <1>6 DEF CallStart
  <2>2. \A s \in tick.occ : sent[s] = 0
    BY <2>1 DEF SlotsInv, CallOK
  <2>3. /\ ledger'[tick.occ].state = "STARTED" /\ ledger'[tick.occ].status = "none"
        /\ \A o \in Occurrences \ {tick.occ} : ledger'[o] = ledger[o]
    BY <2>1, <1>2 DEF SlotsInv, TypeOK, Entry
  <2>4. TypeOK'
    BY <2>1, <1>1, <1>2 DEF SlotsInv, TypeOK, Entry
  <2>5. tick'.pc = "started" /\ tick'.occ = tick.occ /\ tick'.todo = tick.todo
        /\ tick'.claims = tick.claims /\ tick'.batch = tick.batch
    BY <2>1 DEF SlotsInv, TypeOK
  <2>6. ClaimsOK' /\ CallOK' /\ ApplyOK' /\ BatchOK'
    BY <1>1, <1>2, <2>1, <2>2, <2>3, <2>5 DEF SlotsInv, ClaimsOK, CallOK, ApplyOK, BatchOK
  <2>7. LedgerOK'
    BY <1>1, <1>2, <2>3 DEF SlotsInv, LedgerOK
  <2>8. SentOK'
    <3>1. ASSUME NEW s \in Slots, sent[s] # 0
          PROVE  /\ sent[s] = 1 /\ slot[s].intent # {}
                 /\ slot[s].intent \in Occurrences \ {tick.occ}
                 /\ ledger[slot[s].intent].state # "NONE"
      <4>1. slot[s].intent \in Occurrences
        BY DEF SlotsInv, TypeOK
      <4> QED BY <3>1, <4>1, <2>1 DEF SlotsInv, SentOK
    <3>2. \A s \in Slots : sent'[s] = 0 \/ /\ sent'[s] = 1
                                           /\ slot'[s].intent # {}
                                           /\ ledger'[slot'[s].intent].state # "NONE"
      BY <3>1, <2>1, <2>3, <1>1
    <3> QED BY <3>2, <2>1, <2>3 DEF SlotsInv, SentOK
  <2>9. OneRowPerSlot' /\ RowsAreHonest'
    BY <1>1, <1>2, <2>1, LedgerKeepsRows
  <2> QED BY <1>3, <2>4, <2>6, <2>7, <2>8, <2>9 DEF SlotsInv
<1>7. CASE Send
  <2>1. /\ tick.pc = "started" /\ ledger' = ledger
        /\ sent' = [s \in Slots |-> IF s \in tick.occ THEN sent[s] + 1 ELSE sent[s]]
        /\ tick' = [tick EXCEPT !.pc = "sent"]
    BY <1>7 DEF Send
  <2>2. /\ \A s \in tick.occ : sent[s] = 0
        /\ ledger[tick.occ].state = "STARTED"
    BY <2>1 DEF SlotsInv, CallOK
  <2>3. /\ \A s \in tick.occ : sent'[s] = 1
        /\ \A s \in Slots \ tick.occ : sent'[s] = sent[s]
        /\ sent' \in [Slots -> Nat]
    BY <2>1, <2>2, <1>2 DEF SlotsInv, TypeOK
  <2>4. TypeOK'
    BY <2>1, <2>3, <1>1 DEF SlotsInv, TypeOK
  <2>5. tick'.pc = "sent" /\ tick'.occ = tick.occ /\ tick'.todo = tick.todo
        /\ tick'.claims = tick.claims /\ tick'.batch = tick.batch
    BY <2>1 DEF SlotsInv, TypeOK
  <2>6. ClaimsOK' /\ CallOK' /\ ApplyOK' /\ BatchOK'
    BY <1>1, <1>2, <2>1, <2>2, <2>5 DEF SlotsInv, ClaimsOK, CallOK, ApplyOK, BatchOK
  <2>7. LedgerOK'
    BY <1>1, <2>1 DEF SlotsInv, LedgerOK
  <2>8. SentOK'
    <3>1. \A s \in Slots : sent'[s] = 0 \/ /\ sent'[s] = 1
                                           /\ slot'[s].intent # {}
                                           /\ ledger'[slot'[s].intent].state # "NONE"
      BY <1>1, <1>2, <2>1, <2>2, <2>3 DEF SlotsInv, SentOK
    <3>2. ASSUME NEW o \in Occurrences, ledger[o].status = "NO_REQUEST", NEW s \in o
          PROVE  sent'[s] = 0
      <4>1. ledger[o].state = "COMPLETED" /\ sent[s] = 0
        BY <3>2 DEF SlotsInv, SentOK
      <4>2. s \in Slots /\ slot[s].intent = o
        BY <3>2, <4>1, OccurrenceSlots DEF SlotsInv, LedgerOK
      <4>3. s \notin tick.occ
        BY <4>1, <4>2, <1>2, <2>2
      <4> QED BY <4>1, <4>2, <4>3, <2>3
    <3> QED BY <3>1, <3>2, <2>1 DEF SlotsInv, SentOK
  <2>9. OneRowPerSlot' /\ RowsAreHonest'
    <3>1. \A r \in Written : sent'[r.slot] = sent[r.slot]
      BY <1>2, <2>3, WrittenRows DEF Terminal
    <3> QED BY <1>1, <2>1, <3>1, RowsUntouched DEF Written
  <2> QED BY <1>3, <2>4, <2>6, <2>7, <2>8, <2>9 DEF SlotsInv
<1>8. ASSUME NEW status \in {"OBSERVED", "FAILED", "NO_REQUEST"}, NEW m \in SUBSET Episodes,
             NEW at \in Nat, NEW v \in {"RESULT", "NOT_EXECUTED"}, ToApply(v), sent' = sent,
             ledger' = [ledger EXCEPT ![tick.occ] = Entry("COMPLETED", status, m, at)],
             v = "RESULT" => status \in {"OBSERVED", "FAILED"},
             v = "NOT_EXECUTED" \/ status = "NO_REQUEST" => \A s \in tick.occ : sent[s] = 0
      PROVE  SlotsInv'
  <2>1. /\ ledger'[tick.occ].state = "COMPLETED" /\ ledger'[tick.occ].status = status
        /\ \A o \in Occurrences \ {tick.occ} : ledger'[o] = ledger[o]
    BY <1>8, <1>2 DEF SlotsInv, TypeOK, Entry
  <2>2. ledger' \in [Occurrences -> [state : {"NONE", "STARTED", "COMPLETED"},
                                    status : {"none", "OBSERVED", "FAILED", "NO_REQUEST"},
                                    mints : SUBSET Episodes, at : Nat]]
    <3>1. Entry("COMPLETED", status, m, at) \in
             [state : {"NONE", "STARTED", "COMPLETED"},
              status : {"none", "OBSERVED", "FAILED", "NO_REQUEST"},
              mints : SUBSET Episodes, at : Nat]
      BY DEF Entry
    <3> QED BY <1>8, <3>1 DEF SlotsInv, TypeOK
  <2>3. TypeOK'
    <3>1. tick' = [tick EXCEPT !.pc = "apply", !.todo = tick.occ, !.verdict = v]
      BY <1>4, <1>8
    <3> QED BY <1>1, <1>2, <1>8, <2>2, <3>1 DEF SlotsInv, TypeOK
  <2>4. ClaimsOK' /\ CallOK' /\ BatchOK' /\ ApplyOK'
    BY <1>1, <1>2, <1>4, <1>8, <2>1 DEF ApplyOK
  <2>5. LedgerOK'
    BY <1>1, <1>2, <2>1 DEF SlotsInv, LedgerOK
  <2>6. SentOK'
    <3>1. \A s \in Slots : slot[s].intent \in Occurrences
      BY DEF SlotsInv, TypeOK
    <3>2. \A s \in Slots : sent'[s] = 0 \/ /\ sent'[s] = 1
                                           /\ slot'[s].intent # {}
                                           /\ ledger'[slot'[s].intent].state # "NONE"
      BY <1>1, <1>8, <2>1, <3>1 DEF SlotsInv, SentOK
    <3> QED BY <1>8, <2>1, <3>2 DEF SlotsInv, SentOK
  <2>7. OneRowPerSlot' /\ RowsAreHonest'
    BY <1>1, <1>2, <1>8, LedgerKeepsRows
  <2> QED BY <1>3, <2>3, <2>4, <2>5, <2>6, <2>7 DEF SlotsInv
<1>9. CASE WindowClosed
  <2>1. \A s \in tick.occ : sent[s] = 0
    BY <1>9 DEF WindowClosed, SlotsInv, CallOK
  <2> QED BY <1>8, <1>9, <2>1 DEF WindowClosed
<1>10. CASE CallComplete
  <2>1. ToApply("RESULT") /\ sent' = sent /\ clock \in Nat
    BY <1>10 DEF CallComplete, SlotsInv, TypeOK
  <2>2. CASE \E m \in SUBSET {s[1] : s \in tick.occ} :
                ledger' = [ledger EXCEPT ![tick.occ] = Entry("COMPLETED", "OBSERVED", m, clock)]
    <3>1. SUBSET {s[1] : s \in tick.occ} \subseteq SUBSET Episodes
      BY <1>2 DEF Slots
    <3> QED BY <1>8, <2>1, <2>2, <3>1
  <2>3. CASE ledger' = [ledger EXCEPT ![tick.occ] = Entry("COMPLETED", "FAILED", {}, clock)]
    BY <1>8, <2>1, <2>3
  <2> QED BY <1>10, <2>2, <2>3 DEF CallComplete
<1> QED BY <1>5, <1>6, <1>7, <1>9, <1>10

\* The deadline of an admitted slot is a number (resolve_point).
LEMMA DueType ==
    ASSUME TypeOK, NEW s \in Slots
    PROVE  AvailabilityDeadline(s) \in Int
<1>0. s[1] \in Episodes /\ s[2] \in 0 .. LastPoint
  BY DEF Slots
<1>1. t0[s[1]] \in Int /\ s[2] \in Int /\ Grid \in Int /\ Grid > 0 /\ Grace \in Int
  <2>1. t0[s[1]] \in Nat \cup {-1}
    BY <1>0 DEF TypeOK
  <2>2. s[2] \in Int
    BY <1>0, SlotsAssumption
  <2>3. Grid \in Int /\ Grid > 0 /\ Grace \in Int
    BY SlotsAssumption
  <2> QED BY <2>1, <2>2, <2>3
<1>2. t0[s[1]] + s[2] * Grid + Grid - 1 \in Int
  BY <1>1
<1>3. (t0[s[1]] + s[2] * Grid + Grid - 1) \div Grid \in Int
  BY <1>1, <1>2
<1> QED BY <1>1, <1>3 DEF AvailabilityDeadline, DueAt, Due

\* A row judged from the verdict (_apply_batch_result) says what the ledger
\* says.
LEMMA ApplyInv == SlotsInv /\ Apply => SlotsInv'
<1> SUFFICES ASSUME SlotsInv, Apply PROVE SlotsInv'
  OBVIOUS
<1>1. PICK s \in tick.todo :
         /\ Terminalize(s, Judge(s)[1], Judge(s)[2])
         /\ tick' = [tick EXCEPT !.todo = @ \ {s},
                                 !.pc = IF tick.todo = {s} THEN "pass" ELSE "apply"]
  BY DEF Apply
<1>2. tick.pc = "apply" /\ UNCHANGED <<clock, t0, ledger, sent, registered, accepted, visible,
                                       done, crashes>>
  BY DEF Apply
<1>3. s \in Slots /\ slot[s].state = "CLAIMED" /\ s \notin tick.claims
      /\ slot[s].intent = tick.occ /\ s[2] # 0 /\ tick.occ \in Occurrences
  BY <1>1, <1>2 DEF SlotsInv, TypeOK, ClaimsOK, ApplyOK, AdmissionOK
<1> DEFINE st == Judge(s)[1]
           reason == Judge(s)[2]
           c == ledger[tick.occ]
<1>4. /\ st \in Terminal /\ reason \in Reasons
      /\ reason = "NOT_EXECUTED" => sent[s] = 0
      /\ reason = "OUTCOME_UNKNOWN" => c.state = "STARTED"
      /\ st = "OBSERVED" <=> /\ c.status = "OBSERVED" /\ c.at <= AvailabilityDeadline(s)
                             /\ s[1] \in c.mints /\ reason = "none"
      /\ st = "DISAPPEARED" <=> /\ c.status = "OBSERVED" /\ c.at <= AvailabilityDeadline(s)
                                /\ s[1] \notin c.mints /\ reason = "none"
  <2>1. tick.verdict \in {"RESULT", "NOT_EXECUTED", "OUTCOME_UNKNOWN", "RAW_MISSING"}
    BY <1>2 DEF SlotsInv, ApplyOK
  <2>2. CASE tick.verdict # "RESULT"
    <3>1. st = "CENSORED" /\ reason = tick.verdict
      BY <2>2 DEF Judge
    <3> QED BY <1>1, <1>2, <2>1, <2>2, <3>1 DEF SlotsInv, ApplyOK, Terminal, Reasons
  <2>3. CASE tick.verdict = "RESULT"
    <3>1. c.status \in {"OBSERVED", "FAILED"}
      BY <1>2, <2>3 DEF SlotsInv, ApplyOK
    <3>2. CASE c.status = "FAILED"
      <4>1. st = "CENSORED" /\ reason = "PROVIDER"
        BY <2>3, <3>2 DEF Judge
      <4> QED BY <3>2, <4>1 DEF Terminal, Reasons
    <3>3. CASE c.status = "OBSERVED" /\ c.at > AvailabilityDeadline(s)
      <4>1. st = "CENSORED_LATE" /\ reason = "none"
        BY <2>3, <3>3 DEF Judge
      <4>2. ~(c.at <= AvailabilityDeadline(s))
        <5>1. c.at \in Nat /\ AvailabilityDeadline(s) \in Int
          BY <1>3, DueType DEF SlotsInv, TypeOK
        <5> QED BY <3>3, <5>1
      <4> QED BY <4>1, <4>2 DEF Terminal, Reasons
    <3>4. CASE c.status = "OBSERVED" /\ ~(c.at > AvailabilityDeadline(s))
      <4>1. c.at <= AvailabilityDeadline(s)
        <5>1. c.at \in Nat /\ AvailabilityDeadline(s) \in Int
          BY <1>3, DueType DEF SlotsInv, TypeOK
        <5> QED BY <3>4, <5>1
      <4>2. CASE s[1] \in c.mints
        <5>1. st = "OBSERVED" /\ reason = "none"
          BY <2>3, <3>4, <4>2 DEF Judge
        <5> QED BY <3>4, <4>1, <4>2, <5>1 DEF Terminal, Reasons
      <4>3. CASE s[1] \notin c.mints
        <5>1. st = "DISAPPEARED" /\ reason = "none"
          BY <2>3, <3>4, <4>3 DEF Judge
        <5> QED BY <3>4, <4>1, <4>3, <5>1 DEF Terminal, Reasons
      <4> QED BY <4>2, <4>3
    <3> QED BY <3>1, <3>2, <3>3, <3>4
  <2> QED BY <2>2, <2>3
<1>5. PICK z \in Terminal, w \in Reasons :
         /\ Terminalize(s, z, w)
         /\ w = "NOT_EXECUTED" => sent[s] = 0
         /\ w = "OUTCOME_UNKNOWN" => c.state = "STARTED"
         /\ z = "OBSERVED" <=> /\ c.status = "OBSERVED" /\ c.at <= AvailabilityDeadline(s)
                               /\ s[1] \in c.mints /\ w = "none"
         /\ z = "DISAPPEARED" <=> /\ c.status = "OBSERVED" /\ c.at <= AvailabilityDeadline(s)
                                  /\ s[1] \notin c.mints /\ w = "none"
  BY <1>1, <1>4
<1>6. /\ outbox' \in SUBSET Rows
      /\ slot' \in [Slots -> [state : {"NONE", "PENDING", "CLAIMED"} \cup Terminal,
                              intent : Occurrences]]
      /\ \A x \in Slots : slot'[x].intent = slot[x].intent
      /\ \A x \in Slots \ {s} : slot'[x] = slot[x]
      /\ Written' = Written \cup {Row(s, z, w)}
      /\ AdmissionOK' /\ LedgerOK' /\ SentOK' /\ RowsKept' /\ OneRowPerSlot'
      /\ \A r \in Written : r.slot # s
  BY <1>2, <1>3, <1>5, TerminalizeKeepsRows
<1>7. /\ tick'.pc \in {"pass", "apply"} /\ tick'.todo = tick.todo \ {s}
      /\ tick'.pc = "pass" => tick'.todo = {}
      /\ tick'.claims = tick.claims /\ tick'.occ = tick.occ /\ tick'.verdict = tick.verdict
      /\ tick' = [tick EXCEPT !.todo = tick.todo \ {s}, !.pc = tick'.pc]
  BY <1>1 DEF SlotsInv, TypeOK
<1>8. TypeOK'
  BY <1>2, <1>6, <1>7, ZenonT(40) DEF SlotsInv, TypeOK
<1>9. ClaimsOK'
  <2>1. \A x \in tick'.claims \cup tick'.todo :
           x \in Slots \ {s} /\ slot[x].state = "CLAIMED"
    BY <1>3, <1>7 DEF SlotsInv, TypeOK, ClaimsOK
  <2> QED BY <1>6, <1>7, <2>1 DEF SlotsInv, ClaimsOK
<1>10. CallOK' /\ BatchOK'
  BY <1>2, <1>7 DEF SlotsInv, CallOK, BatchOK
<1>11. ApplyOK'
  <2>1. \A x \in tick'.todo : x \in tick.todo /\ slot'[x].intent = tick.occ
    <3>1. \A x \in tick.todo : x \in Slots /\ slot[x].intent = tick.occ
      BY <1>2 DEF SlotsInv, TypeOK, ApplyOK
    <3> QED BY <1>6, <1>7, <3>1
  <2> QED BY <1>2, <1>7, <2>1 DEF SlotsInv, ApplyOK
<1>12. RowsAreHonest'
  <2>1. ASSUME NEW r \in Written, r.slot[2] # 0 PROVE Honest(r)'
    <3>1. slot'[r.slot] = slot[r.slot]
      BY <1>6, WrittenRows
    <3> QED BY <2>1, <3>1, <1>2 DEF SlotsInv, RowsAreHonest, Honest, AvailabilityDeadline, DueAt, Due
  <2>2. Honest(Row(s, z, w))'
    <3>1. slot'[s].intent = tick.occ
      BY <1>3, <1>6
    <3>2. /\ Row(s, z, w).slot = s /\ Row(s, z, w).state = z
          /\ Row(s, z, w).reason = w
      BY DEF Row
    <3>3. AvailabilityDeadline(s)' = AvailabilityDeadline(s)
      BY <1>2 DEF AvailabilityDeadline, DueAt, Due
    <3> QED BY <1>2, <1>5, <3>1, <3>2, <3>3 DEF Honest
  <2> QED BY <1>6, <2>1, <2>2 DEF RowsAreHonest
<1> QED BY <1>6, <1>8, <1>9, <1>10, <1>11, <1>12 DEF SlotsInv

\* Publishing (publish_outbox, repair_open_publication_jobs) moves the panel's
\* batches, never a row.
LEMMA PanelInv ==
    SlotsInv /\ (Repair \/ Publish \/ Show \/ Finish \/ Mark) => SlotsInv'
<1> SUFFICES ASSUME SlotsInv, Repair \/ Publish \/ Show \/ Finish \/ Mark PROVE SlotsInv'
  OBVIOUS
<1>1. UNCHANGED <<clock, t0, slot, ledger, sent, crashes>>
  BY DEF Repair, Publish, Show, Finish, Mark
<1>2. AdmissionOK' /\ LedgerOK' /\ SentOK'
  BY <1>1 DEF SlotsInv, AdmissionOK, LedgerOK, SentOK
<1>3. crashes \in Nat
  BY DEF SlotsInv, TypeOK
<1>4. CASE Advance /\ UNCHANGED <<outbox, registered, accepted, visible, done>>
  BY <1>1, <1>3, <1>4, AdvanceStage, EmptyTick DEF SlotsInv
<1>5. ASSUME tick.pc \in {"repair", "publish", "show", "finish"},
             UNCHANGED <<outbox, registered>>,
             NEW pc \in {"repair", "show", "finish", "mark"}, NEW batch \in SUBSET Rows,
             tick' = [tick EXCEPT !.pc = pc, !.batch = batch],
             visible \subseteq visible', done' \subseteq visible', visible' \subseteq accepted',
             accepted' = accepted \/ accepted' = accepted \cup {outbox},
             pc = "show" => batch \in accepted',
             pc \in {"finish", "mark"} => batch \in visible'
      PROVE  SlotsInv'
  <2>1. /\ tick'.pc = pc /\ tick'.batch = batch /\ tick'.claims = tick.claims
        /\ tick'.todo = tick.todo /\ tick'.occ = tick.occ
    BY <1>5 DEF SlotsInv, TypeOK
  <2>2. TypeOK'
    BY <1>1, <1>5 DEF SlotsInv, TypeOK
  <2>3. ClaimsOK' /\ CallOK' /\ ApplyOK' /\ BatchOK'
    BY <1>1, <1>5, <2>1 DEF SlotsInv, ClaimsOK, CallOK, ApplyOK, BatchOK
  <2>4. RowsKept'
    BY <1>1, <1>5 DEF SlotsInv, RowsKept
  <2>5. Written' = Written
    BY <1>5 DEF Written
  <2> QED BY <1>1, <1>2, <2>2, <2>3, <2>4, <2>5, RowsUntouched DEF SlotsInv
<1>6. /\ tick = [tick EXCEPT !.pc = tick.pc, !.batch = tick.batch]
      /\ tick.batch \in SUBSET Rows /\ outbox \in SUBSET Rows
      /\ done \subseteq visible /\ visible \subseteq accepted
  BY DEF SlotsInv, TypeOK
<1>7. CASE Repair
  <2>1. tick.pc = "repair" /\ UNCHANGED <<outbox, registered>>
    BY <1>7 DEF Repair
  <2>2. CASE accepted = done
    BY <1>4, <1>7, <2>1, <2>2 DEF Repair, panel
  <2>3. CASE accepted # done
    <3>1. tick' = tick /\ \E b \in accepted \ done : Panel!Show(b) \/ Panel!Finish(b)
      BY <1>7, <2>3 DEF Repair
    <3>2. /\ accepted' = accepted /\ visible \subseteq visible'
          /\ done' \subseteq visible' /\ visible' \subseteq accepted'
      BY <3>1, <1>6 DEF Panel!Show, Panel!Finish
    <3> QED BY <1>5, <1>6, <2>1, <3>1, <3>2
  <2> QED BY <2>2, <2>3
<1>8. CASE Publish
  <2>1. tick.pc = "publish" /\ UNCHANGED <<outbox, registered>>
    BY <1>8 DEF Publish
  <2>2. CASE outbox = {}
    <3>1. UNCHANGED <<accepted, visible, done>> /\ Advance
      BY <1>8, <2>2 DEF Publish, panel
    <3> QED BY <1>4, <2>1, <3>1
  <2>3. CASE outbox # {} /\ outbox \in done
    <3>1. /\ UNCHANGED <<accepted, visible, done>>
          /\ tick' = [tick EXCEPT !.pc = "mark", !.batch = outbox]
      BY <1>8, <2>3 DEF Publish, panel
    <3> QED BY <1>5, <1>6, <2>1, <2>3, <3>1
  <2>4. CASE outbox # {} /\ outbox \notin done
    <3>1. Panel!Accept(outbox) /\ tick' = [tick EXCEPT !.pc = "show", !.batch = outbox]
      BY <1>8, <2>4 DEF Publish
    <3>2. accepted' = accepted \cup {outbox} /\ visible' = visible /\ done' = done
      BY <3>1 DEF Panel!Accept
    <3>3. visible' \subseteq accepted' /\ outbox \in accepted'
      BY <1>6, <3>2
    <3> QED BY <1>5, <1>6, <2>1, <3>1, <3>2, <3>3
  <2> QED BY <2>2, <2>3, <2>4
<1>9. CASE Show
  <2>1. /\ tick.pc = "show" /\ UNCHANGED <<outbox, registered>>
        /\ Panel!Show(tick.batch) /\ tick' = [tick EXCEPT !.pc = "finish"]
    BY <1>9 DEF Show
  <2>2. /\ accepted' = accepted /\ visible' = visible \cup {tick.batch} /\ done' = done
        /\ tick.batch \in accepted
    BY <2>1 DEF Panel!Show
  <2>3. tick' = [tick EXCEPT !.pc = "finish", !.batch = tick.batch]
    BY <2>1 DEF SlotsInv, TypeOK
  <2>4. visible \subseteq visible' /\ done' \subseteq visible' /\ visible' \subseteq accepted'
    BY <1>6, <2>2
  <2> QED BY <1>5, <1>6, <2>1, <2>2, <2>3, <2>4
<1>10. CASE Finish
  <2>1. /\ tick.pc = "finish" /\ UNCHANGED <<outbox, registered>>
        /\ Panel!Finish(tick.batch) /\ tick' = [tick EXCEPT !.pc = "mark"]
    BY <1>10 DEF Finish
  <2>2. /\ accepted' = accepted /\ visible' = visible /\ done' = done \cup {tick.batch}
        /\ tick.batch \in visible
    BY <2>1 DEF Panel!Finish
  <2>3. tick' = [tick EXCEPT !.pc = "mark", !.batch = tick.batch]
    BY <2>1 DEF SlotsInv, TypeOK
  <2>4. visible \subseteq visible' /\ done' \subseteq visible' /\ visible' \subseteq accepted'
    BY <1>6, <2>2
  <2> QED BY <1>5, <1>6, <2>1, <2>2, <2>3, <2>4
<1>11. CASE Mark
  <2>1. /\ tick.pc = "mark" /\ Advance /\ UNCHANGED <<accepted, visible, done>>
        /\ registered' = registered \cup {tick.batch} /\ outbox' = outbox \ tick.batch
    BY <1>11 DEF Mark
  <2>2. tick.batch \in visible /\ tick.batch \in accepted
    BY <1>6, <2>1 DEF SlotsInv, BatchOK
  <2>3. /\ tick'.pc \in {"idle", "slots", "repair", "publish", "nominate"}
        /\ tick'.step \in 0 .. 11
        /\ tick' = [Idle EXCEPT !.step = tick'.step, !.pc = tick'.pc]
    BY <2>1, AdvanceStage DEF SlotsInv
  <2>4. TypeOK'
    <3>1. tick' \in [step : 0 .. 11,
                 pc : {"idle", "slots", "repair", "nominate", "publish", "pass", "merge",
                       "call", "started", "sent", "apply", "show", "finish", "mark"},
                 claims : SUBSET Slots, occ : Occurrences, todo : SUBSET Slots,
                 verdict : {"none", "RESULT", "NOT_EXECUTED", "OUTCOME_UNKNOWN", "RAW_MISSING"},
                 batch : SUBSET Rows]
      BY <2>3 DEF Idle, Occurrences
    <3>2. outbox' \in SUBSET Rows /\ \A b \in registered' \cup accepted' : b \in SUBSET Rows
      BY <2>1, <2>2 DEF SlotsInv, TypeOK
    <3> QED BY <1>1, <2>1, <3>1, <3>2 DEF SlotsInv, TypeOK
  <2>5. ClaimsOK' /\ CallOK' /\ ApplyOK'
    BY <2>3 DEF ClaimsOK, CallOK, ApplyOK, Idle
  <2>6. BatchOK'
    BY <2>1, <2>2, <2>3 DEF SlotsInv, BatchOK
  <2>7. RowsKept'
    <3>1. outbox \cup UNION registered \subseteq outbox' \cup UNION registered'
      BY <2>1
    <3> QED BY <1>1, <3>1 DEF SlotsInv, RowsKept
  <2>8. Written' \subseteq Written
    BY <2>1, <2>2 DEF Written
  <2>9. OneRowPerSlot'
    BY <1>1, <2>8 DEF SlotsInv, OneRowPerSlot
  <2>10. RowsAreHonest'
    <3>1. ASSUME NEW r \in Written', r.slot[2] # 0 PROVE Honest(r)'
      BY <1>1, <2>8, <3>1 DEF SlotsInv, RowsAreHonest, Honest, AvailabilityDeadline, DueAt, Due
    <3> QED BY <3>1 DEF RowsAreHonest
  <2> QED BY <1>2, <2>4, <2>5, <2>6, <2>7, <2>9, <2>10 DEF SlotsInv
<1> QED BY <1>7, <1>8, <1>9, <1>10, <1>11

\* An admission (commit_episode_admission) brings its slots and the witness
\* row; no slot of the episode had a row or a call.
LEMMA AdmitInv == ASSUME NEW e \in Episodes PROVE SlotsInv /\ Admit(e) => SlotsInv'
<1> SUFFICES ASSUME SlotsInv, Admit(e) PROVE SlotsInv'
  OBVIOUS
<1>1. /\ tick.pc = "nominate" /\ t0[e] = -1
      /\ t0' = [t0 EXCEPT ![e] = clock]
      /\ slot' = [s \in Slots |-> IF s[1] # e THEN slot[s]
                                  ELSE Slot(IF s[2] = 0 THEN "OBSERVED" ELSE "PENDING", {})]
      /\ outbox' = outbox \cup {Row(<<e, 0>>, "OBSERVED", "none")}
      /\ UNCHANGED <<clock, ledger, sent, registered, accepted, visible, done, tick, crashes>>
  BY DEF Admit
<1>2. clock \in Nat /\ t0 \in [Episodes -> Nat \cup {-1}]
  BY DEF SlotsInv, TypeOK
<1>3. t0'[e] = clock /\ \A x \in Episodes \ {e} : t0'[x] = t0[x]
  BY <1>1, <1>2
<1>4. ASSUME NEW s \in Slots, s[1] # e
      PROVE  slot'[s] = slot[s] /\ t0'[s[1]] = t0[s[1]]
  BY <1>1, <1>3, <1>4 DEF Slots
<1>5. ASSUME NEW s \in Slots, s[1] = e
      PROVE  /\ slot'[s] \in [state : {"OBSERVED", "PENDING"}, intent : {{}}]
             /\ slot'[s].state = IF s[2] = 0 THEN "OBSERVED" ELSE "PENDING"
             /\ slot'[s].intent = {}
             /\ slot[s].state = "NONE" /\ slot[s].intent = {} /\ t0'[s[1]] # -1
  <2>1. slot'[s] = [state |-> IF s[2] = 0 THEN "OBSERVED" ELSE "PENDING", intent |-> {}]
    BY <1>1, <1>5 DEF Slot
  <2>2. slot[s] = Slot("NONE", {})
    BY <1>1, <1>5 DEF SlotsInv, AdmissionOK
  <2> QED BY <1>2, <1>3, <1>5, <2>1, <2>2 DEF Slot
<1>6. ASSUME NEW s \in Slots PROVE slot'[s].intent = slot[s].intent
  <2>1. CASE s[1] # e
    BY <1>4, <2>1
  <2>2. CASE s[1] = e
    <3>1. slot'[s].intent = {}
      BY <1>5, <2>2
    <3> QED BY <1>5, <2>2, <3>1
  <2> QED BY <2>1, <2>2
<1>7. <<e, 0>> \in Slots
  BY SlotsAssumption DEF Slots
<1>8. /\ Row(<<e, 0>>, "OBSERVED", "none") \in Rows
      /\ Row(<<e, 0>>, "OBSERVED", "none").slot = <<e, 0>>
      /\ Row(<<e, 0>>, "OBSERVED", "none").state = "OBSERVED"
  BY <1>7 DEF Row, Rows, Terminal, Reasons
<1>9. TypeOK'
  <2>1. ASSUME NEW s \in Slots
        PROVE  slot'[s] \in [state : {"NONE", "PENDING", "CLAIMED"} \cup Terminal,
                             intent : Occurrences]
    <3>1. CASE s[1] # e
      BY <1>4, <3>1 DEF SlotsInv, TypeOK
    <3>2. CASE s[1] = e
      <4>1. slot'[s] \in [state : {"OBSERVED", "PENDING"}, intent : {{}}]
        BY <1>5, <3>2
      <4> QED BY <4>1 DEF Terminal, Occurrences
    <3> QED BY <3>1, <3>2
  <2>2. slot' \in [Slots -> [state : {"NONE", "PENDING", "CLAIMED"} \cup Terminal,
                            intent : Occurrences]]
    BY <1>1, <2>1
  <2>3. t0' \in [Episodes -> Nat \cup {-1}] /\ outbox' \in SUBSET Rows
    BY <1>1, <1>2, <1>8 DEF SlotsInv, TypeOK
  <2> QED BY <1>1, <2>2, <2>3 DEF SlotsInv, TypeOK
<1>10. AdmissionOK'
  <2> SUFFICES ASSUME NEW s \in Slots
               PROVE  /\ IF t0'[s[1]] = -1 THEN slot'[s] = Slot("NONE", {})
                         ELSE slot'[s].state # "NONE"
                      /\ slot'[s].state \in {"PENDING", "CLAIMED"} => s[2] # 0
    BY DEF AdmissionOK
  <2>1. CASE s[1] # e
    BY <1>4, <2>1 DEF SlotsInv, AdmissionOK
  <2>2. CASE s[1] = e
    <3>1. slot'[s].state = IF s[2] = 0 THEN "OBSERVED" ELSE "PENDING"
      BY <1>5, <2>2
    <3> QED BY <1>5, <2>2, <3>1
  <2> QED BY <2>1, <2>2
<1>11. ClaimsOK'
  <2>1. tick.todo = {}
    BY <1>1 DEF SlotsInv, ClaimsOK
  <2>2. \A s \in tick.claims : s \in Slots /\ slot[s].state = "CLAIMED"
    BY DEF SlotsInv, TypeOK, ClaimsOK
  <2>3. \A s \in tick.claims : slot'[s] = slot[s]
    BY <1>4, <1>5, <2>2
  <2> QED BY <1>1, <2>1, <2>2, <2>3 DEF SlotsInv, ClaimsOK
<1>12. CallOK' /\ ApplyOK' /\ BatchOK'
  BY <1>1 DEF SlotsInv, CallOK, ApplyOK, BatchOK
<1>13. LedgerOK'
  BY <1>1, <1>6, OccurrenceSlots DEF SlotsInv, LedgerOK
<1>14. SentOK'
  BY <1>1, <1>6 DEF SlotsInv, SentOK
<1>15. RowsKept'
  <2> SUFFICES ASSUME NEW s \in Slots, slot'[s].state \in Terminal
               PROVE  \E r \in outbox' \cup UNION registered' : r.slot = s
    BY DEF RowsKept
  <2>1. CASE s[1] # e
    <3>1. PICK r \in outbox \cup UNION registered : r.slot = s
      BY <1>4, <2>1 DEF SlotsInv, RowsKept
    <3> QED BY <1>1, <3>1
  <2>2. CASE s[1] = e
    <3>1. slot'[s].state = IF s[2] = 0 THEN "OBSERVED" ELSE "PENDING"
      BY <1>5, <2>2
    <3>2. s = <<e, 0>>
      BY <2>2, <3>1 DEF Terminal, Slots
    <3> QED BY <1>1, <1>8, <3>2
  <2> QED BY <2>1, <2>2
<1>16. Written' = Written \cup {Row(<<e, 0>>, "OBSERVED", "none")}
  BY <1>1 DEF Written
<1>17. \A r \in Written : r.slot \in Slots /\ r.slot[1] # e
  <2>1. ASSUME NEW r \in Written PROVE r.slot \in Slots /\ r.slot[1] # e
    <3>1. r.slot \in Slots /\ slot[r.slot].state \in Terminal
      BY WrittenRows
    <3>2. slot[r.slot].state # "NONE"
      BY <3>1 DEF Terminal
    <3> QED BY <3>1, <3>2, <1>5
  <2> QED BY <2>1
<1>18. slot'[<<e, 0>>].state = "OBSERVED"
  BY <1>5, <1>7
<1>19. OneRowPerSlot'
  <2> SUFFICES ASSUME NEW r \in Written', NEW q \in Written', q.slot = r.slot
               PROVE  slot'[r.slot].state = r.state /\ q = r
    BY DEF OneRowPerSlot
  <2>1. CASE r = Row(<<e, 0>>, "OBSERVED", "none")
    BY <2>1, <1>8, <1>16, <1>17, <1>18
  <2>2. CASE r \in Written
    <3>1. q \in Written
      BY <2>2, <1>8, <1>16, <1>17
    <3> QED BY <2>2, <3>1, <1>4, <1>17 DEF SlotsInv, OneRowPerSlot
  <2> QED BY <2>1, <2>2, <1>16
<1>20. RowsAreHonest'
  <2>1. ASSUME NEW r \in Written, r.slot[2] # 0 PROVE Honest(r)'
    <3>1. slot'[r.slot] = slot[r.slot] /\ t0'[r.slot[1]] = t0[r.slot[1]]
      BY <1>4, <1>17
    <3>2. AvailabilityDeadline(r.slot)' = AvailabilityDeadline(r.slot)
      BY ONLY <3>1, Zenon DEF AvailabilityDeadline, DueAt, Due
    <3>3. Honest(r)
      BY <2>1 DEF SlotsInv, RowsAreHonest
    <3>4. ledger' = ledger /\ sent' = sent
      BY <1>1
    <3> QED
      BY ONLY <3>1, <3>2, <3>3, <3>4, Zenon DEF Honest
  <2> QED BY <1>8, <1>16, <2>1 DEF RowsAreHonest
<1> QED BY <1>9, <1>10, <1>11, <1>12, <1>13, <1>14, <1>15, <1>19, <1>20 DEF SlotsInv

\* Every step keeps the invariant.
LEMMA NextInv == SlotsInv /\ [Next]_vars => SlotsInv'
<1> SUFFICES ASSUME SlotsInv, [Next]_vars PROVE SlotsInv'
  OBVIOUS
<1>1. crashes \in Nat
  BY DEF SlotsInv, TypeOK
<1>2. CASE TickStart
  <2>1. tick' = [Idle EXCEPT !.step = 1, !.pc = "slots"]
    BY <1>2 DEF TickStart, Program
  <2>2. /\ tick'.pc = "slots" /\ tick'.step \in 0 .. 11
        /\ tick' = [Idle EXCEPT !.step = tick'.step, !.pc = tick'.pc]
    BY <2>1 DEF Idle
  <2> QED BY <1>1, <1>2, <2>2, EmptyTick DEF TickStart
<1>3. CASE PassDone \/ NominateDone
  BY <1>1, <1>3, AdvanceStage, EmptyTick DEF PassDone, NominateDone, SlotsInv
<1>4. CASE Crash
  <2>1. tick' = Idle
    BY <1>4 DEF Crash
  <2>2. Idle = [Idle EXCEPT !.step = Idle.step, !.pc = Idle.pc]
    BY DEF Idle
  <2>3. /\ tick'.pc = "idle" /\ tick'.step \in 0 .. 11
        /\ tick' = [Idle EXCEPT !.step = tick'.step, !.pc = tick'.pc]
    BY <2>1, <2>2 DEF Idle
  <2> QED BY <1>1, <1>4, <2>3, EmptyTick DEF Crash
<1>5. CASE Pass
  <2>1. TypeOK'
    BY <1>5 DEF Pass, SlotsInv, TypeOK
  <2>2. /\ AdmissionOK' /\ ClaimsOK' /\ LedgerOK' /\ SentOK' /\ CallOK' /\ ApplyOK'
        /\ RowsKept' /\ BatchOK'
    BY <1>5 DEF Pass, SlotsInv, AdmissionOK, ClaimsOK, LedgerOK, SentOK, CallOK, ApplyOK,
                RowsKept, BatchOK
  <2> QED BY <1>5, <2>1, <2>2, RowsUntouched DEF Pass, Written, SlotsInv
<1>6. CASE UNCHANGED vars
  <2>1. TypeOK'
    BY <1>6 DEF vars, SlotsInv, TypeOK
  <2>2. /\ AdmissionOK' /\ ClaimsOK' /\ LedgerOK' /\ SentOK' /\ CallOK' /\ ApplyOK'
        /\ RowsKept' /\ BatchOK'
    BY <1>6 DEF vars, SlotsInv, AdmissionOK, ClaimsOK, LedgerOK, SentOK, CallOK, ApplyOK,
                RowsKept, BatchOK
  <2> QED BY <1>6, <2>1, <2>2, RowsUntouched DEF vars, Written, SlotsInv
<1> QED BY <1>2, <1>3, <1>4, <1>5, <1>6, ClaimInv, ExpireInv, RecoverInv, BatchInv, MergeInv,
           CallInv, ApplyInv, PanelInv, AdmitInv DEF Next, TickStep

\* Every reachable state satisfies the inductive invariant.
LEMMA Invariance == Spec => []SlotsInv
BY InitInv, NextInv, PTL DEF Spec

-----------------------------------------------------------------------------
\* The types of the tables and of the tick.
THEOREM TypeCorrect == Spec => []TypeOK
<1>1. SlotsInv => TypeOK
  BY DEF SlotsInv
<1> QED BY <1>1, Invariance, PTL

\* However often ticks die, no slot is requested twice (process_slots).
THEOREM NoSecondRequest == Spec => []OneRequestPerSlot
<1>1. SlotsInv => OneRequestPerSlot
  BY DEF SlotsInv, SentOK, OneRequestPerSlot
<1> QED BY <1>1, Invariance, PTL

\* All copies of a slot's row agree, in the outbox and in any batch
\* (terminalize_episode_slot, publish_outbox).
THEOREM CopiesAgree == Spec => []OneRowPerSlot
<1>1. SlotsInv => OneRowPerSlot
  BY DEF SlotsInv
<1> QED BY <1>1, Invariance, PTL

\* Rows say what happened to their request (_recover_recorded,
\* _apply_batch_result).
THEOREM RowsSayWhatHappened == Spec => []RowsAreHonest
<1>1. SlotsInv => RowsAreHonest
  BY DEF SlotsInv
<1> QED BY <1>1, Invariance, PTL

\* A mature cohort has every slot in a registered, visible batch
\* (_cohort_status, build_episode_source).
THEOREM MatureIsComplete == Spec => []MatureIsPublished
<1>1. SlotsInv => MatureIsPublished
  <2> SUFFICES ASSUME SlotsInv, Mature, NEW s \in Slots, t0[s[1]] >= 0
               PROVE  \E b \in registered \cap visible : \E r \in b : r.slot = s
    BY DEF MatureIsPublished
  <2>1. slot[s].state \notin {"NONE", "PENDING", "CLAIMED"}
    BY DEF Mature, SlotsInv, AdmissionOK
  <2>2. slot[s].state \in Terminal
    BY <2>1 DEF SlotsInv, TypeOK
  <2>3. PICK r \in outbox \cup UNION registered : r.slot = s
    BY <2>2 DEF SlotsInv, RowsKept
  <2>4. r \in UNION registered
    BY <2>3 DEF Mature
  <2> QED BY <2>3, <2>4 DEF SlotsInv, BatchOK
<1> QED BY <1>1, Invariance, PTL
=============================================================================
