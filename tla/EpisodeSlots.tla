---------------------------- MODULE EpisodeSlots ----------------------------
(***************************************************************************)
(* Slots of admitted opportunity episodes, from claim to publication       *)
(* (opportunity_episode_tick.py, the due, call and outbox tables of        *)
(* observation_schedule_store.py).  A claimed slot records the call it is  *)
(* part of before the call is made; a tick that finds such an intent       *)
(* settles it from the call ledger and never asks again.  The terminal     *)
(* state of a slot and its outbox row are one transaction; the outbox is   *)
(* published as a panel batch (PanelBatches) and then marked, which        *)
(* deletes its rows.  A cohort is released when nothing of it is open.     *)
(*                                                                         *)
(* One activation and one cohort; ticks are serial (the writer lease).     *)
(* Episodes are numbered in mint order.  A slot is an episode and a point; *)
(* point 0 is the witness, terminal from its admission on.                 *)
(***************************************************************************)
EXTENDS Integers, FiniteSets, Sequences

CONSTANTS
    Episodes,    \* a set of naturals: the order of their mints
    LastPoint,   \* points 1 .. LastPoint are slots to request
    Grid,        \* the grid of due times, and the distance of two points
    Window,      \* dispatch_window_seconds
    Grace,       \* availability_grace_seconds
    BatchSize,   \* max_batch_size
    StopsAt,     \* stops_admitting_at
    MayLoseRaw,  \* whether a stored body may be missing at recovery
    MaxTime, MaxCrashes  \* bounds

ASSUME SlotsAssumption ==
    /\ Episodes \subseteq Nat /\ IsFiniteSet(Episodes)
    /\ LastPoint \in Nat
    /\ Grid \in Nat \ {0} /\ Window \in Nat /\ Grace \in Nat
    /\ BatchSize \in Nat \ {0} /\ StopsAt \in Nat
    /\ MayLoseRaw \in BOOLEAN
    /\ MaxTime \in Nat /\ MaxCrashes \in Nat

Points == 1 .. LastPoint
Slots == Episodes \X (0 .. LastPoint)
Occurrences == SUBSET (Episodes \X Points) \* a call is identified by the slots it is made for
Terminal == {"OBSERVED", "DISAPPEARED", "CENSORED", "CENSORED_LATE"}
Reasons == {"none", "NOT_EXECUTED", "OUTCOME_UNKNOWN", "PROVIDER", "RAW_MISSING"}
Rows == [slot : Slots, state : Terminal, reason : Reasons]

VARIABLES
    clock,
    t0,          \* admission instants, -1 before
    slot,        \* due_observations: state, and the recorded call
    ledger,      \* call_ledger
    sent,        \* requests made that carried the slot
    outbox,      \* episode_outbox
    registered,  \* episode_publications
    accepted, visible, done,  \* the panel's batches (PanelBatches)
    tick,
    crashes

vars == <<clock, t0, slot, ledger, sent, outbox, registered, accepted, visible,
          done, tick, crashes>>

Panel == INSTANCE PanelBatches WITH Batches <- SUBSET Rows
panel == <<accepted, visible, done>>

Due(e, p) == Grid * ((t0[e] + p * Grid + Grid - 1) \div Grid)
DueAt(s) == Due(s[1], s[2])
DispatchDeadline(s) == DueAt(s) + Window
AvailabilityDeadline(s) == DueAt(s) + Grace

\* intent = {}: no call is recorded for the slot.
Slot(st, intent) == [state |-> st, intent |-> intent]
Entry(st, status, mints, at) == [state |-> st, status |-> status, mints |-> mints, at |-> at]
Row(s, st, reason) == [slot |-> s, state |-> st, reason |-> reason]

\* What run does in order; recover_unresolved_rounds is left out, and the
\* passes between a round's sources count as the ones before the round.
Program == <<"slots", "repair", "slots", "publish", "slots", "slots", "nominate",
             "slots", "publish", "slots", "publish">>

Idle == [step |-> 0, pc |-> "idle", claims |-> {}, occ |-> {}, todo |-> {},
         verdict |-> "none", batch |-> {}]

Init ==
    /\ clock = 0
    /\ t0 = [e \in Episodes |-> -1]
    /\ slot = [s \in Slots |-> Slot("NONE", {})]
    /\ ledger = [o \in Occurrences |-> Entry("NONE", "none", {}, 0)]
    /\ sent = [s \in Slots |-> 0]
    /\ outbox = {} /\ registered = {}
    /\ Panel!Init
    /\ tick = Idle
    /\ crashes = 0

-----------------------------------------------------------------------------
(* The tick.                                                               *)

TickStart ==
    /\ tick.pc = "idle"
    /\ tick' = [Idle EXCEPT !.step = 1, !.pc = Program[1]]
    /\ UNCHANGED <<clock, t0, slot, ledger, sent, outbox, registered, accepted, visible,
                   done, crashes>>

Advance == tick' = IF tick.step = Len(Program) THEN Idle
                   ELSE [Idle EXCEPT !.step = tick.step + 1, !.pc = Program[tick.step + 1]]

Eligible(s) == t0[s[1]] >= 0 /\ s[2] # 0 /\ DueAt(s) <= clock

\* Mutant: a pass takes up new slots only.
ClaimNew ==
    LET new == {s \in Slots : slot[s].state = "PENDING" /\ Eligible(s)}
    IN  /\ tick.pc = "slots"
        /\ slot' = [s \in Slots |-> IF s \in new THEN Slot("CLAIMED", slot[s].intent) ELSE slot[s]]
        /\ tick' = [tick EXCEPT !.pc = "pass", !.claims = new]
        /\ UNCHANGED <<clock, t0, ledger, sent, outbox, registered, accepted, visible,
                       done, crashes>>

\* process_slots: what an earlier pass left CLAIMED, and what claim_due
\* claims in one transaction.
Claim ==
    LET new == {s \in Slots : slot[s].state = "PENDING" /\ Eligible(s)}
        old == {s \in Slots : slot[s].state = "CLAIMED"}
    IN  /\ tick.pc = "slots"
        /\ slot' = [s \in Slots |-> IF s \in new THEN Slot("CLAIMED", slot[s].intent) ELSE slot[s]]
        /\ tick' = [tick EXCEPT !.pc = "pass", !.claims = old \cup new]
        /\ UNCHANGED <<clock, t0, ledger, sent, outbox, registered, accepted, visible,
                       done, crashes>>

\* Mutant: row and state are two commits, and the tick may die in between.
TerminalizeTwice(s, st, reason) ==
    /\ slot' \in {slot, [slot EXCEPT ![s] = Slot(st, slot[s].intent)]}
    /\ outbox' = outbox \cup {Row(s, st, reason)}

\* terminalize_episode_slot
Terminalize(s, st, reason) ==
    /\ slot' = [slot EXCEPT ![s] = Slot(st, slot[s].intent)]
    /\ outbox' = outbox \cup {Row(s, st, reason)}

Recorded == {s \in tick.claims : slot[s].intent # {}}
Unrecorded == {s \in tick.claims : slot[s].intent = {}}

\* A claim without an intent past its deadline was never executed; checked
\* for each claim before the batches and again at its batch.
Expire ==
    /\ tick.pc = "pass"
    /\ \E s \in Unrecorded :
          /\ clock >= DispatchDeadline(s)
          /\ Terminalize(s, "CENSORED", "NOT_EXECUTED")
          /\ tick' = [tick EXCEPT !.claims = @ \ {s}]
    /\ UNCHANGED <<clock, t0, ledger, sent, registered, accepted, visible, done, crashes>>

\* Mutant: a call without a result was never made.
RecoveredVerdictsLax(o) ==
    IF ledger[o].state = "COMPLETED" /\ ledger[o].status # "NO_REQUEST"
    THEN {"RESULT"} ELSE {"NOT_EXECUTED"}

\* _recover_recorded
RecoveredVerdicts(o) ==
    IF ledger[o].state = "NONE" THEN {"NOT_EXECUTED"}
    ELSE IF ledger[o].state = "STARTED" THEN {"OUTCOME_UNKNOWN"}
    ELSE IF ledger[o].status = "NO_REQUEST" THEN {"NOT_EXECUTED"}
    ELSE IF ledger[o].status = "OBSERVED" /\ MayLoseRaw THEN {"RESULT", "RAW_MISSING"}
    ELSE {"RESULT"}

\* The claims of one recorded call are settled from its ledger entry.
Recover ==
    /\ tick.pc = "pass"
    /\ \E o \in {slot[s].intent : s \in Recorded} :
          \E v \in RecoveredVerdicts(o) :
             LET mine == {s \in Recorded : slot[s].intent = o}
             IN  tick' = [tick EXCEPT !.pc = "apply", !.occ = o, !.todo = mine,
                                      !.claims = @ \ mine, !.verdict = v]
    /\ UNCHANGED <<clock, t0, slot, ledger, sent, outbox, registered, accepted, visible,
                   done, crashes>>

\* The first BatchSize claims of the earliest due time, by mint.
FirstDue == {s \in Unrecorded : \A r \in Unrecorded : DueAt(s) <= DueAt(r)}
NextBatch == {s \in FirstDue : Cardinality({r \in FirstDue : r[1] < s[1]}) < BatchSize}

\* _process_batch, after the recorded calls
Batch ==
    /\ tick.pc = "pass"
    /\ Recorded = {} /\ NextBatch # {}
    /\ \A s \in NextBatch : clock < DispatchDeadline(s)
    /\ tick' = [tick EXCEPT !.pc = "merge", !.occ = NextBatch, !.todo = NextBatch,
                            !.claims = @ \ NextBatch]
    /\ UNCHANGED <<clock, t0, slot, ledger, sent, outbox, registered, accepted, visible,
                   done, crashes>>

Merged(todo) == tick' = [tick EXCEPT !.todo = todo, !.pc = IF todo = {} THEN "call" ELSE "merge"]

\* Mutant: no intent is recorded before the call.
MergeNothing ==
    /\ tick.pc = "merge"
    /\ \E s \in tick.todo : slot' = slot /\ Merged(tick.todo \ {s})
    /\ UNCHANGED <<clock, t0, ledger, sent, outbox, registered, accepted, visible,
                   done, crashes>>

\* merge_due_payload: the intents of a batch are one commit each.
Merge ==
    /\ tick.pc = "merge"
    /\ \E s \in tick.todo :
          /\ slot' = [slot EXCEPT ![s] = Slot(slot[s].state, tick.occ)]
          /\ Merged(tick.todo \ {s})
    /\ UNCHANGED <<clock, t0, ledger, sent, outbox, registered, accepted, visible,
                   done, crashes>>

ToApply(v) == tick' = [tick EXCEPT !.pc = "apply", !.todo = tick.occ, !.verdict = v]

\* _call: pace, budget or a closed window refuse the call before STARTED.
CallRefused ==
    /\ tick.pc = "call"
    /\ ToApply("NOT_EXECUTED")
    /\ UNCHANGED <<clock, t0, slot, ledger, sent, outbox, registered, accepted, visible,
                   done, crashes>>

InWindow == \A s \in tick.occ : clock < DispatchDeadline(s)

\* start_call
CallStart ==
    /\ tick.pc = "call" /\ InWindow
    /\ ledger[tick.occ].state = "NONE"
    /\ ledger' = [ledger EXCEPT ![tick.occ] = Entry("STARTED", "none", {}, 0)]
    /\ tick' = [tick EXCEPT !.pc = "started"]
    /\ UNCHANGED <<clock, t0, slot, sent, outbox, registered, accepted, visible, done, crashes>>

\* The send guard looks at the clock once more: the request leaves inside the
\* window,
Send ==
    /\ tick.pc = "started" /\ InWindow
    /\ sent' = [s \in Slots |-> IF s \in tick.occ THEN sent[s] + 1 ELSE sent[s]]
    /\ tick' = [tick EXCEPT !.pc = "sent"]
    /\ UNCHANGED <<clock, t0, slot, ledger, outbox, registered, accepted, visible, done, crashes>>

\* or it does not leave, and the ledger says so.
WindowClosed ==
    /\ tick.pc = "started" /\ ~InWindow
    /\ ledger' = [ledger EXCEPT ![tick.occ] = Entry("COMPLETED", "NO_REQUEST", {}, 0)]
    /\ ToApply("NOT_EXECUTED")
    /\ UNCHANGED <<clock, t0, slot, sent, outbox, registered, accepted, visible, done, crashes>>

\* complete_call: an answer that lists some of the mints, or a failure
CallComplete ==
    /\ tick.pc = "sent"
    /\ \/ \E m \in SUBSET {s[1] : s \in tick.occ} :
             ledger' = [ledger EXCEPT ![tick.occ] = Entry("COMPLETED", "OBSERVED", m, clock)]
       \/ ledger' = [ledger EXCEPT ![tick.occ] = Entry("COMPLETED", "FAILED", {}, clock)]
    /\ ToApply("RESULT")
    /\ UNCHANGED <<clock, t0, slot, sent, outbox, registered, accepted, visible, done, crashes>>

\* Mutant: an answer is as old as the pass that applies it.
JudgeNow(s) ==
    LET c == ledger[tick.occ]
    IN  IF tick.verdict # "RESULT" THEN <<"CENSORED", tick.verdict>>
        ELSE IF c.status = "FAILED" THEN <<"CENSORED", "PROVIDER">>
        ELSE IF clock > AvailabilityDeadline(s) THEN <<"CENSORED_LATE", "none">>
        ELSE IF s[1] \notin c.mints THEN <<"DISAPPEARED", "none">>
        ELSE <<"OBSERVED", "none">>

\* _apply_batch_result for one claim
Judge(s) ==
    LET c == ledger[tick.occ]
    IN  IF tick.verdict # "RESULT" THEN <<"CENSORED", tick.verdict>>
        ELSE IF c.status = "FAILED" THEN <<"CENSORED", "PROVIDER">>
        ELSE IF c.at > AvailabilityDeadline(s) THEN <<"CENSORED_LATE", "none">>
        ELSE IF s[1] \notin c.mints THEN <<"DISAPPEARED", "none">>
        ELSE <<"OBSERVED", "none">>

\* Its loop: one transaction per claim.
Apply ==
    /\ tick.pc = "apply"
    /\ \E s \in tick.todo :
          /\ Terminalize(s, Judge(s)[1], Judge(s)[2])
          /\ tick' = [tick EXCEPT !.todo = @ \ {s},
                                   !.pc = IF tick.todo = {s} THEN "pass" ELSE "apply"]
    /\ UNCHANGED <<clock, t0, ledger, sent, registered, accepted, visible, done, crashes>>

PassDone ==
    /\ tick.pc = "pass" /\ tick.claims = {}
    /\ Advance
    /\ UNCHANGED <<clock, t0, slot, ledger, sent, outbox, registered, accepted, visible,
                   done, crashes>>

\* repair_open_publication_jobs: what is accepted is shown and finished.
Repair ==
    /\ tick.pc = "repair"
    /\ IF accepted = done THEN UNCHANGED panel /\ Advance
       ELSE /\ \E b \in accepted \ done : Panel!Show(b) \/ Panel!Finish(b)
            /\ tick' = tick
    /\ UNCHANGED <<clock, t0, slot, ledger, sent, outbox, registered, crashes>>

\* nomination_round, as far as slots see it (EpisodeRounds): an admission
\* commits the due slots and the witness row together.
Admit(e) ==
    /\ tick.pc = "nominate" /\ t0[e] = -1 /\ clock < StopsAt
    /\ t0' = [t0 EXCEPT ![e] = clock]
    /\ slot' = [s \in Slots |-> IF s[1] # e THEN slot[s]
                                ELSE Slot(IF s[2] = 0 THEN "OBSERVED" ELSE "PENDING", {})]
    /\ outbox' = outbox \cup {Row(<<e, 0>>, "OBSERVED", "none")}
    /\ UNCHANGED <<clock, ledger, sent, registered, accepted, visible, done, tick, crashes>>

NominateDone ==
    /\ tick.pc = "nominate"
    /\ Advance
    /\ UNCHANGED <<clock, t0, slot, ledger, sent, outbox, registered, accepted, visible,
                   done, crashes>>

\* publish_outbox: all pending rows are one batch; a batch published before
\* is a replay.
Publish ==
    /\ tick.pc = "publish"
    /\ \/ /\ outbox = {} /\ UNCHANGED panel /\ Advance
       \/ /\ outbox # {} /\ outbox \in done
          /\ UNCHANGED panel
          /\ tick' = [tick EXCEPT !.pc = "mark", !.batch = outbox]
       \/ /\ outbox # {} /\ outbox \notin done
          /\ Panel!Accept(outbox)
          /\ tick' = [tick EXCEPT !.pc = "show", !.batch = outbox]
    /\ UNCHANGED <<clock, t0, slot, ledger, sent, outbox, registered, crashes>>

Show ==
    /\ tick.pc = "show"
    /\ Panel!Show(tick.batch)
    /\ tick' = [tick EXCEPT !.pc = "finish"]
    /\ UNCHANGED <<clock, t0, slot, ledger, sent, outbox, registered, crashes>>

Finish ==
    /\ tick.pc = "finish"
    /\ Panel!Finish(tick.batch)
    /\ tick' = [tick EXCEPT !.pc = "mark"]
    /\ UNCHANGED <<clock, t0, slot, ledger, sent, outbox, registered, crashes>>

\* mark_episode_outbox_published
Mark ==
    /\ tick.pc = "mark"
    /\ registered' = registered \cup {tick.batch}
    /\ outbox' = outbox \ tick.batch
    /\ Advance
    /\ UNCHANGED <<clock, t0, slot, ledger, sent, accepted, visible, done, crashes>>

-----------------------------------------------------------------------------
(* The environment.                                                        *)

Pass ==
    /\ clock < MaxTime
    /\ clock' = clock + 1
    /\ UNCHANGED <<t0, slot, ledger, sent, outbox, registered, accepted, visible, done,
                   tick, crashes>>

\* The tick's process dies, or one of its writes is refused.
Crash ==
    /\ tick.pc # "idle" /\ crashes < MaxCrashes
    /\ crashes' = crashes + 1
    /\ tick' = Idle
    /\ UNCHANGED <<clock, t0, slot, ledger, sent, outbox, registered, accepted, visible, done>>

TickStep == \/ Claim \/ Expire \/ Recover \/ Batch \/ Merge \/ CallRefused \/ CallStart
            \/ Send \/ WindowClosed \/ CallComplete \/ Apply \/ PassDone \/ Repair
            \/ NominateDone \/ Publish \/ Show \/ Finish \/ Mark

Next == TickStart \/ TickStep \/ (\E e \in Episodes : Admit(e)) \/ Pass \/ Crash

Spec == Init /\ [][Next]_vars

\* The timer starts ticks, a running tick goes on, and time passes.
FairSpec == Spec /\ WF_vars(TickStart) /\ WF_vars(TickStep) /\ WF_vars(Pass)

-----------------------------------------------------------------------------
(* Properties.                                                             *)

\* The types of the tables and of the tick.
TypeOK ==
    /\ clock \in Nat
    /\ t0 \in [Episodes -> Nat \cup {-1}]
    /\ slot \in [Slots -> [state : {"NONE", "PENDING", "CLAIMED"} \cup Terminal,
                           intent : Occurrences]]
    /\ ledger \in [Occurrences -> [state : {"NONE", "STARTED", "COMPLETED"},
                                   status : {"none", "OBSERVED", "FAILED", "NO_REQUEST"},
                                   mints : SUBSET Episodes, at : Nat]]
    /\ sent \in [Slots -> Nat]
    /\ outbox \in SUBSET Rows
    /\ \A b \in registered \cup accepted : b \in SUBSET Rows
    /\ done \subseteq visible /\ visible \subseteq accepted
    /\ tick \in [step : 0 .. 11,
                 pc : {"idle", "slots", "repair", "nominate", "publish", "pass", "merge",
                       "call", "started", "sent", "apply", "show", "finish", "mark"},
                 claims : SUBSET Slots, occ : Occurrences, todo : SUBSET Slots,
                 verdict : {"none", "RESULT", "NOT_EXECUTED", "OUTCOME_UNKNOWN", "RAW_MISSING"},
                 batch : SUBSET Rows]
    /\ crashes \in Nat

\* No slot is paid for twice, however ticks die between intents, send,
\* completion and the rows of a batch (process_slots: "never re-request").
OneRequestPerSlot == \A s \in Slots : sent[s] <= 1

\* Every row that was ever written, published ones included
Written == outbox \cup UNION (registered \cup accepted)

\* A slot has one value: copies of its row in the outbox and in any batch, a
\* repaired batch that was never marked included, are the slot's terminal
\* (build_episode_source: OBSERVATION_COPY_CONFLICT).
OneRowPerSlot ==
    \A r \in Written : /\ slot[r.slot].state = r.state
                       /\ \A q \in Written : q.slot = r.slot => q = r

Honest(r) ==
    LET c == ledger[slot[r.slot].intent]
        timely == c.status = "OBSERVED" /\ c.at <= AvailabilityDeadline(r.slot)
    IN  /\ r.reason = "NOT_EXECUTED" => sent[r.slot] = 0
        /\ r.reason = "OUTCOME_UNKNOWN" => c.state = "STARTED"
        /\ r.state = "OBSERVED" <=> timely /\ r.slot[1] \in c.mints /\ r.reason = "none"
        /\ r.state = "DISAPPEARED" <=> timely /\ r.slot[1] \notin c.mints /\ r.reason = "none"

\* A row says what happened to its request: a slot that was "not executed"
\* was never sent, an unknown outcome has no result in the ledger, and a row
\* judged from an answer agrees with the ledger's, also when it was judged by
\* a later tick (_recover_recorded, _apply_batch_result).
RowsAreHonest == \A r \in Written : r.slot[2] # 0 => Honest(r)

\* _cohort_status: slots, outbox and publication jobs are all settled.
Mature == /\ \A s \in Slots : slot[s].state \notin {"PENDING", "CLAIMED"}
          /\ outbox = {} /\ accepted = done

\* A mature cohort is complete: every slot of every admitted episode, the
\* witness included, is in a visible batch that the closure receipt lists
\* (build_episode_source: OBSERVATION_OBLIGATIONS_INCOMPLETE).
MatureIsPublished ==
    Mature => \A s \in Slots : t0[s[1]] >= 0 =>
                 \E b \in registered \cap visible : \E r \in b : r.slot = s

\* Every slot of an admitted episode is settled and published.
EverySlotIsPublished ==
    \A s \in Slots : t0[s[1]] >= 0 ~> \E b \in registered : \E r \in b : r.slot = s

\* The contract's table of observation states: a recorded intent whose durable
\* result is unknown is IN_FLIGHT_CALL_INDETERMINATE.  The code writes CENSORED.
UnknownIsIndeterminate ==
    \A r \in outbox : r.reason = "OUTCOME_UNKNOWN" => r.state = "IN_FLIGHT_CALL_INDETERMINATE"
=============================================================================
