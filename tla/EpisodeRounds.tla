---------------------------- MODULE EpisodeRounds ----------------------------
(***************************************************************************)
(* Nomination rounds of the opportunity-episode lane                       *)
(* (opportunity_episode_tick.py, the round and admission tables of         *)
(* observation_schedule_store.py).  A round asks every source once, fixes  *)
(* its winners in a durable plan, then admits them one transaction at a    *)
(* time.  A tick may die between any two commits; within the slack the     *)
(* next tick resumes the plan, after it the round is reconciled from what  *)
(* is durable.  Cohorts are released only from rounds that pass the        *)
(* maturity gate.                                                          *)
(*                                                                         *)
(* One sampling cycle and one UTC day are modelled, with several           *)
(* activations of one collection lineage sharing its ceilings.  Ticks are  *)
(* serial (the writer lease).  Mints are numbered in ticket order.         *)
(***************************************************************************)
EXTENDS Integers, FiniteSets, FiniteSetsExt

CONSTANTS
    Acts,        \* activations of one lineage
    NoAct,
    Mints,       \* a set of naturals: the order of their ticket priorities
    Bodies,      \* mint lists a source may answer with
    NSources,    \* declared sources
    Period, Slack, StopsAt,
    RoundQuota,  \* k_j, the same for every round
    DayCeiling, ActiveCap,
    Life,        \* a trajectory is active this long after T0
    WitnessAge,  \* witness_max_age_seconds
    CanPause,    \* whether operators pause
    MaxTime, MaxCrashes, MaxChanges  \* bounds

ASSUME RoundsAssumption ==
    /\ NoAct \notin Acts
    /\ Mints \subseteq Nat /\ IsFiniteSet(Mints)
    /\ Bodies \subseteq SUBSET Mints
    /\ NSources \in Nat \ {0}
    /\ Period \in Nat \ {0} /\ Slack \in Nat /\ StopsAt \in Nat
    /\ RoundQuota \in Nat /\ DayCeiling \in Nat /\ ActiveCap \in Nat
    /\ Life \in Nat /\ WitnessAge \in Nat
    /\ CanPause \in BOOLEAN
    /\ MaxTime \in Nat /\ MaxCrashes \in Nat /\ MaxChanges \in Nat

VARIABLES
    clock,
    state,      \* [Acts]: ACTIVE, PAUSED or DRAINING
    protected,  \* mints the protection inventory denies
    rounds,     \* episode_rounds
    calls,      \* the call ledger: one occurrence per round and source
    sent,       \* requests made per occurrence
    adm,        \* episode_admissions
    tick,       \* the running tick
    cut,        \* rounds whose plan was written when a tick died
    crashes, changes

vars == <<clock, state, protected, rounds, calls, sent, adm, tick, cut,
          crashes, changes>>

Sources == 1 .. NSources
Starts == 0 .. MaxTime \div Period
RoundIds == Acts \X Starts
Occurrences == RoundIds \X Sources
Outcomes == {"none", "CLOSED", "FRAME_INCOMPLETE", "MISSED_NO_REQUEST",
             "NO_ADMISSION", "PARTIAL_ADMISSION", "REFUSED"}

\* The durable selection: winners and the protection fingerprint of its frame.
Plan(winners, prot) == [written |-> TRUE, winners |-> winners, prot |-> prot]
NoPlan == [written |-> FALSE, winners |-> {}, prot |-> {}]

Round(st, plan, outcome) == [state |-> st, plan |-> plan, outcome |-> outcome]
NoRound == Round("NONE", NoPlan, "none")
Call(st, body, at) == [state |-> st, body |-> body, at |-> at]

Idle == [pc |-> "idle", act |-> NoAct, open |-> FALSE, now |-> 0,
         resumed |-> FALSE, src |-> 1, todo |-> {}]

InSlack(k, now) == now <= k * Period + Slack

-----------------------------------------------------------------------------
(* The lineage's ceilings.                                                 *)

Committed(id) == {x.mint : x \in {y \in adm : y.id = id}}
Active(now) == {x \in adm : x.t0 + Life > now}

\* admission_quota; the rolling day and the UTC day coincide here.
Quota(id, now) ==
    Max({0, Min({RoundQuota - Cardinality(Committed(id)),
                 DayCeiling - Cardinality(adm),
                 ActiveCap - Cardinality(Active(now))})})

\* episode_blocked_mints: admitted in this cycle
Blocked == {x.mint : x \in adm}

\* select_admissions: the first q eligible tickets
Select(eligible, q) ==
    {m \in eligible : Cardinality({k \in eligible : k < m}) < q}

-----------------------------------------------------------------------------
(* Recovery from durable evidence.                                         *)

Evidence(id) == \A s \in Sources : calls[<<id, s>>].state = "OBSERVED"

\* classify_round_recovery
Verdict(id, forced) ==
    LET p == rounds[id].plan
        c == Committed(id)
    IN  CASE forced -> "REFUSED"
          [] ~forced /\ ~p.written -> IF c = {} THEN "NO_ADMISSION" ELSE "REFUSED"
          [] ~forced /\ p.written ->
                IF ~Evidence(id) \/ ~(c \subseteq p.winners) THEN "REFUSED"
                ELSE IF c = {} THEN "NO_ADMISSION"
                ELSE IF c = p.winners THEN "CLOSED" ELSE "PARTIAL_ADMISSION"

\* record_episode_round: a terminal row is final and a plan is kept.
Record(id, st, plan, outcome) ==
    /\ rounds[id].state \in {"NONE", "STARTED"}
    /\ rounds[id].plan.written => plan = rounds[id].plan
    /\ rounds' = [rounds EXCEPT ![id] = Round(st, plan, outcome)]

\* _terminalize_round
Terminalize(id, v) ==
    Record(id, IF v = "CLOSED" THEN "CLOSED" ELSE "INCOMPLETE", rounds[id].plan, v)

-----------------------------------------------------------------------------
Init ==
    /\ clock = 0
    /\ state = [a \in Acts |-> "ACTIVE"]
    /\ protected = {}
    /\ rounds = [id \in RoundIds |-> NoRound]
    /\ calls = [o \in Occurrences |-> Call("NONE", {}, 0)]
    /\ sent = [o \in Occurrences |-> 0]
    /\ adm = {}
    /\ tick = Idle
    /\ cut = {}
    /\ crashes = 0 /\ changes = 0

\* The round the tick works on: the one its decision instant falls in.
Rid == <<tick.act, tick.now \div Period>>

Go(pc) == tick' = [tick EXCEPT !.pc = pc]
End == tick' = Idle

\* tick_episode_schedule up to the rounds; drain_expired_admission included.
TickStart(a) ==
    /\ tick.pc = "idle"
    /\ state[a] \in {"ACTIVE", "DRAINING"}
    /\ LET st == IF clock >= StopsAt THEN "DRAINING" ELSE state[a]
       IN  /\ state' = [state EXCEPT ![a] = st]
           /\ tick' = [Idle EXCEPT !.pc = "survey", !.act = a, !.open = st = "ACTIVE"]
    /\ UNCHANGED <<clock, protected, rounds, calls, sent, adm, cut, crashes, changes>>

\* recover_unresolved_rounds takes its instant once,
Survey ==
    /\ tick.pc = "survey"
    /\ tick' = [tick EXCEPT !.pc = "recover", !.now = clock]
    /\ UNCHANGED <<clock, state, protected, rounds, calls, sent, adm, cut, crashes, changes>>

Expired == {k \in Starts : /\ rounds[<<tick.act, k>>].state = "STARTED"
                           /\ ~InSlack(k, tick.now)}

\* Mutant: rounds are only reconciled while intake is open.
RecoverWhenOpen ==
    /\ tick.pc = "recover" /\ Expired # {} /\ tick.open
    /\ LET id == <<tick.act, Min(Expired)>> IN Terminalize(id, Verdict(id, FALSE))
    /\ UNCHANGED <<clock, state, protected, calls, sent, adm, tick, cut, crashes, changes>>

\* then reconciles one round after the other, oldest first.
Recover ==
    /\ tick.pc = "recover" /\ Expired # {}
    /\ LET id == <<tick.act, Min(Expired)>> IN Terminalize(id, Verdict(id, FALSE))
    /\ UNCHANGED <<clock, state, protected, calls, sent, adm, tick, cut, crashes, changes>>

\* The decision instant binds the tick to its round; without an open intake,
\* or under reserve pressure, the tick nominates nothing.
Decide ==
    /\ tick.pc = "recover" /\ Expired = {}
    /\ \/ /\ tick.open /\ clock < StopsAt
          /\ tick' = [tick EXCEPT !.pc = "nominate", !.now = clock]
       \/ End
    /\ UNCHANGED <<clock, state, protected, rounds, calls, sent, adm, cut, crashes, changes>>

\* nomination_round up to its calls: a terminal round is a replay, a late one
\* is missed or reconciled, a started one is resumed if its plan is valid.
Nominate ==
    LET r == rounds[Rid]
        late == ~InSlack(Rid[2], tick.now)
    IN  /\ tick.pc = "nominate"
        /\ \/ /\ r.state \notin {"NONE", "STARTED"}
              /\ rounds' = rounds /\ End
           \/ /\ r.state = "NONE" /\ late
              /\ Record(Rid, "MISSED_NO_REQUEST", NoPlan, "MISSED_NO_REQUEST") /\ End
           \/ /\ r.state = "STARTED" /\ (late \/ Verdict(Rid, FALSE) = "REFUSED")
              /\ Terminalize(Rid, Verdict(Rid, FALSE)) /\ End
           \/ /\ r.state = "STARTED" /\ ~late /\ Verdict(Rid, FALSE) # "REFUSED"
              /\ rounds' = rounds
              /\ tick' = [tick EXCEPT !.pc = "source", !.resumed = r.plan.written]
           \/ /\ r.state = "NONE" /\ ~late
              /\ Record(Rid, "STARTED", NoPlan, "none") /\ Go("source")
        /\ UNCHANGED <<clock, state, protected, calls, sent, adm, cut, crashes, changes>>

NextSource == tick' = [tick EXCEPT !.pc = IF tick.src = NSources THEN "frame" ELSE "source",
                                   !.src = tick.src + 1]

\* _call: what the ledger already knows is used or given up, never asked for
\* again; otherwise the call is refused by pace or budget,
CallSettled ==
    /\ tick.pc = "source"
    /\ NextSource
    /\ UNCHANGED <<clock, state, protected, rounds, calls, sent, adm, cut, crashes, changes>>

\* Mutant: a call that is STARTED without an answer is made again.
CallStartAgain ==
    /\ tick.pc = "source"
    /\ calls[<<Rid, tick.src>>].state \in {"NONE", "STARTED"}
    /\ calls' = [calls EXCEPT ![<<Rid, tick.src>>] = Call("STARTED", {}, clock)]
    /\ sent' = [sent EXCEPT ![<<Rid, tick.src>>] = @ + 1]
    /\ Go("sent")
    /\ UNCHANGED <<clock, state, protected, rounds, adm, cut, crashes, changes>>

\* or it is written as STARTED and sent.
CallStart ==
    /\ tick.pc = "source"
    /\ calls[<<Rid, tick.src>>].state = "NONE"
    /\ calls' = [calls EXCEPT ![<<Rid, tick.src>>] = Call("STARTED", {}, clock)]
    /\ sent' = [sent EXCEPT ![<<Rid, tick.src>>] = @ + 1]
    /\ Go("sent")
    /\ UNCHANGED <<clock, state, protected, rounds, adm, cut, crashes, changes>>

\* complete_call: an answer with its mints, or a typed failure.  An answer
\* outside the slack is no part of the frame (build_frame).
CallComplete ==
    /\ tick.pc = "sent"
    /\ \/ \E b \in Bodies : calls' = [calls EXCEPT ![<<Rid, tick.src>>] =
                              Call(IF InSlack(Rid[2], clock) THEN "OBSERVED" ELSE "OUTSIDE",
                                   b, calls[<<Rid, tick.src>>].at)]
       \/ calls' = [calls EXCEPT ![<<Rid, tick.src>>] =
                      Call("FAILED", {}, calls[<<Rid, tick.src>>].at)]
    /\ NextSource
    /\ UNCHANGED <<clock, state, protected, rounds, sent, adm, cut, crashes, changes>>

Listed(m) == {s \in Sources : m \in calls[<<Rid, s>>].body}
Candidates == UNION {calls[<<Rid, s>>].body : s \in Sources} \ protected

\* The frame: incomplete, of another identity than the plan it resumes,
\* or complete; a new plan is recorded before the first admission.
Frame ==
    LET r == rounds[Rid]
        q == IF clock < StopsAt THEN Quota(Rid, clock) ELSE 0
        winners == Select(Candidates \ Blocked, q)
        admit(w) == tick' = [tick EXCEPT !.pc = "admit", !.todo = w \ Committed(Rid)]
    IN  /\ tick.pc = "frame"
        /\ \/ /\ tick.resumed /\ (~Evidence(Rid) \/ protected # r.plan.prot)
              /\ Terminalize(Rid, Verdict(Rid, TRUE)) /\ End
           \/ /\ tick.resumed /\ Evidence(Rid) /\ protected = r.plan.prot
              /\ rounds' = rounds /\ admit(r.plan.winners)
           \/ /\ ~tick.resumed /\ ~Evidence(Rid)
              /\ Record(Rid, "INCOMPLETE", NoPlan, "FRAME_INCOMPLETE") /\ End
           \/ /\ ~tick.resumed /\ Evidence(Rid)
              /\ Record(Rid, "STARTED", Plan(winners, protected), "none")
              /\ admit(winners)
        /\ UNCHANGED <<clock, state, protected, calls, sent, adm, cut, crashes, changes>>

\* The witness of a mint is the freshest object that listed it.
Fresh(m) == \E s \in Listed(m) : calls[<<Rid, s>>].at >= clock - WitnessAge

\* Mutant: the transaction trusts the quota of the plan.
CanCommitUncounted(m) ==
    /\ Fresh(m) /\ m \notin Blocked
    /\ state[tick.act] = "ACTIVE" /\ clock < StopsAt
    /\ rounds[Rid].state = "STARTED" /\ m \in rounds[Rid].plan.winners

\* The conditions re-read inside the transaction of commit_episode_admission.
CanCommit(m) ==
    /\ Fresh(m)
    /\ m \notin Blocked
    /\ Quota(Rid, clock) > 0
    /\ state[tick.act] = "ACTIVE" /\ clock < StopsAt
    /\ rounds[Rid].state = "STARTED" /\ m \in rounds[Rid].plan.winners

\* The next planned winner is admitted or dropped; at the intake cutoff all
\* that are left are dropped.
Admit ==
    LET m == Min(tick.todo)
    IN  /\ tick.pc = "admit" /\ tick.todo # {}
        /\ adm' = IF CanCommit(m)
                  THEN adm \cup {[mint |-> m, id |-> Rid, t0 |-> clock]} ELSE adm
        /\ tick' = [tick EXCEPT !.todo = IF clock >= StopsAt THEN {} ELSE @ \ {m}]
        /\ UNCHANGED <<clock, state, protected, rounds, calls, sent, cut, crashes, changes>>

\* Mutant: a resumed round is closed like any other.
CloseAlways ==
    /\ tick.pc = "admit" /\ tick.todo = {}
    /\ Record(Rid, "CLOSED", rounds[Rid].plan, "CLOSED")
    /\ End
    /\ UNCHANGED <<clock, state, protected, calls, sent, adm, cut, crashes, changes>>

\* The end of the round.  Only a round that was never resumed may be CLOSED
\* with winners dropped.
Close ==
    LET dropped == rounds[Rid].plan.winners \ Committed(Rid)
    IN  /\ tick.pc = "admit" /\ tick.todo = {}
        /\ IF tick.resumed /\ dropped # {}
           THEN Terminalize(Rid, Verdict(Rid, FALSE))
           ELSE Record(Rid, "CLOSED", rounds[Rid].plan, "CLOSED")
        /\ End
        /\ UNCHANGED <<clock, state, protected, calls, sent, adm, cut, crashes, changes>>

-----------------------------------------------------------------------------
(* The environment.                                                        *)

Pass ==
    /\ clock < MaxTime
    /\ clock' = clock + 1
    /\ UNCHANGED <<state, protected, rounds, calls, sent, adm, tick, cut, crashes, changes>>

\* The tick's process dies.
Crash ==
    /\ tick.pc # "idle" /\ crashes < MaxCrashes
    /\ crashes' = crashes + 1
    /\ cut' = IF tick.pc \in {"source", "sent", "frame", "admit"}
                 /\ rounds[Rid].plan.written
              THEN cut \cup {Rid} ELSE cut
    /\ End
    /\ UNCHANGED <<clock, state, protected, rounds, calls, sent, adm, changes>>

\* Lifecycle commands (ActivationLifecycle), any time between two commits.
StopIntake(a) ==
    /\ state[a] = "ACTIVE" /\ changes < MaxChanges
    /\ state' = [state EXCEPT ![a] = "DRAINING"]
    /\ changes' = changes + 1
    /\ UNCHANGED <<clock, protected, rounds, calls, sent, adm, tick, cut, crashes>>

Pause(a) ==
    /\ CanPause /\ state[a] = "ACTIVE" /\ changes < MaxChanges
    /\ state' = [state EXCEPT ![a] = "PAUSED"]
    /\ changes' = changes + 1
    /\ UNCHANGED <<clock, protected, rounds, calls, sent, adm, tick, cut, crashes>>

Resume(a) ==
    /\ state[a] = "PAUSED"
    /\ state' = [state EXCEPT ![a] = "ACTIVE"]
    /\ UNCHANGED <<clock, protected, rounds, calls, sent, adm, tick, cut, crashes, changes>>

\* An assignment source protects another mint.
Protect(m) ==
    /\ m \notin protected /\ changes < MaxChanges
    /\ protected' = protected \cup {m}
    /\ changes' = changes + 1
    /\ UNCHANGED <<clock, state, rounds, calls, sent, adm, tick, cut, crashes>>

TickStep == \/ Survey \/ Recover \/ Decide \/ Nominate \/ CallSettled \/ CallStart
            \/ CallComplete \/ Frame \/ Admit \/ Close

Next == \/ \E a \in Acts : TickStart(a) \/ StopIntake(a) \/ Pause(a) \/ Resume(a)
        \/ TickStep \/ Pass \/ Crash
        \/ \E m \in Mints : Protect(m)

Spec == Init /\ [][Next]_vars

\* The timer starts a tick of every live activation again and again, a
\* running tick goes on, and time passes.
FairSpec == /\ Spec
            /\ WF_vars(TickStep) /\ WF_vars(Pass)
            /\ \A a \in Acts : SF_vars(TickStart(a))

-----------------------------------------------------------------------------
(* Properties.                                                             *)

\* The types of the round, call and admission tables and of the tick.
TypeOK ==
    /\ clock \in 0 .. MaxTime
    /\ state \in [Acts -> {"ACTIVE", "PAUSED", "DRAINING"}]
    /\ protected \subseteq Mints
    /\ rounds \in [RoundIds ->
          [state : {"NONE", "STARTED", "CLOSED", "INCOMPLETE", "MISSED_NO_REQUEST"},
           plan : [written : BOOLEAN, winners : SUBSET Mints, prot : SUBSET Mints],
           outcome : Outcomes]]
    /\ calls \in [Occurrences ->
          [state : {"NONE", "STARTED", "OBSERVED", "OUTSIDE", "FAILED"},
           body : SUBSET Mints, at : 0 .. MaxTime]]
    /\ sent \in [Occurrences -> Nat]
    /\ adm \subseteq [mint : Mints, id : RoundIds, t0 : 0 .. MaxTime]
    /\ tick \in [pc : {"idle", "survey", "recover", "nominate", "source", "sent",
                       "frame", "admit"},
                 act : Acts \cup {NoAct}, open : BOOLEAN, now : 0 .. MaxTime,
                 resumed : BOOLEAN, src : 1 .. NSources + 1, todo : SUBSET Mints]
    /\ cut \subseteq RoundIds
    /\ crashes \in Nat /\ changes \in Nat

\* _round_integrity_gaps: no round of the activation blocks its cohort.
Mature(a) == \A k \in Starts :
    LET r == rounds[<<a, k>>]
    IN  r.state # "STARTED" /\ r.outcome \notin {"PARTIAL_ADMISSION", "REFUSED"}

\* A cohort released for science is the deterministic selection, never a
\* subset chosen by the moment of a crash: when the maturity gate is open,
\* every round whose tick died after the plan has all planned winners or none.
MatureIsSelected ==
    \A id \in cut : Mature(id[1]) => Committed(id) \in {{}, rounds[id].plan.winners}

\* The lineage's ceilings hold for all its activations together, and a mint
\* has one episode per cycle, although a resumed round follows a plan made
\* under an older count and older blocked mints (commit_episode_admission).
LineageBoundsHold ==
    /\ Cardinality(adm) <= DayCeiling
    /\ Cardinality(Active(clock)) <= ActiveCap
    /\ \A id \in RoundIds : Cardinality(Committed(id)) <= RoundQuota
    /\ \A x, y \in adm : x.mint = y.mint => x = y

\* No source of a round is asked twice, however often its tick dies.
OneRequestPerSource == \A o \in Occurrences : sent[o] <= 1

\* Every started round gets a terminal, also when intake has been stopped in
\* between (recover_unresolved_rounds), unless its activation is left paused.
EveryRoundResolves ==
    \A id \in RoundIds :
        <>[](state[id[1]] # "PAUSED") =>
            (rounds[id].state = "STARTED" ~> rounds[id].state # "STARTED")
=============================================================================
