------------------------- MODULE ActivationLifecycle -------------------------
(***************************************************************************)
(* The lifecycle of the activations of one cohort family                   *)
(* (observation_schedule_lifecycle.py, the transition table of             *)
(* observation_schedule_store.py, and the part of a tick that reads and    *)
(* moves the lifecycle).  Every state change is recorded twice: first the  *)
(* row of schedule_activations, in one SQLite transaction, then an         *)
(* immutable ResearchEvent in the research log.  The two writes are        *)
(* separate steps, a crash or a busy research writer may fall in between,  *)
(* and what later commands and ticks accept as proof is read from the log. *)
(*                                                                         *)
(* Operators run one command at a time without the writer lease; they only *)
(* look, before their transaction, whether a tick holds it.  The daily     *)
(* timer that renews an envelope (same_envelope_renewal.py) is one of them *)
(* and gives the command rollover.  Tickers read the row first and take    *)
(* the lease afterwards.  A live ticker keeps its lease (ScheduleLease is  *)
(* about losing it); authority receipts are live.                          *)
(***************************************************************************)
EXTENDS Integers, Sequences, FiniteSets

CONSTANTS
    Acts,          \* activations, one per registered schedule of the family
    NoAct,
    Operators,     \* command-line processes and the renewal timer
    Tickers,       \* tick processes
    NoProc,
    Families,      \* the families looked at; a behaviour has one of them
    MaxTime,       \* bound on the clock
    PauseBelow,    \* bound: pause only an activation of fewer transitions
    MaxFaults      \* bound on crashes and failed appends

ASSUME LifecycleAssumption ==
    /\ NoAct \notin Acts
    /\ NoProc \notin Operators \cup Tickers
    /\ Operators \cap Tickers = {}
    /\ Families \subseteq
          [starts : [Acts -> Nat], stops : [Acts -> Nat], episode : BOOLEAN,
           commands : SUBSET (Operators \X {"activate", "pause", "resume", "abort",
                                            "stop", "rollover"} \X Acts)]
    /\ MaxTime \in Nat
    /\ PauseBelow \in Nat
    /\ MaxFaults \in Nat

VARIABLES
    family,     \* the registered schedules and the commands given
    clock,      \* UTC seconds, coarsened to the instants the windows name
    row,        \* schedule_activations: state column and transition payload
    events,     \* OBSERVATION_SCHEDULE_STATE records of the research log
    rollovers,  \* schedule_rollovers
    work,       \* open due rows or publication jobs of an activation
    lease,      \* holder of the global writer lease
    proc,       \* the command or tick each process is in
    admitted,   \* [act, at]: an activation admitted members at an instant
    faults      \* crashes and failed appends so far

vars == <<family, clock, row, events, rollovers, work, lease, proc, admitted, faults>>

Procs == Operators \cup Tickers

Starts == family.starts            \* starts_at
Stops == family.stops              \* stops_admitting_at
EpisodeLane == family.episode      \* opportunity-episode schedules, or observation
\* bound: who gives which commands
May(p, cmd, a) == <<p, cmd, a>> \in family.commands

Live == {"ACTIVE", "DRAINING"}
Stopped == {"PAUSED_OPERATOR", "ABORTED_SAFETY", "BLOCKED", "COMPLETE"}
States == Live \cup Stopped \cup {"UNREGISTERED"}

\* _ALLOWED_ACTIVATION_TRANSITIONS
Allowed == {<<"UNREGISTERED", "ACTIVE">>, <<"ACTIVE", "PAUSED_OPERATOR">>,
            <<"ACTIVE", "DRAINING">>, <<"ACTIVE", "ABORTED_SAFETY">>,
            <<"PAUSED_OPERATOR", "ACTIVE">>,
            <<"PAUSED_OPERATOR", "ABORTED_SAFETY">>,
            <<"DRAINING", "COMPLETE">>, <<"DRAINING", "ABORTED_SAFETY">>}

\* state is the column; new, prior, eff are what the payload says of the last
\* transition; closed, stop, held are admission_window_closed,
\* operator_stop_intake and the pre-cutover stop marker.
Row(state, seq, new, prior, eff, created, closed, stop, held) ==
    [state |-> state, seq |-> seq, new |-> new, prior |-> prior, eff |-> eff,
     created |-> created, closed |-> closed, stop |-> stop, held |-> held]

NoRow == Row("UNREGISTERED", 0, "UNREGISTERED", "UNREGISTERED", 0, 0,
             FALSE, FALSE, FALSE)

\* A rollover binds a predecessor, a successor and the cutover instant.
Cutover(p, s, c) == [pred |-> p, succ |-> s, cut |-> c]
NoRoll == Cutover(NoAct, NoAct, 0)
Cutovers == {Cutover(p, s, c) : p \in Acts, s \in Acts, c \in 0 .. MaxTime}

\* act, seq, state, prior and eff make the event id (transition_event_id_for);
\* at and created are the record's effective_at and created_at.
Event(a, r, at, created, closed, roll) ==
    [act |-> a, seq |-> r.seq, state |-> r.new, prior |-> r.prior,
     eff |-> r.eff, at |-> at, created |-> created, closed |-> closed,
     stop |-> r.stop, roll |-> roll]

SameId(e, f) == /\ e.act = f.act /\ e.seq = f.seq /\ e.state = f.state
                /\ e.prior = f.prior /\ e.eff = f.eff
SamePayload(e, f) == SameId(e, f) /\ e.closed = f.closed /\ e.stop = f.stop
                     /\ e.roll = f.roll

\* pc is where the process stands; stage the command (for rollover, its next
\* write); seen the state a tick read before the lease; view the state it acts
\* on; gates whether a rollover found at the start of the tick puts it before
\* the cutover; out the events still to append; next where a tick goes after.
Job(pc, stage, a, roll, now, seen) ==
    [pc |-> pc, stage |-> stage, act |-> a, roll |-> roll, now |-> now,
     seen |-> seen, view |-> seen, gates |-> {}, out |-> <<>>, next |-> "idle"]

Idle == Job("idle", "none", NoAct, NoRoll, 0, "UNREGISTERED")

Later(m, n) == IF m > n THEN m ELSE n
Earlier(m, n) == IF m < n THEN m ELSE n

-----------------------------------------------------------------------------
(* Proofs read from the log.                                               *)

\* last_transition_event_id of the row names this record
IsLast(e, a) == SameId(e, Event(a, row[a], 0, 0, FALSE, NoRoll))

\* Records the reader sees at now: created by then, not before the window.
Visible(a, from, now) ==
    {e \in events : e.act = a /\ e.created <= now /\ e.at >= from}

RollInRange(c) == /\ Starts[c.pred] <= c.cut /\ c.cut <= Stops[c.pred]
                  /\ Starts[c.succ] <= c.cut /\ c.cut < Stops[c.succ]

\* _draining_transition_evidence
Evidence(a, from, now) ==
    {e \in Visible(a, from, now) :
        /\ IsLast(e, a) /\ e.at = e.eff
        /\ e.state = "DRAINING" /\ e.prior = "ACTIVE"
        /\ \/ e.closed /\ e.at <= now /\ (e.at >= Stops[a] \/ e.stop)
           \/ /\ ~e.closed /\ e.roll # NoRoll /\ e.roll.pred = a
              /\ e.at = e.roll.cut /\ RollInRange(e.roll)}

\* activation_transition_research_event_proven, an ACTIVE row
ActiveProven(a, now) ==
    LET from == Earlier(Starts[a], row[a].created)
    IN  /\ row[a].state = "ACTIVE" /\ row[a].new = "ACTIVE"
        /\ row[a].eff <= now
        /\ \E e \in Visible(a, from, now) :
              IsLast(e, a) /\ e.at = row[a].eff
        /\ \A l \in Visible(a, from, now) :
              (l.at <= now /\ ~IsLast(l, a)) =>
                 \/ l.at < row[a].eff
                 \/ l.at = row[a].eff /\ l.seq <= row[a].seq

\* _prior_active_transition_research_event_proven
PriorActiveProven(a, now) ==
    LET past == {e \in Visible(a, Starts[a], now) : e.at <= now}
    IN  /\ \A e \in past : e.at = e.eff
        /\ \E e \in past :
              /\ e.state = "ACTIVE"
              /\ \A l \in past : l.at < e.at \/ (l.at = e.at /\ l.seq <= e.seq)

\* activation_transition_research_event_proven, its two cases for a tick
TransitionProven(a, now) ==
    IF row[a].new = "DRAINING" /\ row[a].prior = "ACTIVE" /\ row[a].eff > now
    THEN PriorActiveProven(a, now)
    ELSE ActiveProven(a, now)

\* rollover_research_event_proven
RolloverProven(c, now) ==
    /\ \E e \in Visible(c.pred, Starts[c.pred], now) :
          /\ IsLast(e, c.pred) /\ e.at = c.cut /\ e.at = e.eff
          /\ e.roll = c /\ ~e.closed
          /\ e.state = "DRAINING" /\ e.prior = "ACTIVE"
    /\ \E e \in Visible(c.succ, Starts[c.succ], now) :
          /\ IsLast(e, c.succ) /\ e.at = c.cut /\ e.at = e.eff
          /\ e.roll = c
          /\ e.state = "ACTIVE" /\ e.prior \in {"UNREGISTERED", "PAUSED_OPERATOR"}

\* project_activation_as_of: the state a row shows at now
Projected(a, now) ==
    IF row[a].eff <= now THEN row[a].state
    ELSE IF row[a].prior \in Live THEN row[a].prior ELSE "UNKNOWN"

PredBeforeCutover(a, now) == \E c \in rollovers : c.pred = a /\ now < c.cut
SuccBeforeCutover(a, now) == \E c \in rollovers : c.succ = a /\ now < c.cut
Gates(a, now) == {g \in {"pred", "succ"} :
                    IF g = "pred" THEN PredBeforeCutover(a, now)
                    ELSE SuccBeforeCutover(a, now)}

\* _activation_is_non_admitting
NonAdmitting(a, now) ==
    row[a].state = "DRAINING" /\ now >= Stops[a] /\ row[a].closed

\* Mutant: a closed predecessor needs no event in the log.
CutoverOrUniqueUnproven(a, now) ==
    \A b \in Acts \ {a} : row[b].state \in Live =>
        IF NonAdmitting(b, now) THEN Starts[a] <= now /\ Starts[a] >= Stops[b]
        ELSE \E c \in rollovers : c.succ = a /\ c.pred = b /\ RolloverProven(c, now)

\* Mutant: a recorded rollover is enough, proven or not.
CutoverOrUniqueRecorded(a, now) ==
    \A b \in Acts \ {a} : row[b].state \in Live =>
        \E c \in rollovers : c.succ = a /\ c.pred = b

\* _require_cohort_cutover_or_unique
CutoverOrUnique(a, now) ==
    \A b \in Acts \ {a} : row[b].state \in Live =>
        IF NonAdmitting(b, now)
        THEN \E e \in Evidence(b, Starts[b], now) :
                /\ e.closed /\ e.at <= now
                /\ Starts[a] <= now
                /\ Starts[a] >= Stops[b] /\ Starts[a] >= e.at
        ELSE \E c \in rollovers : c.succ = a /\ c.pred = b /\ RolloverProven(c, now)

-----------------------------------------------------------------------------
(* One transaction of transition_activation.                               *)

\* A request for the state the row already has replays the stored transition.
CanMove(a, new) == row[a].state = new \/ <<row[a].state, new>> \in Allowed

\* Mutant: a replay stamps the transition anew.
MovedRestamps(a, new, eff, now, closed, stop) ==
    LET r == row[a]
    IN  IF r.state = new THEN [r EXCEPT !.eff = eff]
        ELSE Row(new, r.seq + 1, new, r.state, eff,
                 IF r.state = "UNREGISTERED" THEN now ELSE r.created,
                 r.closed \/ closed, r.stop \/ stop, r.held)

Moved(a, new, eff, now, closed, stop) ==
    LET r == row[a]
    IN  IF r.state = new THEN r
        ELSE Row(new, r.seq + 1, new, r.state, eff,
                 IF r.state = "UNREGISTERED" THEN now ELSE r.created,
                 r.closed \/ closed, r.stop \/ stop, r.held)

Put(a, r) == row' = [row EXCEPT ![a] = r]
Go(p, job) == proc' = [proc EXCEPT ![p] = job]
Free(p) == lease' = IF lease = p THEN NoProc ELSE lease

-----------------------------------------------------------------------------
Init ==
    /\ family \in Families
    /\ clock = 0
    /\ row = [a \in Acts |-> NoRow]
    /\ events = {}
    /\ rollovers = {}
    /\ work = [a \in Acts |-> FALSE]
    /\ lease = NoProc
    /\ proc = [p \in Procs |-> Idle]
    /\ admitted = {}
    /\ faults = 0

Command(p, stage, a, roll) ==
    Go(p, Job("fence", stage, a, roll, clock, "UNREGISTERED"))

\* activate_schedule: a first activation, or the replay that appends the
\* first ACTIVE event a crash left out (_repair_activation_event).
Activate(p, a) ==
    /\ proc[p].pc = "idle" /\ May(p, "activate", a)
    /\ \/ /\ row[a].state = "UNREGISTERED"
          /\ CutoverOrUnique(a, clock)
          /\ Command(p, "activate", a, NoRoll)
       \/ /\ row[a].state = "ACTIVE" /\ row[a].new = "ACTIVE"
          /\ row[a].prior = "UNREGISTERED" /\ row[a].seq = 1
          /\ ~TransitionProven(a, clock)
          /\ Go(p, [Job("append", "activate", a, NoRoll, clock, "UNREGISTERED")
                    EXCEPT !.out = <<Event(a, row[a], row[a].eff,
                                           Later(clock, row[a].eff), FALSE, NoRoll)>>])
    /\ UNCHANGED <<family, clock, row, events, rollovers, work, lease, admitted, faults>>

Pause(p, a) ==
    /\ proc[p].pc = "idle" /\ May(p, "pause", a)
    /\ row[a].state # "UNREGISTERED"
    /\ row[a].seq < PauseBelow + IF row[a].state = "PAUSED_OPERATOR" THEN 1 ELSE 0
    /\ Command(p, "pause", a, NoRoll)
    /\ UNCHANGED <<family, clock, row, events, rollovers, work, lease, admitted, faults>>

\* resume_schedule; it looks at no other activation of the family.
Resume(p, a) ==
    /\ proc[p].pc = "idle" /\ May(p, "resume", a)
    /\ row[a].state = "PAUSED_OPERATOR"
    /\ Command(p, "resume", a, NoRoll)
    /\ UNCHANGED <<family, clock, row, events, rollovers, work, lease, admitted, faults>>

Abort(p, a) ==
    /\ proc[p].pc = "idle" /\ May(p, "abort", a)
    /\ row[a].state \in Live \cup {"PAUSED_OPERATOR"}
    /\ Command(p, "abort", a, NoRoll)
    /\ UNCHANGED <<family, clock, row, events, rollovers, work, lease, admitted, faults>>

\* stop_episode_intake; a repeat is let through to repair a missing event.
StopIntake(p, a) ==
    /\ proc[p].pc = "idle" /\ May(p, "stop", a) /\ EpisodeLane
    /\ \/ row[a].state = "ACTIVE" /\ \A c \in rollovers : c.pred # a
       \/ row[a].state = "DRAINING" /\ row[a].stop
    /\ Command(p, "stop", a, NoRoll)
    /\ UNCHANGED <<family, clock, row, events, rollovers, work, lease, admitted, faults>>

\* rollover_schedule up to its first write.  A predecessor already DRAINING
\* is a replay or a refusal: nothing is written.
Rollover(p, c) ==
    /\ proc[p].pc = "idle" /\ May(p, "rollover", c.pred)
    /\ c.pred # c.succ
    /\ row[c.pred].state = "ACTIVE"
    /\ RollInRange(c)
    /\ \A d \in rollovers : d.pred = c.pred \/ d.succ = c.succ => d = c
    /\ clock <= c.cut
    /\ Command(p, "persist", c.pred, c)
    /\ UNCHANGED <<family, clock, row, events, rollovers, work, lease, admitted, faults>>

\* _require_write_lease of a process without a lease, before its transaction
Fence(p) ==
    /\ proc[p].pc = "fence"
    /\ Go(p, IF lease = NoProc THEN [proc[p] EXCEPT !.pc = "write"] ELSE Idle)
    /\ UNCHANGED <<family, clock, row, events, rollovers, work, lease, admitted, faults>>

\* The state each command asks for and the instant it takes effect.
Target(stage) ==
    CASE stage \in {"activate", "resume", "activateSucc"} -> "ACTIVE"
      [] stage = "pause" -> "PAUSED_OPERATOR"
      [] stage = "abort" -> "ABORTED_SAFETY"
      [] OTHER -> "DRAINING"

\* Mutant: a repeated stop-intake stamps its event with the repeat's clock.
CommandEventNow(j, r) ==
    Event(j.act, r, j.now, j.now, j.stage = "stop", NoRoll)

\* The event of a command: stop_episode_intake stamps it with the committed
\* instant of the transition, every other command with its own clock.
CommandEvent(j, r) ==
    IF j.stage = "stop"
    THEN Event(j.act, r, r.eff, Later(j.now, r.eff), TRUE, NoRoll)
    ELSE Event(j.act, r, j.now, j.now, FALSE, NoRoll)

\* The transaction of a command that moves one activation.
Write(p) ==
    LET j == proc[p]
        r == Moved(j.act, Target(j.stage), j.now, j.now,
                   j.stage = "stop", j.stage = "stop")
    IN  /\ j.pc = "write"
        /\ j.stage \in {"activate", "pause", "resume", "abort", "stop"}
        /\ IF CanMove(j.act, Target(j.stage))
           THEN /\ Put(j.act, r)
                /\ Go(p, [j EXCEPT !.pc = "append", !.out = <<CommandEvent(j, r)>>])
           ELSE row' = row /\ Go(p, Idle)
        /\ UNCHANGED <<family, clock, events, rollovers, work, lease, admitted, faults>>

\* persist_rollover (INSERT OR IGNORE)
PersistRollover(p) ==
    /\ proc[p].pc = "write" /\ proc[p].stage = "persist"
    /\ rollovers' = rollovers \cup {proc[p].roll}
    /\ Go(p, [proc[p] EXCEPT !.pc = "fence", !.stage = "drainPred"])
    /\ UNCHANGED <<family, clock, row, events, work, lease, admitted, faults>>

\* The two transitions of a rollover, each its own transaction; the two
\* events are only appended after both.
RolloverWrite(p) ==
    LET j == proc[p]
        a == IF j.stage = "drainPred" THEN j.roll.pred ELSE j.roll.succ
        r == Moved(a, Target(j.stage), j.roll.cut, j.now, FALSE, FALSE)
        out == Append(j.out, Event(a, r, j.roll.cut, j.now, FALSE, j.roll))
    IN  /\ j.pc = "write" /\ j.stage \in {"drainPred", "activateSucc"}
        /\ IF CanMove(a, Target(j.stage))
           THEN /\ Put(a, r)
                /\ Go(p, IF j.stage = "drainPred"
                         THEN [j EXCEPT !.pc = "fence", !.stage = "activateSucc",
                                        !.out = out]
                         ELSE [j EXCEPT !.pc = "append", !.out = out])
           ELSE row' = row /\ Go(p, Idle)
        /\ UNCHANGED <<family, clock, events, rollovers, work, lease, admitted, faults>>

\* _append_or_replay of the next event.  A record with the same id and
\* payload is a replay; another payload raises SCHEDULE_IDENTITY_CONFLICT.
AppendEvent(p) ==
    LET j == proc[p]
        e == Head(j.out)
        same == {f \in events : SameId(f, e)}
        ok == \A f \in same : SamePayload(f, e)
        rest == Tail(j.out)
        done == ~ok \/ (rest = <<>> /\ j.next = "idle")
    IN  /\ j.pc = "append"
        /\ events' = IF same = {} THEN events \cup {e} ELSE events
        /\ Go(p, IF done THEN Idle
                 ELSE [j EXCEPT !.pc = IF rest = <<>> THEN j.next ELSE "append",
                                !.out = rest])
        /\ IF done THEN Free(p) ELSE lease' = lease
        /\ UNCHANGED <<family, clock, row, rollovers, work, admitted, faults>>

-----------------------------------------------------------------------------
(* A tick.                                                                 *)

\* Mutant: the timer no longer selects a DRAINING activation.
TickStartActiveOnly(p, a) ==
    /\ proc[p].pc = "idle"
    /\ Projected(a, clock) = "ACTIVE" /\ TransitionProven(a, clock)
    /\ clock >= Starts[a]
    /\ row[a].state \in Live
    /\ Go(p, Job("lease", "tick", a, NoRoll, clock, row[a].state))
    /\ UNCHANGED <<family, clock, row, events, rollovers, work, lease, admitted, faults>>

\* The selection and proof gate of the command line and the checks of
\* tick_once, all of them before the lease.
TickStart(p, a) ==
    /\ proc[p].pc = "idle"
    /\ Projected(a, clock) \in Live
    /\ Projected(a, clock) = "ACTIVE" => TransitionProven(a, clock)
    /\ clock >= Starts[a]
    /\ row[a].state \in Live
    /\ Go(p, Job("lease", "tick", a, NoRoll, clock, row[a].state))
    /\ UNCHANGED <<family, clock, row, events, rollovers, work, lease, admitted, faults>>

TickLease(p) ==
    /\ proc[p].pc = "lease"
    /\ IF lease = NoProc
       THEN lease' = p /\ Go(p, [proc[p] EXCEPT !.pc = "drain"])
       ELSE lease' = lease /\ Go(p, Idle)
    /\ UNCHANGED <<family, clock, row, events, rollovers, work, admitted, faults>>

\* drain_expired_admission.  A row that is not ACTIVE is left alone, its
\* missing event included; the observation tick then keeps the state it read
\* before the lease unless the row says DRAINING.
TickDrain(p) ==
    LET j == proc[p]
        a == j.act
        now == IF j.pc = "redrain" THEN clock ELSE j.now
        r == Moved(a, "DRAINING", now, now, TRUE, FALSE)
        next == IF j.pc = "redrain" THEN "complete" ELSE "poll"
        gates == IF EpisodeLane THEN {} ELSE Gates(a, now)
    IN  /\ j.pc \in {"drain", "redrain"}
        /\ IF row[a].state = "ACTIVE" /\ now >= Stops[a] /\ ~PredBeforeCutover(a, now)
           THEN /\ Put(a, r)
                /\ Go(p, [j EXCEPT !.pc = "append", !.now = now, !.next = next,
                                   !.view = "DRAINING", !.gates = gates,
                                   !.out = <<Event(a, r, now, now, TRUE, NoRoll)>>])
           ELSE /\ row' = row
                /\ Go(p, [j EXCEPT !.pc = next, !.now = now, !.gates = gates,
                             !.view = IF EpisodeLane \/ row[a].state = "DRAINING"
                                      THEN row[a].state ELSE j.view])
        /\ UNCHANGED <<family, clock, events, rollovers, work, lease, admitted, faults>>

CanAdmit(j) ==
    IF EpisodeLane
    THEN j.view = "ACTIVE" /\ clock < Stops[j.act]
    ELSE /\ j.now < Stops[j.act]
         /\ \/ j.view = "ACTIVE"
            \/ j.view = "DRAINING" /\ "pred" \in j.gates
         /\ "succ" \notin j.gates

Held(j) == /\ j.view = "DRAINING" /\ "pred" \in j.gates
           /\ row[j.act].state = "DRAINING" /\ row[j.act].held

\* Mutant: the episode transaction trusts the state read after the lease.
TickAdmitUnchecked(p) ==
    LET j == proc[p]
        at == IF EpisodeLane THEN clock ELSE j.now
    IN  /\ j.pc = "poll" /\ ~Held(j) /\ CanAdmit(j)
        /\ admitted' = admitted \cup {[act |-> j.act, at |-> at]}
        /\ work' = [work EXCEPT ![j.act] = TRUE]
        /\ Go(p, [j EXCEPT !.pc = "due"])
        /\ UNCHANGED <<family, clock, row, events, rollovers, lease, faults>>

\* Discovery and admission: the poll returned members and they are admitted.
\* Only the episode lane looks at the row again, inside the transaction.
TickAdmit(p) ==
    LET j == proc[p]
        at == IF EpisodeLane THEN clock ELSE j.now
    IN  /\ j.pc = "poll" /\ ~Held(j) /\ CanAdmit(j)
        /\ EpisodeLane => row[j.act].state = "ACTIVE"
        /\ admitted' = admitted \cup {[act |-> j.act, at |-> at]}
        /\ work' = [work EXCEPT ![j.act] = TRUE]
        /\ Go(p, [j EXCEPT !.pc = "due"])
        /\ UNCHANGED <<family, clock, row, events, rollovers, lease, faults>>

\* Nothing to admit: no poll, no candidate, or the marker of an earlier stop.
TickSkip(p) ==
    /\ proc[p].pc = "poll"
    /\ IF Held(proc[p]) THEN Go(p, Idle) /\ Free(p)
       ELSE Go(p, [proc[p] EXCEPT !.pc = "due"]) /\ lease' = lease
    /\ UNCHANGED <<family, clock, row, events, rollovers, work, admitted, faults>>

\* A budget or authority stop of the poll.  With the state it read it either
\* marks a DRAINING row (_persist_draining_pre_cutover_stop) or overwrites
\* the row with BLOCKED_*; upsert_activation only protects DRAINING rows.
TickBlocked(p) ==
    LET j == proc[p]
        r == row[j.act]
    IN  /\ j.pc = "poll" /\ ~EpisodeLane /\ ~Held(j) /\ CanAdmit(j)
        /\ row' = [row EXCEPT ![j.act] =
                     IF j.view = "DRAINING"
                     THEN [r EXCEPT !.state = "DRAINING", !.held = TRUE]
                     ELSE IF r.state = "DRAINING" THEN r
                     ELSE Row("BLOCKED", r.seq, "UNREGISTERED", "UNREGISTERED",
                              0, r.created, FALSE, FALSE, FALSE)]
        /\ Go(p, Idle) /\ Free(p)
        /\ UNCHANGED <<family, clock, events, rollovers, work, admitted, faults>>

\* Reserve pressure in an episode tick: it closes intake itself.
TickStopsIntake(p) ==
    LET j == proc[p]
        r == Moved(j.act, "DRAINING", clock, clock, TRUE, TRUE)
    IN  /\ j.pc = "poll" /\ EpisodeLane /\ CanAdmit(j)
        /\ row[j.act].state = "ACTIVE"
        /\ \A c \in rollovers : c.pred # j.act
        /\ Put(j.act, r)
        /\ Go(p, [j EXCEPT !.pc = "append", !.next = "due",
                           !.out = <<Event(j.act, r, r.eff, clock, TRUE, NoRoll)>>])
        /\ UNCHANGED <<family, clock, events, rollovers, work, lease, admitted, faults>>

\* Due rows and publications: obligations may all be settled or not.
TickDue(p) ==
    /\ proc[p].pc = "due"
    /\ \E left \in BOOLEAN :
          /\ left => work[proc[p].act]
          /\ work' = [work EXCEPT ![proc[p].act] = left]
    /\ Go(p, [proc[p] EXCEPT !.pc = IF EpisodeLane THEN "redrain" ELSE "complete"])
    /\ UNCHANGED <<family, clock, row, events, rollovers, lease, admitted, faults>>

\* Mutant: the row's own word is proof enough.
CompletableUnproven(a, now) ==
    /\ row[a].state = "DRAINING" /\ row[a].new = "DRAINING"
    /\ row[a].prior = "ACTIVE"
    /\ row[a].eff <= now
    /\ ~work[a]

\* complete_draining_schedule, the conditions it checks before its transaction
Completable(a, now) ==
    /\ row[a].state = "DRAINING" /\ row[a].new = "DRAINING"
    /\ row[a].prior = "ACTIVE"
    /\ row[a].eff <= now
    /\ ~work[a]
    /\ Evidence(a, 0, now) # {}

\* The observation tick never completes in the tick that closed admission.
TickComplete(p) ==
    LET j == proc[p]
        a == j.act
        turn == IF EpisodeLane THEN row[a].state = "DRAINING"
                ELSE /\ j.view = "DRAINING"
                     /\ "pred" \notin j.gates
                     /\ ~(j.seen = "ACTIVE" /\ j.now >= Stops[a])
        r == Moved(a, "COMPLETE", j.now, j.now, FALSE, FALSE)
    IN  /\ j.pc = "complete"
        /\ IF turn /\ Completable(a, j.now)
           THEN /\ Put(a, r)
                /\ Go(p, [j EXCEPT !.pc = "append", !.next = "idle",
                            !.out = <<Event(a, r, j.now, j.now, FALSE, NoRoll)>>])
                /\ lease' = lease
           ELSE row' = row /\ Go(p, Idle) /\ Free(p)
        /\ UNCHANGED <<family, clock, events, rollovers, work, admitted, faults>>

-----------------------------------------------------------------------------
Tick ==
    /\ clock < MaxTime
    /\ clock' = clock + 1
    /\ UNCHANGED <<family, row, events, rollovers, work, lease, proc, admitted, faults>>

\* The process dies; a lease it held stays until it expires, whatever tick
\* the timer starts in the meantime.
Crash(p) ==
    /\ proc[p].pc # "idle" /\ faults < MaxFaults
    /\ Go(p, Idle)
    /\ faults' = faults + 1
    /\ UNCHANGED <<family, clock, row, events, rollovers, work, lease, admitted>>

\* The research writer is busy: the command or tick ends with an error.
AppendFails(p) ==
    /\ proc[p].pc = "append" /\ faults < MaxFaults
    /\ Go(p, Idle) /\ Free(p)
    /\ faults' = faults + 1
    /\ UNCHANGED <<family, clock, row, events, rollovers, work, admitted>>

LeaseExpires ==
    /\ lease # NoProc /\ proc[lease].pc \in {"idle", "lease"}
    /\ lease' = NoProc
    /\ UNCHANGED <<family, clock, row, events, rollovers, work, proc, admitted, faults>>

OperatorStep(p) == Fence(p) \/ Write(p) \/ PersistRollover(p) \/ RolloverWrite(p)

TickStep(p) ==
    \/ TickLease(p) \/ TickDrain(p) \/ TickAdmit(p) \/ TickSkip(p)
    \/ TickBlocked(p) \/ TickStopsIntake(p) \/ TickDue(p) \/ TickComplete(p)

Next ==
    \/ \E p \in Operators, a \in Acts :
          \/ Activate(p, a) \/ Pause(p, a) \/ Resume(p, a) \/ Abort(p, a)
          \/ StopIntake(p, a)
    \/ \E p \in Operators, c \in Cutovers : Rollover(p, c)
    \/ \E p \in Operators : OperatorStep(p)
    \/ \E p \in Tickers, a \in Acts : TickStart(p, a)
    \/ \E p \in Tickers : TickStep(p)
    \/ \E p \in Procs : AppendEvent(p) \/ Crash(p) \/ AppendFails(p)
    \/ LeaseExpires \/ Tick

Spec == Init /\ [][Next]_vars

\* The timer ticks every candidate again and again, a started tick or command
\* runs on, a dead holder's lease expires, and a settled activation's due
\* rows are eventually all settled (every row has a deadline).  The operator
\* repeats an interrupted stop-intake between ticks until one of its tries
\* finds the lease free: the command is built to be repeated.
FairSpec ==
    /\ Spec
    /\ WF_vars(Tick) /\ WF_vars(LeaseExpires)
    /\ \A p \in Tickers :
          /\ WF_vars(TickStep(p))
          /\ SF_vars(TickDue(p) /\ ~work'[proc[p].act])
          /\ \A a \in Acts : SF_vars(TickStart(p, a))
    /\ \A p \in Operators :
          /\ WF_vars(OperatorStep(p))
          /\ SF_vars(Fence(p) /\ lease = NoProc)
          /\ \A a \in Acts : SF_vars(StopIntake(p, a) /\ row[a].stop /\ lease = NoProc)
    /\ \A p \in Procs : WF_vars(AppendEvent(p))

-----------------------------------------------------------------------------
(* Properties.                                                             *)

Instants == 0 .. MaxTime
RowSet == [state : States, seq : Nat, new : States, prior : States,
           eff : Instants, created : Instants,
           closed : BOOLEAN, stop : BOOLEAN, held : BOOLEAN]
EventSet == [act : Acts, seq : Nat, state : States, prior : States,
             eff : Instants, at : Instants, created : Instants,
             closed : BOOLEAN, stop : BOOLEAN, roll : Cutovers \cup {NoRoll}]
Pcs == {"idle", "fence", "write", "append", "lease", "drain", "redrain",
        "poll", "due", "complete"}
Stages == {"none", "activate", "pause", "resume", "abort", "stop", "tick",
           "persist", "drainPred", "activateSucc"}
JobSet == [pc : Pcs, stage : Stages, act : Acts \cup {NoAct},
           roll : Cutovers \cup {NoRoll}, now : Instants,
           seen : States, view : States,
           gates : SUBSET {"pred", "succ"}, out : Seq(EventSet), next : Pcs]

\* The types of the store, the log and the processes.
TypeOK ==
    /\ family \in Families
    /\ clock \in Instants
    /\ row \in [Acts -> RowSet]
    /\ events \subseteq EventSet
    /\ rollovers \subseteq Cutovers
    /\ work \in [Acts -> BOOLEAN]
    /\ lease \in Procs \cup {NoProc}
    /\ proc \in [Procs -> JobSet]
    /\ admitted \subseteq [act : Acts, at : Instants]
    /\ faults \in Nat

\* The log never runs ahead of the store and one transition has one event,
\* whatever is replayed: an event is of a transition the store has committed,
\* and the event of the row's last transition says what the row says (the
\* append follows the commit in every lifecycle command).
LogMatchesStore ==
    /\ \A e \in events :
         /\ e.seq <= row[e.act].seq
         /\ (e.seq = row[e.act].seq /\ row[e.act].state # "BLOCKED") => IsLast(e, e.act)
    /\ \A e, f \in events : (e.act = f.act /\ e.seq = f.seq) => e = f

\* An activation is COMPLETE only when the log holds the DRAINING transition
\* that closed its admission, effective by then, and it has no open work
\* (complete_draining_schedule, across crashes, rollovers and stale ticks).
CompleteIsProven ==
    \A a \in Acts : row[a].state = "COMPLETE" =>
        /\ ~work[a]
        /\ \E e \in events :
              /\ e.act = a /\ e.state = "DRAINING" /\ e.seq = row[a].seq - 1
              /\ e.at = e.eff /\ e.at <= row[a].eff

\* A successor activated without a rollover, next to a predecessor that is
\* still DRAINING, was let in by the predecessor's closing event in the log,
\* not by its row alone (_require_cohort_cutover_or_unique, although that
\* event may have been lost to a crash or a busy writer).
LateSuccessorIsProven ==
    \A a, b \in Acts :
        (/\ a # b /\ row[a].state = "ACTIVE" /\ row[a].prior = "UNREGISTERED"
         /\ \A c \in rollovers : c.succ # a
         /\ row[b].state = "DRAINING" /\ row[b].closed /\ row[b].eff <= row[a].eff)
            => Evidence(b, 0, clock) # {}

\* A DRAINING activation whose closing transition is in the log completes
\* (or is aborted): ticks find it, settle its work and complete it.
ProvenDrainEnds ==
    \A a \in Acts :
        (row[a].state = "DRAINING" /\ Evidence(a, 0, clock) # {})
            ~> row[a].state # "DRAINING"

\* In the episode lane members are admitted only while the activation is
\* live: no tick admits into an activation that an operator has paused or
\* aborted since the tick read the row (commit_episode_admission).  The
\* observation lane does: it keeps the state it read before the lease.
AdmitsOnlyWhenLive ==
    [][EpisodeLane => \A x \in admitted' \ admitted : row[x.act].state \in Live]_vars

\* Repeating stop-intake after a crash or a failed append brings the missing
\* evidence event into the log, in a form completion accepts.
StopIntakeIsRepaired ==
    \A a \in Acts :
        (row[a].state = "DRAINING" /\ row[a].stop)
            ~> (row[a].state # "DRAINING" \/ Evidence(a, 0, clock) # {})

\* An activation a tick of this instant would admit members into.
Admitting(a) ==
    /\ Starts[a] <= clock /\ clock < Stops[a]
    /\ Projected(a, clock) = "ACTIVE" /\ TransitionProven(a, clock)
    /\ row[a].state \in Live
    /\ ~SuccBeforeCutover(a, clock)

\* Both sides of a rollover admit.
BothAdmit(c) == Admitting(c.pred) /\ Admitting(c.succ)

\* The predecessor's drain is committed, for the cutover or before.
Drained(c) ==
    c \in rollovers /\ row[c.pred].state = "DRAINING" /\ row[c.pred].eff <= c.cut

\* The two sides of a rollover never admit at the same time, whatever write
\* of it a crash or a busy writer left out (rollover_schedule).
HandoverIsExclusive == \A c \in rollovers : ~BothAdmit(c)

\* Once the predecessor's drain is committed its two sides never admit
\* together again, whatever is commanded, repeated, crashed or read too
\* early afterwards, by whomever (rollover_schedule).
DrainedHandoverIsExclusive == \A c \in Cutovers : [](Drained(c) => []~BothAdmit(c))

\* docs/operator/FACTORY_LIFECYCLE_COLLECTOR.md: "at most one same-family
\* admitting activation at any time".  The code does not ensure it: pausing
\* one activation, activating another and resuming the first breaks it.
OneAdmitting == \A a, b \in Acts : Admitting(a) /\ Admitting(b) => a = b

\* _persist_draining_pre_cutover_stop: "Record a discovery stop on a DRAINING
\* row without a lifecycle transition": no discovery stop of a tick brings an
\* aborted activation back to life.  The code does not ensure it: the stop is
\* written from the state the tick read before the abort.
DiscoveryStopIsNoTransition ==
    [][\A a \in Acts : row[a].state = "ABORTED_SAFETY" => row'[a].state \notin Live]_vars

\* docs/operator/FACTORY_LIFECYCLE_COLLECTOR.md: "Before `cutover_at`, the
\* predecessor still has effective `ACTIVE` admission": with every one of its
\* transitions in the log, a tick of a prepared predecessor is not refused.
\* The code refuses it after an activation made before starts_at, whose ACTIVE
\* event is outside the window this proof reads.
PreparedPredecessorAdmits ==
    \A a \in Acts :
        (/\ row[a].state = "DRAINING" /\ row[a].new = "DRAINING"
         /\ Starts[a] <= clock /\ clock < row[a].eff
         /\ \A s \in 1 .. row[a].seq : \E e \in events : e.act = a /\ e.seq = s)
            => TransitionProven(a, clock)
=============================================================================
