--------------------- MODULE ActivationLifecycleProofs ---------------------
(***************************************************************************)
(* Proofs about the lifecycle of the activations of a family, for any      *)
(* number of operators giving any commands.  What is said about the log    *)
(* and about completion is proved for one ticker, as the timer's service   *)
(* is a oneshot; nothing else needs a rule that is kept outside the code.  *)
(***************************************************************************)
EXTENDS ActivationLifecycle, SequenceTheorems, TLAPS

USE LifecycleAssumption

(* The timer's service is a oneshot: there is one ticker. *)
OneTicker == \A t, u \in Tickers : t = u

-----------------------------------------------------------------------------
(* Types, and what a process has in hand.                                  *)

RollStages == {"persist", "drainPred", "activateSucc"}

JobFits(p, j) ==
    /\ j.pc # "idle" => j.act \in Acts
    /\ j.pc = "append" => j.out # <<>>
    /\ j.now <= clock
    /\ p \in Operators =>
          /\ j.pc \in {"idle", "fence", "write", "append"} /\ j.next = "idle"
          /\ j.stage \in RollStages => j.roll \in Cutovers
          /\ j.stage = "stop" => EpisodeLane
          /\ j.stage # "tick"
    /\ p \in Tickers =>
          /\ j.pc \notin {"fence", "write"}
          /\ j.next \in {"idle", "poll", "due", "complete"}

JobOK == \A p \in Procs : JobFits(p, proc[p])

BaseInv == TypeOK /\ JobOK

(* A process changes only itself. *)
LEMMA GoTypes ==
    ASSUME TypeOK, NEW p \in Procs, NEW j \in JobSet, Go(p, j)
    PROVE  /\ proc' \in [Procs -> JobSet] /\ proc'[p] = j
           /\ \A q \in Procs : q # p => proc'[q] = proc[q]
BY DEF TypeOK, Go

(* A store keeps its type when one row changes. *)
LEMMA PutTypes ==
    ASSUME TypeOK, NEW a \in Acts, NEW r \in RowSet, Put(a, r)
    PROVE  /\ row' \in [Acts -> RowSet] /\ row'[a] = r
           /\ \A b \in Acts : b # a => row'[b] = row[b]
BY DEF TypeOK, Put

(* What the assumption on the constants says of the family. *)
LEMMA FamilyTypes ==
    ASSUME TypeOK
    PROVE  /\ \A a \in Acts : Starts[a] \in Nat /\ Stops[a] \in Nat
           /\ EpisodeLane \in BOOLEAN
           /\ \A t \in Instants : t \in Nat
           /\ clock \in Nat
BY DEF TypeOK, Starts, Stops, EpisodeLane, Instants

(* A transition gives a row. *)
LEMMA MovedType ==
    ASSUME NEW a \in Acts, row[a] \in RowSet, NEW new \in States, NEW eff \in Instants,
           NEW now \in Instants, NEW closed \in BOOLEAN, NEW stop \in BOOLEAN
    PROVE  Moved(a, new, eff, now, closed, stop) \in RowSet
BY DEF Moved, Row, RowSet

(* An event made of a row is a record of the log. *)
LEMMA EventType ==
    ASSUME NEW a \in Acts, NEW r \in RowSet, NEW at \in Instants, NEW created \in Instants,
           NEW closed \in BOOLEAN, NEW roll \in Cutovers \cup {NoRoll}
    PROVE  /\ Event(a, r, at, created, closed, roll) \in EventSet
           /\ Event(a, r, at, created, closed, roll).act = a
BY DEF Event, RowSet, EventSet

(* The event of a command is a record of the log. *)
LEMMA CommandEventType ==
    ASSUME NEW j \in JobSet, j.act \in Acts, NEW r \in RowSet
    PROVE  CommandEvent(j, r) \in EventSet
<1>1. j.now \in Instants /\ r.eff \in Instants
  BY DEF JobSet, RowSet
<1>2. Later(j.now, r.eff) \in Instants
  BY <1>1 DEF Later
<1>3. CASE j.stage = "stop"
  BY <1>1, <1>2, <1>3, EventType DEF CommandEvent
<1>4. CASE j.stage # "stop"
  BY <1>1, <1>4, EventType DEF CommandEvent
<1> QED
  BY <1>3, <1>4

(* A row that is read is one; the instants of a job are. *)
LEMMA JobFields ==
    ASSUME TypeOK, NEW p \in Procs
    PROVE  /\ proc[p] \in JobSet /\ proc[p].now \in Instants /\ proc[p].out \in Seq(EventSet)
           /\ proc[p].roll \in Cutovers \cup {NoRoll} /\ proc[p].pc \in Pcs
           /\ proc[p].next \in Pcs
BY DEF TypeOK, JobSet

(* The states and the instants a transition asks for exist. *)
LEMMA StatesKnown ==
    /\ \A s \in Stages : Target(s) \in States
    /\ Live \subseteq States /\ "COMPLETE" \in States /\ "BLOCKED" \in States
    /\ "UNREGISTERED" \in States /\ 0 \in Instants
    /\ \A m, n \in Instants : Later(m, n) \in Instants
BY DEF Target, States, Live, Stopped, Instants, Later, Stages

(* A rollover in hand names two activations and an instant. *)
LEMMA CutoverFields ==
    ASSUME NEW c \in Cutovers
    PROVE  c.pred \in Acts /\ c.succ \in Acts /\ c.cut \in Instants
BY DEF Cutovers, Cutover, Instants

(* Short sequences of events. *)
LEMMA OutFacts ==
    /\ \A e \in EventSet : /\ <<e>> \in Seq(EventSet) /\ <<e>> # <<>>
                           /\ Len(<<e>>) = 1 /\ <<e>>[1] = e
    /\ \A s \in Seq(EventSet), e \in EventSet :
          /\ Append(s, e) \in Seq(EventSet) /\ Append(s, e) # <<>>
          /\ Len(Append(s, e)) = Len(s) + 1
          /\ \A i \in 1 .. Len(s) : Append(s, e)[i] = s[i]
          /\ Append(s, e)[Len(s) + 1] = e
    /\ \A s \in Seq(EventSet) : s # <<>> =>
          /\ Head(s) \in EventSet /\ Head(s) = s[1] /\ Len(s) \in Nat /\ Len(s) > 0
          /\ Tail(s) \in Seq(EventSet) /\ Len(Tail(s)) = Len(s) - 1
          /\ \A i \in 1 .. Len(s) - 1 : Tail(s)[i] = s[i + 1]
BY HeadTailProperties, AppendProperties, LenProperties

(* A new job is one. *)
LEMMA JobType ==
    ASSUME NEW pc \in Pcs, NEW stage \in Stages, NEW a \in Acts \cup {NoAct},
           NEW roll \in Cutovers \cup {NoRoll}, NEW now \in Instants, NEW seen \in States
    PROVE  Job(pc, stage, a, roll, now, seen) \in JobSet
<1>1. <<>> \in Seq(EventSet)
  OBVIOUS
<1>2. {} \in SUBSET {"pred", "succ"} /\ "idle" \in Pcs
  BY DEF Pcs
<1> QED
  BY <1>1, <1>2 DEF Job, JobSet

(* An idle process has nothing in hand. *)
LEMMA IdleType ==
    ASSUME TypeOK, NEW p \in Procs
    PROVE  /\ Idle \in JobSet /\ JobFits(p, Idle)
           /\ Idle.pc = "idle" /\ Idle.out = <<>> /\ Idle.stage = "none"
<1>1. NoRoll \in Cutovers \cup {NoRoll} /\ 0 \in Instants /\ "UNREGISTERED" \in States
  BY StatesKnown
<1>2. "idle" \in Pcs /\ "none" \in Stages
  BY DEF Pcs, Stages
<1>3. Idle \in JobSet
  BY <1>1, <1>2, JobType DEF Idle
<1>4. 0 <= clock
  BY FamilyTypes
<1> QED
  BY <1>3, <1>4 DEF Idle, Job, JobFits, RollStages

(* A step that moves one process keeps the types of the rest. *)
LEMMA BaseKept ==
    ASSUME BaseInv, NEW p \in Procs, NEW j \in JobSet, Go(p, j), JobFits(p, j),
           family' = family, clock' = clock,
           row' \in [Acts -> RowSet], events' \subseteq EventSet,
           rollovers' \subseteq Cutovers, work' \in [Acts -> BOOLEAN],
           lease' \in Procs \cup {NoProc},
           admitted' \subseteq [act : Acts, at : Instants], faults' \in Nat
    PROVE  BaseInv'
<1>1. /\ proc' \in [Procs -> JobSet] /\ proc'[p] = j
      /\ \A q \in Procs : q # p => proc'[q] = proc[q]
  BY GoTypes DEF BaseInv
<1>2. TypeOK'
  BY <1>1 DEF BaseInv, TypeOK
<1>3. \A q \in Procs : JobFits(q, proc[q])
  BY DEF BaseInv, JobOK
<1>4. \A q \in Procs : JobFits(q, proc'[q])
  BY <1>1, <1>3
<1>5. \A q \in Procs : \A k : JobFits(q, k) <=> JobFits(q, k)'
  BY DEF JobFits, EpisodeLane
<1>6. JobOK'
  BY <1>4, <1>5 DEF JobOK, JobFits, EpisodeLane
<1> QED
  BY <1>2, <1>6 DEF BaseInv

(* Init. *)
LEMMA BaseInit == Init => BaseInv
<1> SUFFICES ASSUME Init PROVE BaseInv
  OBVIOUS
<1>1. 0 \in Instants /\ "UNREGISTERED" \in States /\ "idle" \in Pcs /\ "none" \in Stages
  BY DEF Instants, States, Pcs, Stages
<1>2. NoRow \in RowSet
  BY <1>1 DEF NoRow, Row, RowSet
<1>3. Idle \in JobSet
  BY <1>1, JobType DEF Idle
<1>4. TypeOK
  BY <1>1, <1>2, <1>3 DEF Init, TypeOK
<1>5. JobOK
  BY <1>4, IdleType DEF JobOK, Init
<1> QED
  BY <1>4, <1>5 DEF BaseInv

(* A command that was given waits for the fence. *)
LEMMA CommandBase ==
    ASSUME BaseInv, NEW p \in Operators, NEW stage \in Stages \ {"tick"}, NEW a \in Acts,
           NEW roll \in Cutovers \cup {NoRoll},
           stage = "stop" => EpisodeLane,
           stage \in RollStages => roll \in Cutovers,
           Command(p, stage, a, roll),
           UNCHANGED <<family, clock, row, events, rollovers, work, lease, admitted, faults>>
    PROVE  BaseInv'
<1> DEFINE j == Job("fence", stage, a, roll, clock, "UNREGISTERED")
<1>1. "fence" \in Pcs /\ clock \in Instants
  BY DEF Pcs, BaseInv, TypeOK
<1>2. j \in JobSet
  BY <1>1, JobType, StatesKnown
<1>3. clock <= clock
  BY FamilyTypes DEF BaseInv
<1>4. JobFits(p, j)
  BY <1>3 DEF JobFits, Job
<1>5. Go(p, j)
  BY DEF Command
<1> HIDE DEF j
<1> QED
  BY <1>2, <1>4, <1>5, BaseKept DEF BaseInv, TypeOK, Procs

(* Giving a command. *)
LEMMA GiveBase ==
    ASSUME BaseInv, NEW p \in Operators, NEW a \in Acts, NEW c \in Cutovers,
           Activate(p, a) \/ Pause(p, a) \/ Resume(p, a) \/ Abort(p, a) \/ StopIntake(p, a)
             \/ Rollover(p, c)
    PROVE  BaseInv'
<1>1. {"activate", "pause", "resume", "abort", "stop", "persist"} \subseteq Stages \ {"tick"}
  BY DEF Stages
<1>2. NoRoll \in Cutovers \cup {NoRoll} /\ c.pred \in Acts /\ "persist" \in RollStages
  BY CutoverFields DEF RollStages
<1>3. {"activate", "pause", "resume", "abort", "stop"} \cap RollStages = {} /\ "stop" # "persist"
  BY DEF RollStages
<1>4. CASE Pause(p, a) \/ Resume(p, a) \/ Abort(p, a) \/ StopIntake(p, a)
  <2>2. PICK s \in {"pause", "resume", "abort", "stop"} :
           Command(p, s, a, NoRoll) /\ (s = "stop" => EpisodeLane)
    BY <1>4 DEF Pause, Resume, Abort, StopIntake
  <2>3. UNCHANGED <<family, clock, row, events, rollovers, work, lease, admitted, faults>>
    BY <1>4 DEF Pause, Resume, Abort, StopIntake
  <2> QED
    BY <1>1, <1>2, <1>3, <2>2, <2>3, CommandBase
<1>5. CASE Rollover(p, c)
  <2>1. Command(p, "persist", c.pred, c)
    BY <1>5 DEF Rollover
  <2>2. UNCHANGED <<family, clock, row, events, rollovers, work, lease, admitted, faults>>
    BY <1>5 DEF Rollover
  <2> QED
    BY <1>1, <1>2, <1>3, <2>1, <2>2, CommandBase
<1>6. CASE Activate(p, a)
  <2>2. UNCHANGED <<family, clock, row, events, rollovers, work, lease, admitted, faults>>
    BY <1>6 DEF Activate
  <2>3. CASE Command(p, "activate", a, NoRoll)
    BY <1>1, <1>2, <1>3, <2>2, <2>3, CommandBase
  <2>4. CASE Go(p, [Job("append", "activate", a, NoRoll, clock, "UNREGISTERED")
                    EXCEPT !.out = <<Event(a, row[a], row[a].eff,
                                           Later(clock, row[a].eff), FALSE, NoRoll)>>])
    <3> DEFINE e == Event(a, row[a], row[a].eff, Later(clock, row[a].eff), FALSE, NoRoll)
               k == Job("append", "activate", a, NoRoll, clock, "UNREGISTERED")
               j == [k EXCEPT !.out = <<e>>]
    <3>1. row[a] \in RowSet /\ row[a].eff \in Instants /\ clock \in Instants
      BY DEF BaseInv, TypeOK, RowSet
    <3>2. e \in EventSet
      BY <3>1, EventType, StatesKnown
    <3> HIDE DEF e
    <3>3. <<e>> \in Seq(EventSet) /\ <<e>> # <<>>
      BY <3>2, OutFacts
    <3>4. "append" \in Pcs
      BY DEF Pcs
    <3>5. k \in JobSet
      BY <1>1, <3>1, <3>4, JobType, StatesKnown
    <3>6. clock <= clock
      BY FamilyTypes DEF BaseInv
    <3>7. k.pc = "append" /\ k.stage = "activate" /\ k.act = a /\ k.now = clock /\ k.next = "idle"
      BY DEF Job
    <3> HIDE DEF e, k
    <3>8. j \in JobSet /\ j.pc = "append" /\ j.stage = "activate" /\ j.act = a /\ j.now = clock
          /\ j.next = "idle" /\ j.out = <<e>>
      BY <3>3, <3>5, <3>7 DEF JobSet
    <3>9. Go(p, j)
      BY <2>4 DEF e, k
    <3> HIDE DEF j
    <3>10. JobFits(p, j)
      BY <3>3, <3>6, <3>8 DEF JobFits, RollStages
    <3> QED
      BY <2>2, <3>8, <3>9, <3>10, BaseKept DEF BaseInv, TypeOK, Procs
  <2> QED
    BY <1>6, <2>3, <2>4 DEF Activate
<1> QED
  BY <1>4, <1>5, <1>6

(* The fence and the writes of the commands. *)
LEMMA OperatorBase ==
    ASSUME BaseInv, NEW p \in Operators, OperatorStep(p)
    PROVE  BaseInv'
<1> DEFINE j == proc[p]
<1>1. p \in Procs /\ j \in JobSet /\ JobFits(p, j) /\ p \notin Tickers
  BY DEF Procs, BaseInv, TypeOK, JobOK
<1>2. j.now \in Instants /\ j.out \in Seq(EventSet) /\ j.roll \in Cutovers \cup {NoRoll}
      /\ j.stage \in Stages /\ j.act \in Acts \cup {NoAct}
  BY <1>1 DEF JobSet
<1>3. Idle \in JobSet /\ JobFits(p, Idle)
  BY <1>1, IdleType DEF BaseInv
<1>4. {"write", "append", "fence", "idle"} \subseteq Pcs
  BY DEF Pcs
<1>5. CASE Fence(p)
  <2> DEFINE k == IF lease = NoProc THEN [j EXCEPT !.pc = "write"] ELSE Idle
  <2>1. k \in JobSet
    BY <1>1, <1>3, <1>4 DEF JobSet
  <2>2. JobFits(p, k)
    BY <1>1, <1>3, <1>5 DEF JobFits, JobSet, Fence
  <2>3. Go(p, k)
    BY <1>5 DEF Fence
  <2> HIDE DEF j, k
  <2> QED
    BY <1>1, <1>5, <2>1, <2>2, <2>3, BaseKept DEF Fence, BaseInv, TypeOK
<1>6. CASE PersistRollover(p)
  <2> DEFINE k == [j EXCEPT !.pc = "fence", !.stage = "drainPred"]
  <2>0. "drainPred" \in Stages
    BY DEF Stages
  <2>1. k \in JobSet
    BY <1>1, <1>4, <2>0 DEF JobSet
  <2>2. JobFits(p, k) /\ j.roll \in Cutovers
    BY <1>1, <1>6 DEF JobFits, JobSet, PersistRollover, RollStages
  <2>3. Go(p, k)
    BY <1>6 DEF PersistRollover
  <2>4. rollovers' \subseteq Cutovers
    BY <1>6, <2>2 DEF PersistRollover, BaseInv, TypeOK
  <2> HIDE DEF j, k
  <2> QED
    BY <1>1, <1>6, <2>1, <2>2, <2>3, <2>4, BaseKept DEF PersistRollover, BaseInv, TypeOK
<1>7. CASE Write(p)
  <2> DEFINE a == j.act
             r == Moved(a, Target(j.stage), j.now, j.now, j.stage = "stop", j.stage = "stop")
             e == CommandEvent(j, r)
             k == [j EXCEPT !.pc = "append", !.out = <<e>>]
  <2>1. a \in Acts
    BY <1>1, <1>7 DEF Write, JobFits
  <2>2. row[a] \in RowSet /\ Target(j.stage) \in States
    BY <1>2, <2>1, StatesKnown DEF BaseInv, TypeOK
  <2>3. r \in RowSet
    BY <1>2, <2>1, <2>2, MovedType
  <2>4. e \in EventSet
    <3>1. r.eff \in Instants /\ Later(j.now, r.eff) \in Instants
      BY <1>2, <2>3, StatesKnown DEF RowSet
    <3> HIDE DEF r, j
    <3> QED
      BY <1>2, <2>1, <2>3, <3>1, EventType DEF CommandEvent
  <2> HIDE DEF e, r
  <2>5. <<e>> \in Seq(EventSet) /\ <<e>> # <<>>
    BY <2>4
  <2>6. k \in JobSet /\ k.out = <<e>>
    BY <1>1, <1>4, <2>5 DEF JobSet
  <2>7. JobFits(p, k)
    BY <1>1, <1>7, <2>5, <2>6 DEF JobFits, JobSet, Write
  <2>8. CASE Put(a, r) /\ Go(p, k)
    <3>1. row' \in [Acts -> RowSet]
      BY <2>1, <2>3, <2>8, PutTypes DEF BaseInv
    <3> HIDE DEF j, k
    <3> QED
      BY <1>1, <1>7, <2>6, <2>7, <2>8, <3>1, BaseKept DEF Write, BaseInv, TypeOK
  <2>9. CASE row' = row /\ Go(p, Idle)
    <3> HIDE DEF j, k
    <3> QED
      BY <1>1, <1>3, <1>7, <2>9, BaseKept DEF Write, BaseInv, TypeOK
  <2> QED
    BY <1>7, <2>8, <2>9 DEF Write, r, e
<1>8. CASE RolloverWrite(p)
  <2> DEFINE a == IF j.stage = "drainPred" THEN j.roll.pred ELSE j.roll.succ
             r == Moved(a, Target(j.stage), j.roll.cut, j.now, FALSE, FALSE)
             e == Event(a, r, j.roll.cut, j.now, FALSE, j.roll)
             out == Append(j.out, e)
             k == IF j.stage = "drainPred"
                  THEN [j EXCEPT !.pc = "fence", !.stage = "activateSucc", !.out = out]
                  ELSE [j EXCEPT !.pc = "append", !.out = out]
  <2>1. j.roll \in Cutovers
    BY <1>1, <1>8 DEF RolloverWrite, JobFits, RollStages
  <2>2. a \in Acts /\ j.roll.cut \in Instants
    BY <2>1, CutoverFields
  <2>3. row[a] \in RowSet /\ Target(j.stage) \in States
    BY <1>2, <2>2, StatesKnown DEF BaseInv, TypeOK
  <2>4. r \in RowSet
    BY <1>2, <2>2, <2>3, MovedType
  <2>5. e \in EventSet
    BY <1>2, <2>1, <2>2, <2>4, EventType
  <2> HIDE DEF e, r
  <2>6. out \in Seq(EventSet) /\ out # <<>>
    BY <1>2, <2>5, OutFacts
  <2> HIDE DEF out
  <2>7. k \in JobSet
    <3>1. "activateSucc" \in Stages
      BY DEF Stages
    <3> QED
      BY <1>1, <1>4, <2>6, <3>1 DEF JobSet
  <2>8. JobFits(p, k)
    BY <1>1, <1>8, <2>1, <2>6, <2>7 DEF JobFits, JobSet, RolloverWrite, RollStages
  <2>9. CASE Put(a, r) /\ Go(p, k)
    <3> HIDE DEF a
    <3>1. row' \in [Acts -> RowSet]
      BY <2>2, <2>4, <2>9, PutTypes DEF BaseInv
    <3> HIDE DEF j, k
    <3> QED
      BY <1>1, <1>8, <2>7, <2>8, <2>9, <3>1, BaseKept DEF RolloverWrite, BaseInv, TypeOK
  <2>10. CASE row' = row /\ Go(p, Idle)
    <3> HIDE DEF j, k
    <3> QED
      BY <1>1, <1>3, <1>8, <2>10, BaseKept DEF RolloverWrite, BaseInv, TypeOK
  <2> QED
    BY <1>8, <2>9, <2>10 DEF RolloverWrite, r, e, out
<1> QED
  BY <1>5, <1>6, <1>7, <1>8 DEF OperatorStep

(* The next event of a command or a tick. *)
LEMMA AppendBase ==
    ASSUME BaseInv, NEW p \in Procs, AppendEvent(p)
    PROVE  BaseInv'
<1> DEFINE j == proc[p]
           e == Head(j.out)
           same == {f \in events : SameId(f, e)}
           rest == Tail(j.out)
           done == ~(\A f \in same : SamePayload(f, e)) \/ (rest = <<>> /\ j.next = "idle")
           k == [j EXCEPT !.pc = IF rest = <<>> THEN j.next ELSE "append", !.out = rest]
           n == IF done THEN Idle ELSE k
<1>1. j \in JobSet /\ JobFits(p, j) /\ j.out \in Seq(EventSet) /\ j.next \in Pcs /\ j.pc = "append"
  BY JobFields DEF BaseInv, JobOK, AppendEvent
<1>2. e \in EventSet /\ rest \in Seq(EventSet)
  BY <1>1, OutFacts DEF JobFits
<1>3. events' \subseteq EventSet
  BY <1>2 DEF AppendEvent, BaseInv, TypeOK
<1>4. Idle \in JobSet /\ JobFits(p, Idle) /\ "append" \in Pcs
  BY IdleType DEF BaseInv, Pcs
<1>5. Go(p, n)
  BY DEF AppendEvent
<1> HIDE DEF done
<1>6. done \/ rest # <<>> \/ j.next # "idle"
  BY DEF done
<1> HIDE DEF same, e, rest
<1>7. k \in JobSet
  BY <1>1, <1>2, <1>4 DEF JobSet
<1>8. done \/ JobFits(p, k)
  <2>1. /\ k.pc = IF rest = <<>> THEN j.next ELSE "append"
        /\ k.out = rest /\ k.act = j.act /\ k.now = j.now /\ k.next = j.next
        /\ k.stage = j.stage /\ k.roll = j.roll
    BY <1>1 DEF JobSet
  <2>2. done \/ (p \in Tickers /\ j.next \in {"poll", "due", "complete"}) \/ rest # <<>>
    BY <1>1, <1>6 DEF JobFits, Procs
  <2> HIDE DEF k, j
  <2>3. CASE rest = <<>>
    BY <1>1, <2>1, <2>2, <2>3 DEF JobFits
  <2>4. CASE rest # <<>>
    BY <1>1, <2>1, <2>4 DEF JobFits
  <2> QED
    BY <2>3, <2>4
<1>9. n \in JobSet /\ JobFits(p, n)
  BY <1>4, <1>7, <1>8
<1>10. lease' \in Procs \cup {NoProc}
  BY DEF AppendEvent, Free, BaseInv, TypeOK
<1> HIDE DEF j, k, n
<1> QED
  BY <1>3, <1>5, <1>9, <1>10, BaseKept DEF AppendEvent, BaseInv, TypeOK

(* The start of a tick and its lease. *)
LEMMA StartBase ==
    ASSUME BaseInv, NEW p \in Tickers, NEW a \in Acts, TickStart(p, a) \/ TickLease(p)
    PROVE  BaseInv'
<1> DEFINE j == proc[p]
<1>1. j \in JobSet /\ JobFits(p, j) /\ p \in Procs /\ p \notin Operators
  BY JobFields DEF BaseInv, JobOK, Procs
<1>2. Idle \in JobSet /\ JobFits(p, Idle)
  BY <1>1, IdleType DEF BaseInv
<1>3. CASE TickStart(p, a)
  <2> DEFINE k == Job("lease", "tick", a, NoRoll, clock, row[a].state)
  <2>1. row[a].state \in States /\ clock \in Instants /\ clock <= clock
    BY FamilyTypes DEF BaseInv, TypeOK, RowSet
  <2>2. "lease" \in Pcs /\ "tick" \in Stages
    BY DEF Pcs, Stages
  <2>3. k \in JobSet
    BY <2>1, <2>2, JobType
  <2>4. JobFits(p, k)
    BY <1>1, <2>1 DEF JobFits, Job
  <2>5. Go(p, k)
    BY <1>3 DEF TickStart
  <2> HIDE DEF k
  <2> QED
    BY <1>1, <1>3, <2>3, <2>4, <2>5, BaseKept DEF TickStart, BaseInv, TypeOK
<1>4. CASE TickLease(p)
  <2> DEFINE k == [j EXCEPT !.pc = "drain"]
             n == IF lease = NoProc THEN k ELSE Idle
  <2>1. "drain" \in Pcs
    BY DEF Pcs
  <2>2. k \in JobSet
    BY <1>1, <2>1 DEF JobSet
  <2>3. JobFits(p, k)
    BY <1>1, <1>4, <2>2 DEF JobFits, JobSet, TickLease
  <2>4. Go(p, n) /\ lease' \in Procs \cup {NoProc}
    BY <1>1, <1>4 DEF TickLease, BaseInv, TypeOK
  <2>5. n \in JobSet /\ JobFits(p, n)
    BY <1>2, <2>2, <2>3
  <2> HIDE DEF j, k, n
  <2> QED
    BY <1>1, <1>4, <2>4, <2>5, BaseKept DEF TickLease, BaseInv, TypeOK
<1> QED
  BY <1>3, <1>4

(* The drain of a tick. *)
LEMMA DrainBase ==
    ASSUME BaseInv, NEW p \in Tickers, TickDrain(p)
    PROVE  BaseInv'
<1> DEFINE j == proc[p]
           a == j.act
           now == IF j.pc = "redrain" THEN clock ELSE j.now
           r == Moved(a, "DRAINING", now, now, TRUE, FALSE)
           next == IF j.pc = "redrain" THEN "complete" ELSE "poll"
           gates == IF EpisodeLane THEN {} ELSE Gates(a, now)
           e == Event(a, r, now, now, TRUE, NoRoll)
           k == [j EXCEPT !.pc = "append", !.now = now, !.next = next,
                          !.view = "DRAINING", !.gates = gates, !.out = <<e>>]
           view == IF EpisodeLane \/ row[a].state = "DRAINING" THEN row[a].state ELSE j.view
           n == [j EXCEPT !.pc = next, !.now = now, !.gates = gates, !.view = view]
<1>1. j \in JobSet /\ JobFits(p, j) /\ p \in Procs /\ p \notin Operators
  BY JobFields DEF BaseInv, JobOK, Procs
<1>2. a \in Acts /\ now \in Instants /\ now <= clock
  BY <1>1, FamilyTypes DEF JobFits, JobSet, BaseInv, TypeOK, TickDrain
<1>3. row[a] \in RowSet /\ "DRAINING" \in States /\ row[a].state \in States
  BY <1>2 DEF BaseInv, TypeOK, States, Live, RowSet
<1>4. r \in RowSet
  BY <1>2, <1>3, MovedType
<1>5. e \in EventSet
  BY <1>2, <1>4, EventType
<1>6. gates \in SUBSET {"pred", "succ"}
  BY DEF Gates
<1>7. next \in Pcs /\ "append" \in Pcs /\ next \in {"complete", "poll"}
  BY DEF Pcs
<1>8. row' \in [Acts -> RowSet]
  BY <1>2, <1>4, PutTypes DEF TickDrain, BaseInv, TypeOK
<1>9. view \in States
  BY <1>1, <1>3 DEF JobSet
<1>10. (Go(p, k) \/ Go(p, n))
  BY DEF TickDrain
<1> HIDE DEF e, now, next, gates, view
<1>11. <<e>> \in Seq(EventSet) /\ <<e>> # <<>>
  BY <1>5, OutFacts
<1>12. k \in JobSet /\ n \in JobSet
  BY <1>1, <1>2, <1>3, <1>6, <1>7, <1>9, <1>11 DEF JobSet
<1>13. JobFits(p, k)
  BY <1>1, <1>2, <1>7, <1>11, <1>12 DEF JobFits, JobSet
<1>14. JobFits(p, n)
  BY <1>1, <1>2, <1>7, <1>12 DEF JobFits, JobSet
<1> HIDE DEF j, k, n
<1> QED
  BY <1>1, <1>8, <1>10, <1>12, <1>13, <1>14, BaseKept DEF TickDrain, BaseInv, TypeOK

(* Admission, or what a tick does instead. *)
LEMMA PollBase ==
    ASSUME BaseInv, NEW p \in Tickers,
           TickAdmit(p) \/ TickSkip(p) \/ TickBlocked(p) \/ TickStopsIntake(p) \/ TickDue(p)
    PROVE  BaseInv'
<1> DEFINE j == proc[p]
           a == j.act
<1>1. j \in JobSet /\ JobFits(p, j) /\ p \in Procs /\ p \notin Operators
  BY JobFields DEF BaseInv, JobOK, Procs
<1>2. Idle \in JobSet /\ JobFits(p, Idle)
  BY <1>1, IdleType DEF BaseInv
<1>3. j.pc \in {"poll", "due"}
  BY DEF TickAdmit, TickSkip, TickBlocked, TickStopsIntake, TickDue
<1>4. a \in Acts /\ row[a] \in RowSet /\ work \in [Acts -> BOOLEAN]
  BY <1>1, <1>3 DEF JobFits, BaseInv, TypeOK
<1>5. {"due", "redrain", "complete", "append"} \subseteq Pcs
  BY DEF Pcs
<1>6. \A pc \in {"due", "redrain", "complete"} :
         [j EXCEPT !.pc = pc] \in JobSet /\ JobFits(p, [j EXCEPT !.pc = pc])
  BY <1>1, <1>3, <1>5 DEF JobFits, JobSet
<1>7. lease \in Procs \cup {NoProc} /\ NoProc \in Procs \cup {NoProc}
  BY DEF BaseInv, TypeOK
<1>8. CASE TickAdmit(p)
  <2>1. admitted' \subseteq [act : Acts, at : Instants] /\ work' \in [Acts -> BOOLEAN]
    BY <1>1, <1>4, <1>8 DEF TickAdmit, BaseInv, TypeOK, JobSet
  <2>2. Go(p, [j EXCEPT !.pc = "due"])
    BY <1>8 DEF TickAdmit
  <2> HIDE DEF j
  <2> QED
    BY <1>1, <1>6, <1>8, <2>1, <2>2, BaseKept DEF TickAdmit, BaseInv, TypeOK
<1>9. CASE TickSkip(p)
  <2> DEFINE n == IF Held(j) THEN Idle ELSE [j EXCEPT !.pc = "due"]
  <2>1. Go(p, n) /\ lease' \in Procs \cup {NoProc}
    BY <1>7, <1>9 DEF TickSkip, Free
  <2>2. n \in JobSet /\ JobFits(p, n)
    BY <1>2, <1>6
  <2> HIDE DEF j, n
  <2> QED
    BY <1>1, <1>9, <2>1, <2>2, BaseKept DEF TickSkip, BaseInv, TypeOK
<1>10. CASE TickBlocked(p)
  <2> DEFINE r == row[a]
             q == IF j.view = "DRAINING"
                  THEN [r EXCEPT !.state = "DRAINING", !.held = TRUE]
                  ELSE IF r.state = "DRAINING" THEN r
                  ELSE Row("BLOCKED", r.seq, "UNREGISTERED", "UNREGISTERED",
                           0, r.created, FALSE, FALSE, FALSE)
  <2>1. q \in RowSet
    BY <1>4, StatesKnown DEF RowSet, Row, States, Live
  <2>2. Put(a, q) /\ Go(p, Idle) /\ lease' \in Procs \cup {NoProc}
    BY <1>7, <1>10 DEF TickBlocked, Put, Free
  <2> HIDE DEF q, a, j
  <2>3. row' \in [Acts -> RowSet]
    BY <1>4, <2>1, <2>2, PutTypes DEF BaseInv
  <2> QED
    BY <1>1, <1>2, <1>10, <2>2, <2>3, BaseKept DEF TickBlocked, BaseInv, TypeOK
<1>11. CASE TickStopsIntake(p)
  <2> DEFINE r == Moved(a, "DRAINING", clock, clock, TRUE, TRUE)
             e == Event(a, r, r.eff, clock, TRUE, NoRoll)
             k == [j EXCEPT !.pc = "append", !.next = "due", !.out = <<e>>]
  <2>1. clock \in Instants /\ "DRAINING" \in States
    BY DEF BaseInv, TypeOK, States, Live
  <2>2. r \in RowSet
    BY <1>4, <2>1, MovedType
  <2>3. r.eff \in Instants
    BY <2>2 DEF RowSet
  <2> HIDE DEF r
  <2>4. e \in EventSet
    BY <1>4, <2>1, <2>2, <2>3, EventType
  <2> HIDE DEF e
  <2>5. <<e>> \in Seq(EventSet) /\ <<e>> # <<>>
    BY <2>4, OutFacts
  <2>6. k \in JobSet
    BY <1>1, <1>5, <2>5 DEF JobSet
  <2>7. JobFits(p, k)
    BY <1>1, <1>3, <2>5, <2>6 DEF JobFits, JobSet
  <2>8. Go(p, k) /\ Put(a, r)
    BY <1>11 DEF TickStopsIntake, e, r
  <2> HIDE DEF k, a, j
  <2>9. row' \in [Acts -> RowSet]
    BY <1>4, <2>2, <2>8, PutTypes DEF BaseInv
  <2> QED
    BY <1>1, <1>11, <2>6, <2>7, <2>8, <2>9, BaseKept DEF TickStopsIntake, BaseInv, TypeOK
<1>12. CASE TickDue(p)
  <2> DEFINE pc == IF EpisodeLane THEN "redrain" ELSE "complete"
  <2>1. work' \in [Acts -> BOOLEAN]
    BY <1>4, <1>12 DEF TickDue
  <2>2. Go(p, [j EXCEPT !.pc = pc]) /\ pc \in {"due", "redrain", "complete"}
    BY <1>12 DEF TickDue
  <2> HIDE DEF j, pc
  <2> QED
    BY <1>1, <1>6, <1>12, <2>1, <2>2, BaseKept DEF TickDue, BaseInv, TypeOK
<1> QED
  BY <1>8, <1>9, <1>10, <1>11, <1>12

(* Completion. *)
LEMMA CompleteBase ==
    ASSUME BaseInv, NEW p \in Tickers, TickComplete(p)
    PROVE  BaseInv'
<1> DEFINE j == proc[p]
           a == j.act
           r == Moved(a, "COMPLETE", j.now, j.now, FALSE, FALSE)
           e == Event(a, r, j.now, j.now, FALSE, NoRoll)
           k == [j EXCEPT !.pc = "append", !.next = "idle", !.out = <<e>>]
<1>1. j \in JobSet /\ JobFits(p, j) /\ p \in Procs /\ p \notin Operators
  BY JobFields DEF BaseInv, JobOK, Procs
<1>2. Idle \in JobSet /\ JobFits(p, Idle)
  BY <1>1, IdleType DEF BaseInv
<1>3. j.pc = "complete" /\ j.now \in Instants /\ "append" \in Pcs /\ "idle" \in Pcs
  BY <1>1 DEF TickComplete, JobSet, Pcs
<1>4. a \in Acts /\ row[a] \in RowSet /\ NoProc \in Procs \cup {NoProc}
  BY <1>1, <1>3 DEF JobFits, BaseInv, TypeOK
<1>5. r \in RowSet
  BY <1>3, <1>4, MovedType, StatesKnown
<1>6. e \in EventSet
  BY <1>3, <1>4, <1>5, EventType
<1>7. (Put(a, r) /\ Go(p, k) /\ lease' = lease) \/ (row' = row /\ Go(p, Idle) /\ Free(p))
  BY DEF TickComplete
<1> HIDE DEF r, e
<1>8. <<e>> \in Seq(EventSet) /\ <<e>> # <<>>
  BY <1>6, OutFacts
<1>9. k \in JobSet
  BY <1>1, <1>3, <1>8 DEF JobSet
<1>10. JobFits(p, k)
  BY <1>1, <1>3, <1>8, <1>9 DEF JobFits, JobSet
<1> HIDE DEF k, a, j
<1>11. row' \in [Acts -> RowSet]
  BY <1>4, <1>5, <1>7, PutTypes DEF BaseInv, TypeOK
<1>12. lease' \in Procs \cup {NoProc}
  BY <1>7 DEF Free, BaseInv, TypeOK
<1> QED
  BY <1>1, <1>2, <1>7, <1>9, <1>10, <1>11, <1>12, BaseKept DEF TickComplete, BaseInv, TypeOK

(* The clock, and what goes wrong. *)
LEMMA WorldBase ==
    ASSUME BaseInv,
           \/ Tick \/ LeaseExpires \/ UNCHANGED vars
           \/ \E p \in Procs : Crash(p) \/ AppendFails(p)
    PROVE  BaseInv'
<1>1. NoProc \in Procs \cup {NoProc}
  OBVIOUS
<1>2. CASE \E p \in Procs : Crash(p) \/ AppendFails(p)
  <2> PICK p \in Procs : Crash(p) \/ AppendFails(p)
    BY <1>2
  <2>0. Idle \in JobSet /\ JobFits(p, Idle)
    BY IdleType DEF BaseInv
  <2>1. Go(p, Idle) /\ lease' \in Procs \cup {NoProc} /\ faults' \in Nat
    BY <1>1, <2>0 DEF Crash, AppendFails, Free, BaseInv, TypeOK
  <2> QED
    BY <2>0, <2>1, BaseKept DEF Crash, AppendFails, BaseInv, TypeOK
<1>3. CASE Tick
  <2>1. clock' \in Instants /\ clock \in Nat /\ clock <= clock' /\ clock' \in Nat
    BY <1>3, FamilyTypes DEF Tick, BaseInv, TypeOK, Instants
  <2>2. TypeOK'
    BY <1>3, <2>1 DEF Tick, BaseInv, TypeOK
  <2>3. \A q \in Procs : proc[q] \in JobSet /\ JobFits(q, proc[q])
    BY DEF BaseInv, TypeOK, JobOK
  <2>4. \A q \in Procs : proc[q].now \in Nat
    BY <2>3 DEF JobSet, Instants
  <2>5. JobOK'
    BY <1>3, <2>1, <2>3, <2>4 DEF Tick, JobOK, JobFits, EpisodeLane
  <2> QED
    BY <2>2, <2>5 DEF BaseInv
<1>4. CASE LeaseExpires \/ UNCHANGED vars
  <2>1. TypeOK'
    BY <1>1, <1>4 DEF LeaseExpires, vars, BaseInv, TypeOK
  <2>2. JobOK'
    BY <1>4 DEF LeaseExpires, vars, BaseInv, JobOK, JobFits, EpisodeLane
  <2> QED
    BY <2>1, <2>2 DEF BaseInv
<1> QED
  BY <1>2, <1>3, <1>4

(* Every step keeps the types. *)
LEMMA BaseStep == BaseInv /\ [Next]_vars => BaseInv'
<1> SUFFICES ASSUME BaseInv, [Next]_vars PROVE BaseInv'
  OBVIOUS
<1>1. CASE \E p \in Operators, a \in Acts :
              Activate(p, a) \/ Pause(p, a) \/ Resume(p, a) \/ Abort(p, a) \/ StopIntake(p, a)
  <2> PICK p \in Operators, a \in Acts :
             Activate(p, a) \/ Pause(p, a) \/ Resume(p, a) \/ Abort(p, a) \/ StopIntake(p, a)
    BY <1>1
  <2> Cutover(a, a, 0) \in Cutovers
    BY DEF Cutovers
  <2> QED
    BY GiveBase
<1>2. CASE \E p \in Operators, c \in Cutovers : Rollover(p, c)
  BY <1>2, GiveBase, CutoverFields
<1>3. CASE \E p \in Operators : OperatorStep(p)
  BY <1>3, OperatorBase
<1>4. CASE \E p \in Tickers, a \in Acts : TickStart(p, a)
  BY <1>4, StartBase
<1>5. CASE \E p \in Tickers : TickStep(p)
  <2> PICK p \in Tickers : TickStep(p)
    BY <1>5
  <2>1. CASE TickLease(p)
    <3>1. proc[p].act \in Acts
      BY <2>1 DEF BaseInv, JobOK, JobFits, Procs, TickLease
    <3> QED
      BY <2>1, <3>1, StartBase
  <2>2. CASE TickDrain(p)
    BY <2>2, DrainBase
  <2>3. CASE TickComplete(p)
    BY <2>3, CompleteBase
  <2> QED
    BY <2>1, <2>2, <2>3, PollBase DEF TickStep
<1>6. CASE \E p \in Procs : AppendEvent(p)
  BY <1>6, AppendBase
<1>7. CASE \/ Tick \/ LeaseExpires \/ UNCHANGED vars
           \/ \E p \in Procs : Crash(p) \/ AppendFails(p)
  BY <1>7, WorldBase
<1> QED
  BY <1>1, <1>2, <1>3, <1>4, <1>5, <1>6, <1>7 DEF Next

(* The store, the log and the processes keep their types for any family,   *)
(* any operators and any number of tickers.                                *)
THEOREM LifecycleTypes == Spec => []TypeOK
<1>1. Init => BaseInv
  BY BaseInit
<1>2. BaseInv /\ [Next]_vars => BaseInv'
  BY BaseStep
<1>3. BaseInv => TypeOK
  BY DEF BaseInv
<1> QED
  BY <1>1, <1>2, <1>3, PTL DEF Spec

(* In the episode lane members are admitted only while the activation is   *)
(* live: whatever an operator did since the tick read the row.             *)
THEOREM LifecycleAdmitsOnlyWhenLive == Spec => AdmitsOnlyWhenLive
<1> DEFINE Admits == EpisodeLane => \A x \in admitted' \ admitted : row[x.act].state \in Live
<1>1. BaseInv /\ [Next]_vars => [Admits]_vars
  <2> SUFFICES ASSUME BaseInv, Next PROVE Admits
    BY DEF vars
  <2>1. CASE \E p \in Tickers : TickAdmit(p)
    <3> PICK p \in Tickers : TickAdmit(p)
      BY <2>1
    <3>1. EpisodeLane => row[proc[p].act].state = "ACTIVE"
      BY DEF TickAdmit
    <3>2. \A x \in admitted' \ admitted : x.act = proc[p].act
      BY DEF TickAdmit
    <3> QED
      BY <3>1, <3>2 DEF Live
  <2>2. CASE admitted' = admitted
    BY <2>2
  <2>3. CASE \/ \E p \in Operators, a \in Acts :
                  \/ Activate(p, a) \/ Pause(p, a) \/ Resume(p, a) \/ Abort(p, a)
                  \/ StopIntake(p, a)
             \/ \E p \in Operators, c \in Cutovers : Rollover(p, c)
    BY <2>2, <2>3 DEF Activate, Pause, Resume, Abort, StopIntake, Rollover
  <2>4. CASE \E p \in Operators : OperatorStep(p)
    BY <2>2, <2>4 DEF OperatorStep, Fence, Write, PersistRollover, RolloverWrite
  <2>5. CASE \/ \E p \in Tickers, a \in Acts : TickStart(p, a)
             \/ \E p \in Tickers : TickLease(p) \/ TickDrain(p) \/ TickSkip(p)
    BY <2>2, <2>5 DEF TickStart, TickLease, TickDrain, TickSkip
  <2>6. CASE \E p \in Tickers : TickBlocked(p) \/ TickStopsIntake(p) \/ TickDue(p)
                                  \/ TickComplete(p)
    BY <2>2, <2>6 DEF TickBlocked, TickStopsIntake, TickDue, TickComplete
  <2>7. CASE \/ \E p \in Procs : AppendEvent(p) \/ Crash(p) \/ AppendFails(p)
             \/ LeaseExpires \/ Tick
    BY <2>2, <2>7 DEF AppendEvent, Crash, AppendFails, LeaseExpires, Tick
  <2> QED
    BY <2>1, <2>3, <2>4, <2>5, <2>6, <2>7 DEF Next, TickStep
<1> QED
  BY <1>1, BaseInit, BaseStep, PTL DEF Spec, AdmitsOnlyWhenLive

-----------------------------------------------------------------------------
(* The log and the store.                                                  *)

Outs(s) == {s[i] : i \in 1 .. Len(s)}
Pending(p) == Outs(proc[p].out)

(* What the log says, or some process is about to say. *)
Said == events \cup UNION {Pending(p) : p \in Procs}

InStep(e) ==
    /\ e.seq <= row[e.act].seq
    /\ (e.seq = row[e.act].seq /\ row[e.act].state # "BLOCKED") => IsLast(e, e.act)

SaidOK == \A e \in Said : InStep(e)
IdsOK == \A e, f \in Said : (e.act = f.act /\ e.seq = f.seq) => SameId(e, f)
OnceOK == \A e, f \in events : (e.act = f.act /\ e.seq = f.seq) => e = f

(* A tick that may still write its row. *)
Busy(p) == /\ proc[p].pc # "idle"
           /\ proc[p].pc = "append" => proc[p].next # "idle"

(* With one ticker the row of the activation it is in is neither blocked   *)
(* nor complete.                                                           *)
BusyOK == \A p \in Tickers : Busy(p) => row[proc[p].act].state \notin {"BLOCKED", "COMPLETE"}

LogInv == BaseInv /\ SaidOK /\ IdsOK /\ OnceOK /\ BusyOK /\ CompleteIsProven

(* What is in a sequence of events. *)
LEMMA OutsFacts ==
    /\ Outs(<<>>) = {}
    /\ \A e \in EventSet : Outs(<<e>>) = {e}
    /\ \A s \in Seq(EventSet), e \in EventSet : Outs(Append(s, e)) \subseteq Outs(s) \cup {e}
    /\ \A s \in Seq(EventSet) : Outs(s) \subseteq EventSet
    /\ \A s \in Seq(EventSet) : s # <<>> =>
          Head(s) \in Outs(s) /\ Outs(Tail(s)) \subseteq Outs(s)
<1>1. Outs(<<>>) = {}
  BY DEF Outs
<1>2. ASSUME NEW e \in EventSet PROVE Outs(<<e>>) = {e}
  BY <1>2, OutFacts DEF Outs
<1>3. ASSUME NEW s \in Seq(EventSet), NEW e \in EventSet
      PROVE  Outs(Append(s, e)) \subseteq Outs(s) \cup {e}
  <2>1. Len(s) \in Nat
    BY LenProperties
  <2> SUFFICES ASSUME NEW i \in 1 .. Len(Append(s, e))
               PROVE  Append(s, e)[i] \in Outs(s) \cup {e}
    BY DEF Outs
  <2>2. i \in 1 .. Len(s) \/ i = Len(s) + 1
    BY <2>1, OutFacts
  <2> QED
    BY <2>2, OutFacts DEF Outs
<1>4. ASSUME NEW s \in Seq(EventSet) PROVE Outs(s) \subseteq EventSet
  BY ElementOfSeq DEF Outs
<1>5. ASSUME NEW s \in Seq(EventSet), s # <<>>
      PROVE  Head(s) \in Outs(s) /\ Outs(Tail(s)) \subseteq Outs(s)
  <2>1. Head(s) = s[1] /\ Len(s) \in Nat /\ Len(s) > 0 /\ Len(Tail(s)) = Len(s) - 1
        /\ \A i \in 1 .. Len(s) - 1 : Tail(s)[i] = s[i + 1]
    BY <1>5, OutFacts
  <2>2. 1 \in 1 .. Len(s) /\ \A i \in 1 .. Len(s) - 1 : i + 1 \in 1 .. Len(s)
    BY <2>1
  <2> QED
    BY <2>1, <2>2 DEF Outs
<1> QED
  BY <1>1, <1>2, <1>3, <1>4, <1>5

(* What is said after a step of one process. *)
LEMMA SaidAfter ==
    ASSUME TypeOK, NEW p \in Procs, NEW j \in JobSet, Go(p, j), NEW x \in Said'
    PROVE  x \in events' \/ x \in Outs(j.out) \/ x \in Said
<1>1. proc'[p] = j /\ \A q \in Procs : q # p => proc'[q] = proc[q]
  BY GoTypes
<1>2. CASE x \in events'
  BY <1>2
<1>3. CASE \E q \in Procs : x \in Outs(proc'[q].out)
  BY <1>1, <1>3 DEF Said, Pending
<1> QED
  BY <1>2, <1>3 DEF Said, Pending

(* What a process is about to say is said. *)
LEMMA SaidTypes ==
    ASSUME TypeOK
    PROVE  Said \subseteq EventSet /\ events \subseteq Said
           /\ \A p \in Procs : Pending(p) \subseteq Said
<1>1. \A p \in Procs : Pending(p) \subseteq EventSet
  BY JobFields, OutsFacts DEF Pending
<1> QED
  BY <1>1 DEF Said, TypeOK

(* A step that writes no row and says nothing new. *)
LEMMA LogQuiet ==
    ASSUME LogInv, BaseInv', row' = row, events' = events, Said' \subseteq Said,
           \A a \in Acts : row[a].state = "COMPLETE" /\ ~work[a] => ~work'[a],
           \A t \in Tickers : Busy(t)' =>
              \/ Busy(t) /\ proc'[t].act = proc[t].act
              \/ row[proc'[t].act].state \in Live
    PROVE  LogInv'
<1>1. SaidOK' /\ IdsOK' /\ OnceOK'
  BY DEF LogInv, SaidOK, IdsOK, OnceOK, InStep, IsLast
<1>2. BusyOK'
  BY DEF LogInv, BusyOK, Live
<1>3. CompleteIsProven'
  BY DEF LogInv, CompleteIsProven
<1> QED
  BY <1>1, <1>2, <1>3 DEF LogInv

(* A transition, or its replay, and its event. *)
LEMMA LogMoved ==
    ASSUME LogInv, NEW p \in Procs, NEW a \in Acts, NEW new \in States \ {"BLOCKED"},
           NEW eff \in Instants, NEW now \in Instants, NEW closed \in BOOLEAN,
           NEW stop \in BOOLEAN, NEW r, r = Moved(a, new, eff, now, closed, stop),
           NEW at \in Instants, NEW created \in Instants, NEW cl \in BOOLEAN,
           NEW roll \in Cutovers \cup {NoRoll}, NEW j \in JobSet, Go(p, j), Put(a, r),
           Outs(j.out) \subseteq Pending(p) \cup {Event(a, r, at, created, cl, roll)},
           events' = events
    PROVE  SaidOK' /\ IdsOK' /\ OnceOK'
<1> DEFINE e == Event(a, r, at, created, cl, roll)
<1>1. TypeOK /\ row[a] \in RowSet /\ row[a].seq \in Nat
  BY DEF LogInv, BaseInv, TypeOK, RowSet
<1>2. r \in RowSet
  BY <1>1, MovedType
<1>3. row'[a] = r /\ \A b \in Acts : b # a => row'[b] = row[b]
  BY <1>1, <1>2, PutTypes
<1>4. \/ r = row[a] /\ row[a].state # "BLOCKED"
      \/ r.seq = row[a].seq + 1
  BY <1>1 DEF Moved, Row
<1>5. \A x \in Said' : x \in Said \/ x = e
  BY <1>1, SaidAfter, SaidTypes
<1>6. e.act = a /\ e.seq = r.seq /\ e.state = r.new /\ e.prior = r.prior /\ e.eff = r.eff
  BY DEF Event
<1>7. \A x \in Said : x \in EventSet /\ x.act \in Acts /\ x.seq \in Nat
  BY <1>1, SaidTypes DEF EventSet
<1>8. \A x \in Said : x.act = a =>
         x.seq <= row[a].seq /\ (r = row[a] /\ x.seq = r.seq => SameId(x, e))
  <2> SUFFICES ASSUME NEW x \in Said, x.act = a
               PROVE  x.seq <= row[a].seq /\ (r = row[a] /\ x.seq = r.seq => SameId(x, e))
    OBVIOUS
  <2>1. InStep(x)
    BY DEF LogInv, SaidOK
  <2>2. CASE r.seq = row[a].seq + 1
    BY <1>1, <2>1, <2>2 DEF InStep
  <2>3. CASE r = row[a] /\ row[a].state # "BLOCKED"
    BY <1>6, <2>1, <2>3 DEF InStep, IsLast, SameId, Event
  <2> QED
    BY <1>4, <2>2, <2>3
<1> HIDE DEF e
<1>9. \A x \in Said : x.act = a /\ x.seq = r.seq => SameId(x, e)
  BY <1>1, <1>4, <1>7, <1>8
<1>10. SaidOK'
  <2> SUFFICES ASSUME NEW x \in Said' PROVE InStep(x)'
    BY DEF SaidOK
  <2>1. CASE x.act # a /\ x \in Said
    <3>1. InStep(x)
      BY <2>1 DEF LogInv, SaidOK
    <3> QED
      BY <1>3, <1>7, <2>1, <3>1 DEF InStep, IsLast, SameId, Event
  <2>2. CASE x.act = a /\ (x \in Said \/ x = e)
    <3>1. x.seq <= r.seq
      BY <1>1, <1>2, <1>4, <1>6, <1>7, <1>8, <2>2 DEF RowSet
    <3>2. x.seq = r.seq => SameId(x, e)
      BY <1>9, <2>2 DEF SameId
    <3> QED
      BY <1>3, <1>6, <2>2, <3>1, <3>2 DEF InStep, IsLast, SameId, Event
  <2> QED
    BY <1>5, <1>6, <2>1, <2>2
<1>11. IdsOK'
  <2> SUFFICES ASSUME NEW x \in Said', NEW y \in Said', x.act = y.act, x.seq = y.seq
               PROVE  SameId(x, y)
    BY DEF IdsOK
  <2>1. CASE x \in Said /\ y \in Said
    BY <2>1 DEF LogInv, IdsOK
  <2>2. CASE x = e \/ y = e
    BY <1>5, <1>6, <1>9, <2>2 DEF SameId
  <2> QED
    BY <1>5, <2>1, <2>2
<1>12. OnceOK'
  BY DEF LogInv, OnceOK
<1> QED
  BY <1>10, <1>11, <1>12

(* The same to a state that is neither blocked nor complete. *)
LEMMA LogMovedOn ==
    ASSUME LogInv, BaseInv', NEW p \in Procs, NEW a \in Acts,
           NEW new \in States \ {"BLOCKED", "COMPLETE"},
           NEW eff \in Instants, NEW now \in Instants, NEW closed \in BOOLEAN,
           NEW stop \in BOOLEAN, NEW r, r = Moved(a, new, eff, now, closed, stop),
           NEW at \in Instants, NEW created \in Instants, NEW cl \in BOOLEAN,
           NEW roll \in Cutovers \cup {NoRoll}, NEW j \in JobSet, Go(p, j), Put(a, r),
           Outs(j.out) \subseteq Pending(p) \cup {Event(a, r, at, created, cl, roll)},
           events' = events, work' = work,
           p \in Operators \/ (Busy(p) /\ j.act = proc[p].act)
    PROVE  LogInv'
<1>1. SaidOK' /\ IdsOK' /\ OnceOK'
  BY LogMoved
<1>2. TypeOK /\ row[a] \in RowSet
  BY DEF LogInv, BaseInv, TypeOK
<1>3. r \in RowSet /\ r.state = new
  BY <1>2, MovedType DEF Moved, Row
<1>4. row'[a] = r /\ \A b \in Acts : b # a => row'[b] = row[b]
  BY <1>2, <1>3, PutTypes
<1>5. proc'[p] = j /\ \A q \in Procs : q # p => proc'[q] = proc[q]
  BY <1>2, GoTypes
<1>6. BusyOK'
  <2> SUFFICES ASSUME NEW t \in Tickers, Busy(t)'
               PROVE  row'[proc'[t].act].state \notin {"BLOCKED", "COMPLETE"}
    BY DEF BusyOK
  <2>1. Busy(t) /\ proc'[t].act = proc[t].act /\ t \in Procs
    BY <1>5 DEF Procs, Busy
  <2>2. proc[t].act \in Acts /\ row[proc[t].act].state \notin {"BLOCKED", "COMPLETE"}
    BY <2>1 DEF LogInv, BaseInv, JobOK, JobFits, Busy, BusyOK
  <2> QED
    BY <1>3, <1>4, <2>1, <2>2
<1>7. CompleteIsProven'
  <2> SUFFICES ASSUME NEW b \in Acts, row'[b].state = "COMPLETE"
               PROVE  /\ ~work'[b]
                      /\ \E e \in events' :
                           /\ e.act = b /\ e.state = "DRAINING" /\ e.seq = row'[b].seq - 1
                           /\ e.at = e.eff /\ e.at <= row'[b].eff
    BY DEF CompleteIsProven
  <2>1. row'[b] = row[b]
    BY <1>3, <1>4
  <2> QED
    BY <2>1 DEF LogInv, CompleteIsProven
<1> QED
  BY <1>1, <1>6, <1>7 DEF LogInv

(* A process that goes on with nothing new in hand, or ends, writes no row. *)
LEMMA LogOn ==
    ASSUME LogInv, BaseInv', row' = row, events' = events, work' = work,
           NEW p \in Procs, NEW j \in JobSet, Go(p, j), j.out = <<>> \/ j.out = proc[p].out,
           \/ p \in Operators \/ j.pc = "idle"
           \/ j.act = proc[p].act /\ Busy(p)
           \/ row[j.act].state \in Live
    PROVE  LogInv'
<1>1. TypeOK
  BY DEF LogInv, BaseInv
<1>2. Outs(j.out) \subseteq Said
  <2>1. CASE j.out = <<>>
    BY <2>1, OutsFacts
  <2>2. CASE j.out = proc[p].out
    BY <1>1, <2>2, SaidTypes DEF Pending
  <2> QED
    BY <2>1, <2>2
<1>3. Said' \subseteq Said
  BY <1>1, <1>2, SaidAfter, SaidTypes
<1>4. proc'[p] = j /\ \A q \in Procs : q # p => proc'[q] = proc[q]
  BY <1>1, GoTypes
<1>5. ASSUME NEW t \in Tickers, Busy(t)'
      PROVE  \/ Busy(t) /\ proc'[t].act = proc[t].act
             \/ row[proc'[t].act].state \in Live
  BY <1>4, <1>5 DEF Busy, Procs
<1> QED
  BY <1>3, <1>5, LogQuiet

(* Giving a command says nothing, but for a repair of the first event. *)
LEMMA LogGive ==
    ASSUME LogInv, BaseInv', NEW p \in Operators, NEW a \in Acts, NEW c \in Cutovers,
           Activate(p, a) \/ Pause(p, a) \/ Resume(p, a) \/ Abort(p, a) \/ StopIntake(p, a)
             \/ Rollover(p, c)
    PROVE  LogInv'
<1>1. /\ p \in Procs /\ row' = row /\ events' = events /\ work' = work
  BY DEF Procs, Activate, Pause, Resume, Abort, StopIntake, Rollover
<1>2. {"activate", "pause", "resume", "abort", "stop", "persist"} \subseteq Stages
      /\ "fence" \in Pcs /\ "append" \in Pcs
  BY DEF Stages, Pcs
<1>3. clock \in Instants /\ c.pred \in Acts /\ "UNREGISTERED" \in States
      /\ row[a] \in RowSet /\ row[a].eff \in Instants
  BY CutoverFields, StatesKnown DEF LogInv, BaseInv, TypeOK, RowSet
<1>4. ASSUME NEW s \in Stages, NEW b \in Acts, NEW roll \in Cutovers \cup {NoRoll},
             Command(p, s, b, roll)
      PROVE  LogInv'
  <2> DEFINE j == Job("fence", s, b, roll, clock, "UNREGISTERED")
  <2>1. j \in JobSet /\ j.out = <<>> /\ Go(p, j)
    BY <1>2, <1>3, <1>4, JobType DEF Command, Job
  <2> HIDE DEF j
  <2> QED
    BY <1>1, <2>1, LogOn
<1>5. CASE Pause(p, a) \/ Resume(p, a) \/ Abort(p, a) \/ StopIntake(p, a) \/ Rollover(p, c)
           \/ Command(p, "activate", a, NoRoll)
  BY <1>2, <1>3, <1>4, <1>5 DEF Pause, Resume, Abort, StopIntake, Rollover
<1>6. CASE Activate(p, a) /\ ~Command(p, "activate", a, NoRoll)
  <2> DEFINE e == Event(a, row[a], row[a].eff, Later(clock, row[a].eff), FALSE, NoRoll)
             k == Job("append", "activate", a, NoRoll, clock, "UNREGISTERED")
             j == [k EXCEPT !.out = <<e>>]
  <2>1. row[a].state = "ACTIVE" /\ Go(p, j)
    BY <1>6 DEF Activate
  <2>2. k \in JobSet
    BY <1>2, <1>3, JobType
  <2>3. e \in EventSet /\ Later(clock, row[a].eff) \in Instants
    BY <1>3, EventType, StatesKnown
  <2> HIDE DEF e, k
  <2>4. <<e>> \in Seq(EventSet) /\ Outs(<<e>>) = {e}
    BY <2>3, OutFacts, OutsFacts
  <2>5. j \in JobSet /\ j.out = <<e>>
    BY <2>2, <2>4 DEF JobSet
  <2> HIDE DEF j
  <2>6. row[a] = Moved(a, "ACTIVE", clock, clock, FALSE, FALSE)
    BY <2>1 DEF Moved
  <2>7. Put(a, row[a])
    BY <1>1 DEF Put, LogInv, BaseInv, TypeOK
  <2>8. "ACTIVE" \in States \ {"BLOCKED", "COMPLETE"}
    BY DEF States, Live
  <2>9. Outs(j.out) \subseteq Pending(p) \cup
           {Event(a, row[a], row[a].eff, Later(clock, row[a].eff), FALSE, NoRoll)}
    BY <2>4, <2>5 DEF e
  <2> HIDE DEF LogInv, BaseInv
  <2> QED
    BY <1>1, <1>3, <2>1, <2>3, <2>5, <2>6, <2>7, <2>8, <2>9, LogMovedOn
<1> QED
  BY <1>5, <1>6

(* The fence and the writes of the commands. *)
LEMMA LogOperator ==
    ASSUME LogInv, BaseInv', NEW p \in Operators, OperatorStep(p)
    PROVE  LogInv'
<1> DEFINE j == proc[p]
<1>1. /\ p \in Procs /\ j \in JobSet /\ JobFits(p, j) /\ TypeOK
      /\ events' = events /\ work' = work
  BY DEF Procs, LogInv, BaseInv, TypeOK, JobOK, OperatorStep, Fence, Write, PersistRollover,
     RolloverWrite
<1>2. j.now \in Instants /\ j.out \in Seq(EventSet) /\ j.roll \in Cutovers \cup {NoRoll}
      /\ j.stage \in Stages /\ j.act \in Acts \cup {NoAct}
  BY <1>1 DEF JobSet
<1>3. Idle \in JobSet /\ Idle.out = <<>>
  BY <1>1, IdleType
<1>4. {"write", "append", "fence"} \subseteq Pcs /\ {"drainPred", "activateSucc"} \subseteq Stages
  BY DEF Pcs, Stages
<1>5. \A s \in Stages : Target(s) \in States \ {"BLOCKED", "COMPLETE"}
  BY StatesKnown DEF Target
<1>6. ASSUME NEW n \in JobSet, Go(p, n), n.out = <<>> \/ n.out = j.out, row' = row
      PROVE  LogInv'
  BY ONLY LogInv, BaseInv', <1>1, <1>6, p \in Operators, LogOn
<1>7. CASE Fence(p)
  <2> DEFINE k == [j EXCEPT !.pc = "write"]
             n == IF lease = NoProc THEN k ELSE Idle
  <2>1. k \in JobSet /\ k.out = j.out
    BY <1>1, <1>4 DEF JobSet
  <2>2. Go(p, n) /\ row' = row
    BY <1>7 DEF Fence
  <2> HIDE DEF j, k
  <2> QED
    BY <1>3, <1>6, <2>1, <2>2
<1>8. CASE PersistRollover(p)
  <2> DEFINE k == [j EXCEPT !.pc = "fence", !.stage = "drainPred"]
  <2>1. k \in JobSet /\ k.out = j.out
    BY <1>1, <1>4 DEF JobSet
  <2>2. Go(p, k) /\ row' = row
    BY <1>8 DEF PersistRollover
  <2> HIDE DEF j, k
  <2> QED
    BY <1>6, <2>1, <2>2
<1>9. CASE Write(p)
  <2> DEFINE a == j.act
             stop == j.stage = "stop"
             r == Moved(a, Target(j.stage), j.now, j.now, stop, stop)
             at == IF stop THEN r.eff ELSE j.now
             created == IF stop THEN Later(j.now, r.eff) ELSE j.now
             e == Event(a, r, at, created, stop, NoRoll)
             k == [j EXCEPT !.pc = "append", !.out = <<e>>]
  <2>1. a \in Acts
    BY <1>1, <1>9 DEF Write, JobFits
  <2>2. row[a] \in RowSet /\ Target(j.stage) \in States
    BY <1>1, <1>2, <2>1, StatesKnown DEF TypeOK
  <2>3. r \in RowSet
    BY <1>2, <2>1, <2>2, MovedType
  <2>4. CommandEvent(j, r) = e
    BY DEF CommandEvent
  <2>5. (Put(a, r) /\ Go(p, k)) \/ (row' = row /\ Go(p, Idle))
    BY <1>9, <2>4 DEF Write
  <2> HIDE DEF r
  <2>6. r.eff \in Instants
    BY <2>3 DEF RowSet
  <2> HIDE DEF j
  <2>7. at \in Instants /\ created \in Instants /\ stop \in BOOLEAN
    BY <1>2, <2>6, StatesKnown
  <2> HIDE DEF at, created
  <2>8. e \in EventSet
    BY <2>1, <2>3, <2>7, EventType
  <2>9. k \in JobSet /\ k.out = <<e>>
    BY <1>1, <1>4, <2>8, OutFacts DEF JobSet
  <2>10. Outs(k.out) \subseteq Pending(p) \cup {e}
    BY <2>8, <2>9, OutsFacts
  <2>11. r = Moved(a, Target(j.stage), j.now, j.now, stop, stop)
    BY DEF r
  <2>12. Target(j.stage) \in States \ {"BLOCKED", "COMPLETE"}
    BY <1>2, <1>5
  <2>13. NoRoll \in Cutovers \cup {NoRoll}
    OBVIOUS
  <2> HIDE DEF k, a, stop
  <2> QED
    BY ONLY LogInv, BaseInv', <1>1, <1>2, <1>3, <1>6, <2>1, <2>5, <2>7, <2>9, <2>10, <2>11,
       <2>12, <2>13, p \in Operators, LogMovedOn
<1>10. CASE RolloverWrite(p)
  <2> DEFINE a == IF j.stage = "drainPred" THEN j.roll.pred ELSE j.roll.succ
             r == Moved(a, Target(j.stage), j.roll.cut, j.now, FALSE, FALSE)
             e == Event(a, r, j.roll.cut, j.now, FALSE, j.roll)
             out == Append(j.out, e)
             k == IF j.stage = "drainPred"
                  THEN [j EXCEPT !.pc = "fence", !.stage = "activateSucc", !.out = out]
                  ELSE [j EXCEPT !.pc = "append", !.out = out]
  <2>1. j.roll \in Cutovers
    BY <1>1, <1>10 DEF RolloverWrite, JobFits, RollStages
  <2>2. a \in Acts /\ j.roll.cut \in Instants
    BY <2>1, CutoverFields
  <2>3. row[a] \in RowSet /\ Target(j.stage) \in States
    BY <1>1, <1>2, <2>2, StatesKnown DEF TypeOK
  <2>4. r \in RowSet
    BY <1>2, <2>2, <2>3, MovedType
  <2>5. e \in EventSet
    BY <1>2, <2>1, <2>2, <2>4, EventType
  <2>6. (Put(a, r) /\ Go(p, k)) \/ (row' = row /\ Go(p, Idle))
    BY <1>10 DEF RolloverWrite
  <2> HIDE DEF r, e
  <2>7. Outs(out) \subseteq Outs(j.out) \cup {e} /\ out \in Seq(EventSet)
    BY <1>2, <2>5, OutFacts, OutsFacts
  <2> HIDE DEF out
  <2>8. k \in JobSet /\ k.out = out
    BY <1>1, <1>4, <2>7 DEF JobSet
  <2>9. r = Moved(a, Target(j.stage), j.roll.cut, j.now, FALSE, FALSE)
    BY DEF r
  <2>10. Target(j.stage) \in States \ {"BLOCKED", "COMPLETE"}
    BY <1>2, <1>5
  <2>11. Outs(k.out) \subseteq Pending(p) \cup {Event(a, r, j.roll.cut, j.now, FALSE, j.roll)}
    BY <2>7, <2>8 DEF e, Pending
  <2>12. FALSE \in BOOLEAN
    OBVIOUS
  <2> HIDE DEF k, a, j
  <2> QED
    BY ONLY LogInv, BaseInv', <1>1, <1>2, <1>3, <1>6, <2>1, <2>2, <2>6, <2>8, <2>9, <2>10,
       <2>11, <2>12, p \in Operators, LogMovedOn
<1> QED
  BY <1>7, <1>8, <1>9, <1>10 DEF OperatorStep

(* The start of a tick, its lease and its drain. *)
LEMMA LogDrain ==
    ASSUME LogInv, BaseInv', NEW p \in Tickers, NEW b \in Acts,
           TickStart(p, b) \/ TickLease(p) \/ TickDrain(p)
    PROVE  LogInv'
<1> DEFINE j == proc[p]
           a == j.act
           now == IF j.pc = "redrain" THEN clock ELSE j.now
           r == Moved(a, "DRAINING", now, now, TRUE, FALSE)
           next == IF j.pc = "redrain" THEN "complete" ELSE "poll"
           gates == IF EpisodeLane THEN {} ELSE Gates(a, now)
           e == Event(a, r, now, now, TRUE, NoRoll)
           k == [j EXCEPT !.pc = "append", !.now = now, !.next = next,
                          !.view = "DRAINING", !.gates = gates, !.out = <<e>>]
           view == IF EpisodeLane \/ row[a].state = "DRAINING" THEN row[a].state ELSE j.view
           n == [j EXCEPT !.pc = next, !.now = now, !.gates = gates, !.view = view]
<1>1. /\ p \in Procs /\ j \in JobSet /\ JobFits(p, j) /\ TypeOK
      /\ events' = events /\ work' = work /\ FALSE \in BOOLEAN /\ TRUE \in BOOLEAN
  BY JobFields DEF Procs, LogInv, BaseInv, JobOK, TickStart, TickLease, TickDrain
<1>2. Idle \in JobSet /\ Idle.out = <<>> /\ Idle.pc = "idle"
  BY <1>1, IdleType
<1>3. CASE TickStart(p, b)
  <2> DEFINE m == Job("lease", "tick", b, NoRoll, clock, row[b].state)
  <2>1. row[b].state \in States /\ clock \in Instants /\ "lease" \in Pcs /\ "tick" \in Stages
    BY <1>1 DEF TypeOK, RowSet, Pcs, Stages
  <2>2. m \in JobSet /\ m.out = <<>> /\ m.act = b
    BY <2>1, JobType DEF Job
  <2>3. Go(p, m) /\ row' = row /\ row[b].state \in Live
    BY <1>3 DEF TickStart
  <2> HIDE DEF m
  <2> QED
    BY ONLY LogInv, BaseInv', <1>1, <2>2, <2>3, LogOn
<1>4. CASE TickLease(p)
  <2> DEFINE m == [j EXCEPT !.pc = "drain"]
             q == IF lease = NoProc THEN m ELSE Idle
  <2>1. "drain" \in Pcs
    BY DEF Pcs
  <2>2. m \in JobSet /\ m.out = j.out /\ m.act = j.act
    BY <1>1, <2>1 DEF JobSet
  <2>3. Go(p, q) /\ row' = row /\ Busy(p)
    BY <1>4 DEF TickLease, Busy
  <2> HIDE DEF m
  <2>4. q \in JobSet /\ (q.out = <<>> \/ q.out = j.out) /\ (q.pc = "idle" \/ q.act = j.act)
    BY <1>2, <2>2
  <2> HIDE DEF q
  <2> QED
    BY ONLY LogInv, BaseInv', <1>1, <2>3, <2>4, LogOn
<1>5. CASE TickDrain(p)
  <2>1. a \in Acts /\ now \in Instants /\ Busy(p)
    BY <1>1, <1>5 DEF JobFits, JobSet, TypeOK, TickDrain, Busy
  <2>2. row[a] \in RowSet /\ "DRAINING" \in States \ {"BLOCKED", "COMPLETE"}
    BY <1>1, <2>1 DEF TypeOK, States, Live
  <2>3. r \in RowSet /\ row[a].state \in States
    BY <2>1, <2>2, MovedType DEF RowSet
  <2>4. e \in EventSet
    BY <2>1, <2>3, EventType
  <2>5. gates \in SUBSET {"pred", "succ"} /\ next \in Pcs /\ "append" \in Pcs /\ view \in States
    BY <1>1, <2>3 DEF Gates, Pcs, JobSet
  <2>6. (Put(a, r) /\ Go(p, k)) \/ (row' = row /\ Go(p, n))
    BY <1>5 DEF TickDrain
  <2>7. e = Event(a, r, now, now, TRUE, NoRoll) /\ r = Moved(a, "DRAINING", now, now, TRUE, FALSE)
    OBVIOUS
  <2> HIDE DEF e, r, now, next, gates, view
  <2>8. k \in JobSet /\ k.out = <<e>> /\ k.act = j.act
    BY <1>1, <2>1, <2>2, <2>4, <2>5, OutFacts DEF JobSet
  <2>9. n \in JobSet /\ n.out = j.out /\ n.act = j.act
    BY <1>1, <2>1, <2>5 DEF JobSet
  <2>10. Outs(k.out) \subseteq Pending(p) \cup {Event(a, r, now, now, TRUE, NoRoll)}
    <3>1. Outs(k.out) = {e}
      BY <2>4, <2>8, OutsFacts
    <3> QED
      BY <2>7, <3>1, Zenon
  <2>11. NoRoll \in Cutovers \cup {NoRoll} /\ a = proc[p].act
    OBVIOUS
  <2> HIDE DEF k, n, a
  <2>12. CASE Put(a, r) /\ Go(p, k)
    BY ONLY LogInv, BaseInv', <1>1, <2>1, <2>2, <2>7, <2>8, <2>10, <2>11, <2>12, LogMovedOn
  <2>13. CASE row' = row /\ Go(p, n)
    BY ONLY LogInv, BaseInv', <1>1, <2>1, <2>9, <2>13, LogOn
  <2> QED
    BY <2>6, <2>12, <2>13
<1> QED
  BY <1>3, <1>4, <1>5

(* A stop of the poll: the one ticker still finds the row it went in with. *)
LEMMA LogBlocked ==
    ASSUME OneTicker, LogInv, BaseInv', NEW p \in Tickers, TickBlocked(p)
    PROVE  LogInv'
<1> DEFINE j == proc[p]
           a == j.act
           r == row[a]
           q == row'[a]
<1>1. p \in Procs /\ JobFits(p, j) /\ TypeOK /\ events' = events /\ work' = work /\ Go(p, Idle)
  BY DEF Procs, LogInv, BaseInv, JobOK, TickBlocked
<1>2. a \in Acts /\ r.state \notin {"BLOCKED", "COMPLETE"}
  BY <1>1 DEF JobFits, TickBlocked, LogInv, BusyOK, Busy
<1>3. Idle \in JobSet /\ Outs(Idle.out) = {} /\ Idle.pc = "idle"
  BY <1>1, IdleType, OutsFacts
<1>4. Said' \subseteq Said
  BY <1>1, <1>3, SaidAfter, SaidTypes
<1>5. r \in RowSet /\ row \in [Acts -> RowSet]
  BY <1>1, <1>2 DEF TypeOK
<1>6. /\ \A b \in Acts : b # a => row'[b] = row[b]
      /\ \/ /\ q.seq = r.seq /\ q.new = r.new /\ q.prior = r.prior /\ q.eff = r.eff
            /\ q.state = "DRAINING"
         \/ q.seq = r.seq /\ q.state = "BLOCKED"
  BY <1>2, <1>5 DEF TickBlocked, Row, RowSet
<1> HIDE DEF j
<1>7. \A x \in Said' : x \in Said /\ x.act \in Acts
  BY <1>1, <1>4, SaidTypes DEF EventSet
<1>8. SaidOK'
  <2> SUFFICES ASSUME NEW x \in Said' PROVE InStep(x)'
    BY DEF SaidOK
  <2>1. InStep(x)
    BY <1>7 DEF LogInv, SaidOK
  <2>2. CASE x.act = a
    BY <1>2, <1>6, <2>1, <2>2 DEF InStep, IsLast, SameId, Event
  <2>3. CASE x.act # a
    BY <1>6, <1>7, <2>1, <2>3 DEF InStep, IsLast, SameId, Event
  <2> QED
    BY <2>2, <2>3
<1>9. IdsOK' /\ OnceOK'
  BY <1>1, <1>4 DEF LogInv, IdsOK, OnceOK
<1>10. proc'[p].pc = "idle" /\ \A t \in Procs : t # p => proc'[t] = proc[t]
  BY <1>1, <1>3, GoTypes
<1>11. BusyOK'
  BY <1>10 DEF BusyOK, Busy, OneTicker
<1>12. CompleteIsProven'
  BY <1>1, <1>6 DEF LogInv, CompleteIsProven
<1> QED
  BY <1>8, <1>9, <1>11, <1>12 DEF LogInv

(* Admission and due rows; a stop of episode intake is a transition. *)
LEMMA LogPoll ==
    ASSUME LogInv, BaseInv', NEW p \in Tickers,
           TickAdmit(p) \/ TickSkip(p) \/ TickStopsIntake(p) \/ TickDue(p)
    PROVE  LogInv'
<1> DEFINE j == proc[p]
           a == j.act
<1>1. p \in Procs /\ j \in JobSet /\ JobFits(p, j) /\ TypeOK /\ events' = events
  BY JobFields DEF Procs, LogInv, BaseInv, JobOK, TickAdmit, TickSkip, TickStopsIntake, TickDue
<1>2. a \in Acts /\ Busy(p) /\ row[a].state \notin {"BLOCKED", "COMPLETE"}
  BY <1>1 DEF JobFits, Busy, LogInv, BusyOK, TickAdmit, TickSkip, TickStopsIntake, TickDue
<1>3. Idle \in JobSet /\ Idle.out = <<>> /\ Idle.pc = "idle"
  BY <1>1, IdleType
<1>4. {"due", "redrain", "complete", "append"} \subseteq Pcs
  BY DEF Pcs
<1>5. \A pc \in {"due", "redrain", "complete"} :
         LET n == [j EXCEPT !.pc = pc] IN n \in JobSet /\ n.out = j.out /\ n.act = j.act
  BY <1>1, <1>4 DEF JobSet
<1>6. CASE TickSkip(p)
  <2> DEFINE n == IF Held(j) THEN Idle ELSE [j EXCEPT !.pc = "due"]
  <2>1. Go(p, n) /\ row' = row /\ work' = work
    BY <1>6 DEF TickSkip
  <2>2. n \in JobSet /\ (n.out = <<>> \/ n.out = j.out) /\ (n.pc = "idle" \/ n.act = j.act)
    BY <1>3, <1>5
  <2> HIDE DEF n
  <2> QED
    BY ONLY LogInv, BaseInv', <1>1, <1>2, <2>1, <2>2, LogOn
<1>7. CASE TickAdmit(p) \/ TickDue(p)
  <2>1. PICK n \in JobSet : Go(p, n) /\ n.out = j.out /\ n.act = j.act
    <3>1. CASE TickAdmit(p)
      BY <1>5, <3>1 DEF TickAdmit
    <3>2. CASE TickDue(p)
      BY <1>5, <3>2 DEF TickDue
    <3> QED
      BY <1>7, <3>1, <3>2
  <2>2. Outs(n.out) \subseteq Said
    BY <1>1, <2>1, SaidTypes DEF Pending
  <2>3. Said' \subseteq Said
    BY <1>1, <2>1, <2>2, SaidAfter, SaidTypes
  <2>4. row' = row
    BY <1>7 DEF TickAdmit, TickDue
  <2>5. \A b \in Acts : row[b].state = "COMPLETE" /\ ~work[b] => ~work'[b]
    BY <1>1, <1>2, <1>7 DEF TickAdmit, TickDue, TypeOK
  <2>6. proc'[p] = n /\ \A q \in Procs : q # p => proc'[q] = proc[q]
    BY <1>1, <2>1, GoTypes
  <2>7. \A t \in Tickers : Busy(t)' => Busy(t) /\ proc'[t].act = proc[t].act
    BY <1>2, <2>1, <2>6 DEF Busy, Procs
  <2> QED
    BY <1>1, <2>3, <2>4, <2>5, <2>7, LogQuiet
<1>8. CASE TickStopsIntake(p)
  <2> DEFINE r == Moved(a, "DRAINING", clock, clock, TRUE, TRUE)
             e == Event(a, r, r.eff, clock, TRUE, NoRoll)
             k == [j EXCEPT !.pc = "append", !.next = "due", !.out = <<e>>]
  <2>1. clock \in Instants /\ "DRAINING" \in States \ {"BLOCKED", "COMPLETE"}
        /\ row[a] \in RowSet /\ TRUE \in BOOLEAN
    BY <1>1, <1>2 DEF TypeOK, States, Live
  <2>2. r \in RowSet
    BY <1>2, <2>1, MovedType
  <2>3. r.eff \in Instants
    BY <2>2 DEF RowSet
  <2>4. r = Moved(a, "DRAINING", clock, clock, TRUE, TRUE)
    OBVIOUS
  <2> HIDE DEF r
  <2>5. e \in EventSet
    BY <1>2, <2>1, <2>2, <2>3, EventType
  <2>6. e = Event(a, r, r.eff, clock, TRUE, NoRoll)
    OBVIOUS
  <2>7. Go(p, k) /\ Put(a, r) /\ work' = work
    BY <1>8 DEF TickStopsIntake, r
  <2> HIDE DEF e
  <2>8. k \in JobSet /\ k.out = <<e>> /\ k.act = j.act
    BY <1>1, <1>4, <2>5, OutFacts DEF JobSet
  <2>9. Outs(k.out) \subseteq Pending(p) \cup {Event(a, r, r.eff, clock, TRUE, NoRoll)}
    <3>1. Outs(k.out) = {e}
      BY <2>5, <2>8, OutsFacts
    <3> QED
      BY <2>6, <3>1, Zenon
  <2>10. NoRoll \in Cutovers \cup {NoRoll} /\ a = proc[p].act
    OBVIOUS
  <2> HIDE DEF k, a
  <2> QED
    BY ONLY LogInv, BaseInv', <1>1, <1>2, <2>1, <2>3, <2>4, <2>7, <2>8, <2>9, <2>10, LogMovedOn
<1> QED
  BY <1>6, <1>7, <1>8

(* Completion. *)
LEMMA LogComplete ==
    ASSUME OneTicker, LogInv, BaseInv', NEW p \in Tickers, TickComplete(p)
    PROVE  LogInv'
<1> DEFINE j == proc[p]
           a == j.act
           r == Moved(a, "COMPLETE", j.now, j.now, FALSE, FALSE)
           e == Event(a, r, j.now, j.now, FALSE, NoRoll)
           k == [j EXCEPT !.pc = "append", !.next = "idle", !.out = <<e>>]
<1>1. p \in Procs /\ j \in JobSet /\ JobFits(p, j) /\ TypeOK /\ events' = events /\ work' = work
  BY JobFields DEF Procs, LogInv, BaseInv, JobOK, TickComplete
<1>2. j.pc = "complete" /\ j.now \in Instants /\ "append" \in Pcs /\ "idle" \in Pcs
  BY <1>1 DEF TickComplete, JobSet, Pcs
<1>3. a \in Acts /\ row[a] \in RowSet
  BY <1>1, <1>2 DEF JobFits, TypeOK
<1>4. r \in RowSet /\ "COMPLETE" \in States \ {"BLOCKED"}
  BY <1>2, <1>3, MovedType, StatesKnown DEF States, Stopped
<1>5. e \in EventSet
  BY <1>2, <1>3, <1>4, EventType
<1>6. \/ /\ Completable(a, j.now) /\ Put(a, r) /\ Go(p, k)
      \/ row' = row /\ Go(p, Idle)
  BY DEF TickComplete
<1>7. /\ Completable(a, j.now) => r.seq = row[a].seq + 1 /\ r.eff = j.now
      /\ r = Moved(a, "COMPLETE", j.now, j.now, FALSE, FALSE)
  BY DEF Completable, Moved, Row
<1>8. e = Event(a, r, j.now, j.now, FALSE, NoRoll)
  OBVIOUS
<1> HIDE DEF r, e
<1>9. k \in JobSet /\ k.out = <<e>> /\ k.pc = "append" /\ k.next = "idle"
  BY <1>1, <1>2, <1>5, OutFacts DEF JobSet
<1>10. Outs(k.out) \subseteq Pending(p) \cup {Event(a, r, j.now, j.now, FALSE, NoRoll)}
  <2>1. Outs(k.out) = {e}
    BY <1>5, <1>9, OutsFacts
  <2> QED
    BY <1>8, <2>1, Zenon
<1>11. Idle \in JobSet /\ Idle.out = <<>> /\ Idle.pc = "idle"
  BY <1>1, IdleType
<1>12. NoRoll \in Cutovers \cup {NoRoll} /\ FALSE \in BOOLEAN
  OBVIOUS
<1>13. CASE row' = row /\ Go(p, Idle)
  BY ONLY LogInv, BaseInv', <1>1, <1>11, <1>13, LogOn
<1>14. CASE Completable(a, j.now) /\ Put(a, r) /\ Go(p, k)
  <2> HIDE DEF k
  <2>1. SaidOK' /\ IdsOK' /\ OnceOK'
    <3> HIDE DEF a, j
    <3> QED
      BY ONLY LogInv, <1>1, <1>2, <1>3, <1>4, <1>7, <1>9, <1>10, <1>12, <1>14, LogMoved
  <2>2. proc'[p] = k
    BY <1>1, <1>9, <1>14, GoTypes
  <2>3. BusyOK'
    BY <1>9, <2>2 DEF BusyOK, Busy, OneTicker
  <2>4. row'[a] = r /\ \A b \in Acts : b # a => row'[b] = row[b]
    BY <1>1, <1>3, <1>4, <1>14, PutTypes
  <2>5. PICK x \in Evidence(a, 0, j.now) : TRUE
    BY <1>14 DEF Completable
  <2>6. /\ x \in events /\ x.act = a /\ x.state = "DRAINING" /\ x.seq = row[a].seq
        /\ x.at = x.eff /\ x.eff = row[a].eff /\ row[a].eff <= j.now /\ ~work[a]
    BY <1>14 DEF Evidence, Visible, IsLast, SameId, Event, Completable
  <2>7. row[a].seq \in Nat
    BY <1>3 DEF RowSet
  <2> HIDE DEF a, j
  <2>8. x.seq = r.seq - 1 /\ x.at <= r.eff
    <3>1. r.seq = row[a].seq + 1 /\ r.eff = j.now
      BY <1>7, <1>14
    <3>2. x.seq = r.seq - 1
      BY <2>6, <2>7, <3>1
    <3>3. x.at <= r.eff
      BY <2>6, <3>1
    <3> QED
      BY <3>2, <3>3
  <2>9. CompleteIsProven'
    BY <1>1, <2>4, <2>6, <2>8 DEF LogInv, CompleteIsProven
  <2> QED
    BY <2>1, <2>3, <2>9 DEF LogInv
<1> QED
  BY <1>6, <1>13, <1>14

(* An event reaches the log. *)
LEMMA LogAppend ==
    ASSUME LogInv, BaseInv', NEW p \in Procs, AppendEvent(p)
    PROVE  LogInv'
<1> DEFINE j == proc[p]
           e == Head(j.out)
           same == {f \in events : SameId(f, e)}
           rest == Tail(j.out)
           done == ~(\A f \in same : SamePayload(f, e)) \/ (rest = <<>> /\ j.next = "idle")
           k == [j EXCEPT !.pc = IF rest = <<>> THEN j.next ELSE "append", !.out = rest]
           n == IF done THEN Idle ELSE k
<1>1. /\ j \in JobSet /\ JobFits(p, j) /\ j.out \in Seq(EventSet) /\ j.next \in Pcs
      /\ j.pc = "append" /\ j.out # <<>> /\ TypeOK /\ row' = row /\ work' = work
  BY JobFields DEF LogInv, BaseInv, JobOK, JobFits, AppendEvent
<1>2. e \in Outs(j.out) /\ Outs(rest) \subseteq Outs(j.out) /\ rest \in Seq(EventSet)
  BY <1>1, OutFacts, OutsFacts
<1>3. Outs(j.out) \subseteq Said
  BY <1>1, SaidTypes DEF Pending
<1>4. Go(p, n) /\ events' = IF same = {} THEN events \cup {e} ELSE events
  BY DEF AppendEvent
<1>5. Idle \in JobSet /\ Outs(Idle.out) = {} /\ Idle.pc = "idle" /\ "append" \in Pcs
  BY <1>1, IdleType, OutsFacts DEF Pcs
<1>6. done \/ rest # <<>> \/ j.next # "idle"
  OBVIOUS
<1> HIDE DEF done, rest
<1>7. /\ k \in JobSet /\ k.out = rest /\ k.act = j.act /\ k.next = j.next
      /\ k.pc = IF rest = <<>> THEN j.next ELSE "append"
  BY <1>1, <1>2, <1>5 DEF JobSet
<1> HIDE DEF k, e
<1>8. n \in JobSet /\ Outs(n.out) \subseteq Outs(j.out)
  BY <1>2, <1>5, <1>7
<1>9. \A x \in Said' : x \in Said
  BY <1>1, <1>2, <1>3, <1>4, <1>8, SaidAfter, SaidTypes
<1>10. SaidOK' /\ IdsOK'
  BY <1>1, <1>9 DEF LogInv, SaidOK, IdsOK, InStep, IsLast
<1>11. OnceOK'
  <2> SUFFICES ASSUME NEW x \in events', NEW y \in events', x.act = y.act, x.seq = y.seq
               PROVE  x = y
    BY DEF OnceOK
  <2>1. x \in Said /\ y \in Said /\ e \in Said
    BY <1>1, <1>2, <1>3, <1>4, SaidTypes
  <2>2. SameId(x, y)
    BY <2>1 DEF LogInv, IdsOK
  <2>3. CASE x \in events /\ y \in events
    BY <2>3 DEF LogInv, OnceOK
  <2>4. CASE same = {} /\ (x = e \/ y = e)
    <3>1. SameId(y, x)
      BY <2>2 DEF SameId
    <3> QED
      BY <1>4, <2>2, <2>4, <3>1
  <2> QED
    BY <1>4, <2>3, <2>4
<1>12. proc'[p] = n /\ \A q \in Procs : q # p => proc'[q] = proc[q]
  BY <1>1, <1>4, <1>8, GoTypes
<1>13. BusyOK'
  <2> SUFFICES ASSUME NEW t \in Tickers, Busy(t)'
               PROVE  row[proc'[t].act].state \notin {"BLOCKED", "COMPLETE"}
    BY <1>1 DEF BusyOK
  <2>1. Busy(t) /\ proc'[t].act = proc[t].act
    BY <1>1, <1>5, <1>6, <1>7, <1>12 DEF Busy, Procs
  <2> QED
    BY <2>1 DEF LogInv, BusyOK
<1>14. CompleteIsProven'
  <2>1. events \subseteq events'
    BY <1>4
  <2> QED
    BY <1>1, <2>1 DEF LogInv, CompleteIsProven
<1> QED
  BY <1>10, <1>11, <1>13, <1>14 DEF LogInv

(* The clock, and what goes wrong, say nothing. *)
LEMMA LogWorld ==
    ASSUME LogInv, BaseInv',
           \/ Tick \/ LeaseExpires \/ UNCHANGED vars
           \/ \E p \in Procs : Crash(p) \/ AppendFails(p)
    PROVE  LogInv'
<1>1. CASE \E p \in Procs : Crash(p) \/ AppendFails(p)
  <2> PICK p \in Procs : Crash(p) \/ AppendFails(p)
    BY <1>1
  <2>1. /\ Idle \in JobSet /\ Idle.out = <<>> /\ Idle.pc = "idle" /\ Go(p, Idle)
        /\ row' = row /\ events' = events /\ work' = work
    BY IdleType DEF Crash, AppendFails, LogInv, BaseInv
  <2> QED
    BY <2>1, LogOn
<1>2. CASE Tick \/ LeaseExpires \/ UNCHANGED vars
  <2>1. row' = row /\ events' = events /\ work' = work /\ proc' = proc
    BY <1>2 DEF Tick, LeaseExpires, vars
  <2>2. Said' = Said /\ \A t \in Tickers : Busy(t)' = Busy(t)
    BY <2>1 DEF Said, Pending, Busy
  <2> QED
    BY <2>1, <2>2, LogQuiet
<1> QED
  BY <1>1, <1>2

(* Every step of one ticker and of any operators keeps the log in step. *)
LEMMA LogStep ==
    ASSUME OneTicker, LogInv, [Next]_vars
    PROVE  LogInv'
<1>0. BaseInv'
  BY BaseStep DEF LogInv
<1>1. CASE \E p \in Operators, a \in Acts :
              Activate(p, a) \/ Pause(p, a) \/ Resume(p, a) \/ Abort(p, a) \/ StopIntake(p, a)
  <2> PICK p \in Operators, a \in Acts :
             Activate(p, a) \/ Pause(p, a) \/ Resume(p, a) \/ Abort(p, a) \/ StopIntake(p, a)
    BY <1>1
  <2> Cutover(a, a, 0) \in Cutovers
    BY DEF Cutovers
  <2> QED
    BY <1>0, LogGive
<1>2. CASE \E p \in Operators, c \in Cutovers : Rollover(p, c)
  BY <1>0, <1>2, LogGive, CutoverFields
<1>3. CASE \E p \in Operators : OperatorStep(p)
  BY <1>0, <1>3, LogOperator
<1>4. CASE \E p \in Tickers, a \in Acts : TickStart(p, a)
  BY <1>0, <1>4, LogDrain
<1>5. CASE \E p \in Tickers : TickStep(p)
  <2> PICK p \in Tickers : TickStep(p)
    BY <1>5
  <2>1. CASE TickLease(p) \/ TickDrain(p)
    <3>1. proc[p].act \in Acts
      BY <2>1 DEF LogInv, BaseInv, JobOK, JobFits, Procs, TickLease, TickDrain
    <3> QED
      BY <1>0, <2>1, <3>1, LogDrain
  <2>2. CASE TickBlocked(p)
    BY <1>0, <2>2, LogBlocked
  <2>3. CASE TickComplete(p)
    BY <1>0, <2>3, LogComplete
  <2> QED
    BY <1>0, <2>1, <2>2, <2>3, LogPoll DEF TickStep
<1>6. CASE \E p \in Procs : AppendEvent(p)
  BY <1>0, <1>6, LogAppend
<1>7. CASE \/ Tick \/ LeaseExpires \/ UNCHANGED vars
           \/ \E p \in Procs : Crash(p) \/ AppendFails(p)
  BY <1>0, <1>7, LogWorld
<1> QED
  BY <1>1, <1>2, <1>3, <1>4, <1>5, <1>6, <1>7 DEF Next

(* Nothing is said and nothing is complete at the start. *)
LEMMA LogInit == Init => LogInv
<1> SUFFICES ASSUME Init PROVE LogInv
  OBVIOUS
<1>1. BaseInv
  BY BaseInit
<1>2. events = {} /\ \A p \in Procs : proc[p] = Idle
  BY DEF Init
<1>3. \A p \in Procs : Idle.out = <<>> /\ Idle.pc = "idle"
  BY <1>1, IdleType DEF BaseInv
<1>4. Said = {}
  BY <1>2, <1>3, OutsFacts DEF Said, Pending
<1>5. SaidOK /\ IdsOK /\ OnceOK
  BY <1>2, <1>4 DEF SaidOK, IdsOK, OnceOK
<1>6. BusyOK
  BY <1>2, <1>3 DEF BusyOK, Busy, Procs
<1>7. CompleteIsProven
  BY DEF Init, NoRow, Row, CompleteIsProven
<1> QED
  BY <1>1, <1>5, <1>6, <1>7 DEF LogInv

(* With one ticker the log never runs ahead of the store and holds one     *)
(* event of one transition, whatever operators repeat, crash or race.      *)
THEOREM LifecycleLogMatchesStore ==
    ASSUME OneTicker PROVE Spec => []LogMatchesStore
<1>1. Init => LogInv
  BY LogInit
<1>2. LogInv /\ [Next]_vars => LogInv'
  BY LogStep
<1>3. LogInv => LogMatchesStore
  BY SaidTypes DEF LogInv, BaseInv, SaidOK, OnceOK, InStep, LogMatchesStore
<1> QED
  BY <1>1, <1>2, <1>3, PTL DEF Spec

(* With one ticker nothing is COMPLETE before its closing event is in the  *)
(* log and its work is done.                                               *)
THEOREM LifecycleCompleteIsProven ==
    ASSUME OneTicker PROVE Spec => []CompleteIsProven
<1>1. Init => LogInv
  BY LogInit
<1>2. LogInv /\ [Next]_vars => LogInv'
  BY LogStep
<1>3. LogInv => CompleteIsProven
  BY DEF LogInv
<1> QED
  BY <1>1, <1>2, <1>3, PTL DEF Spec

-----------------------------------------------------------------------------
(* The two sides of a rollover.                                            *)

(* An activation that cannot become ACTIVE again, and shows it from cut on. *)
Gone(a, cut) ==
    /\ row[a].state \in {"DRAINING", "COMPLETE", "ABORTED_SAFETY", "BLOCKED"}
    /\ row[a].eff <= Later(cut, clock)

Sealed(c) == c \in rollovers /\ Gone(c.pred, c.cut)

(* No transition brings it back: a repeated one replays the stored row,    *)
(* and the others take effect at once.                                     *)
LEMMA GoneMoved ==
    ASSUME TypeOK, NEW a \in Acts, NEW cut \in Instants, Gone(a, cut), clock' = clock,
           NEW b \in Acts, NEW new \in States, NEW eff \in Instants,
           NEW now \in Instants, NEW closed \in BOOLEAN, NEW stop \in BOOLEAN,
           new \in Live \/ eff <= clock,
           CanMove(b, new), Put(b, Moved(b, new, eff, now, closed, stop))
    PROVE  Gone(a, cut)'
<1> PICK r : r = Moved(b, new, eff, now, closed, stop)
  OBVIOUS
<1>1. row[b] \in RowSet /\ clock \in Nat /\ cut \in Nat
  BY FamilyTypes DEF TypeOK
<1>2. r \in RowSet
  BY <1>1, MovedType
<1>3. row'[b] = r /\ (a # b => row'[a] = row[a])
  BY <1>2, PutTypes
<1>4. CASE a # b
  BY <1>3, <1>4 DEF Gone
<1>5. CASE a = b /\ row[b].state = new
  BY <1>3, <1>5 DEF Gone, Moved
<1>6. CASE a = b /\ row[b].state # new
  <2>1. new \in {"COMPLETE", "ABORTED_SAFETY"} /\ eff <= clock
    BY <1>6 DEF Gone, CanMove, Allowed, Live
  <2>2. r.state = new /\ r.eff = eff
    BY <1>6 DEF Moved, Row
  <2>3. eff <= Later(cut, clock)
    BY <1>1, <2>1, FamilyTypes DEF Later
  <2> QED
    BY <1>3, <1>6, <2>1, <2>2, <2>3 DEF Gone
<1> QED
  BY <1>4, <1>5, <1>6

(* What leaves the rows alone leaves it gone. *)
LEMMA GoneStill ==
    ASSUME BaseInv, BaseInv', NEW a \in Acts, NEW cut \in Instants, Gone(a, cut),
           row' = row, clock <= clock'
    PROVE  Gone(a, cut)'
<1>1. clock \in Nat /\ clock' \in Nat /\ cut \in Nat /\ row[a].eff \in Nat
  BY FamilyTypes DEF BaseInv, TypeOK, RowSet, Instants
<1> QED
  BY <1>1 DEF Gone, Later

(* The writes of the commands. *)
LEMMA GoneOperator ==
    ASSUME BaseInv, BaseInv', NEW a \in Acts, NEW cut \in Instants, Gone(a, cut),
           NEW p \in Operators, OperatorStep(p)
    PROVE  Gone(a, cut)'
<1> DEFINE j == proc[p]
<1>0. TypeOK /\ j \in JobSet /\ JobFits(p, j) /\ clock \in Instants /\ clock \in Nat
  BY FamilyTypes DEF BaseInv, TypeOK, JobOK, Procs
<1>1. CASE Fence(p) \/ PersistRollover(p)
  <2>1. row' = row /\ clock' = clock
    BY <1>1 DEF Fence, PersistRollover
  <2> QED
    BY <1>0, <2>1, GoneStill
<1>2. CASE Write(p)
  <2>1. clock' = clock /\ j.act \in Acts /\ j.now \in Instants /\ j.now <= clock
    BY <1>0, <1>2 DEF Write, JobFits, JobSet
  <2>2. Target(j.stage) \in States /\ (j.stage = "stop") \in BOOLEAN
    BY DEF Target, States, Live, Stopped
  <2>3. CASE row' = row
    BY <1>0, <2>1, <2>3, GoneStill
  <2>4. CASE /\ CanMove(j.act, Target(j.stage))
             /\ Put(j.act, Moved(j.act, Target(j.stage), j.now, j.now,
                                 j.stage = "stop", j.stage = "stop"))
    BY <1>0, <2>1, <2>2, <2>4, GoneMoved
  <2> QED
    BY <1>2, <2>3, <2>4 DEF Write
<1>3. CASE RolloverWrite(p)
  <2> DEFINE b == IF j.stage = "drainPred" THEN j.roll.pred ELSE j.roll.succ
  <2>1. /\ clock' = clock /\ j.now \in Instants /\ j.roll \in Cutovers
        /\ j.stage \in {"drainPred", "activateSucc"}
    BY <1>0, <1>3 DEF RolloverWrite, JobFits, JobSet, RollStages
  <2>2. b \in Acts /\ j.roll.cut \in Instants
    BY <2>1, CutoverFields
  <2>3. Target(j.stage) \in States /\ Target(j.stage) \in Live
    BY <2>1 DEF Target, States, Live, Stopped
  <2>4. CASE row' = row
    BY <1>0, <2>1, <2>4, GoneStill
  <2>5. CASE /\ CanMove(b, Target(j.stage))
             /\ Put(b, Moved(b, Target(j.stage), j.roll.cut, j.now, FALSE, FALSE))
    BY <1>0, <2>1, <2>2, <2>3, <2>5, GoneMoved
  <2> QED
    BY <1>3, <2>4, <2>5 DEF RolloverWrite
<1> QED
  BY <1>1, <1>2, <1>3 DEF OperatorStep

(* The writes of a tick: a drain and a stop of intake want it ACTIVE, a    *)
(* completion takes effect at once, and a discovery stop, whatever it was  *)
(* read from, gives no ACTIVE row.                                         *)
LEMMA GoneTick ==
    ASSUME BaseInv, BaseInv', NEW a \in Acts, NEW cut \in Instants, Gone(a, cut),
           NEW p \in Tickers, TickStep(p)
    PROVE  Gone(a, cut)'
<1> DEFINE j == proc[p]
<1>0. /\ TypeOK /\ j \in JobSet /\ JobFits(p, j) /\ clock \in Instants /\ clock \in Nat
      /\ cut \in Nat /\ j.now \in Instants
  BY FamilyTypes DEF BaseInv, TypeOK, JobOK, Procs, JobSet
<1>1. clock' = clock
  BY DEF TickStep, TickLease, TickDrain, TickAdmit, TickSkip, TickBlocked,
     TickStopsIntake, TickDue, TickComplete
<1>2. CASE row' = row
  BY <1>0, <1>1, <1>2, GoneStill
<1>3. CASE TickDrain(p) /\ row' # row
  <2> PICK now : now = IF j.pc = "redrain" THEN clock ELSE j.now
    OBVIOUS
  <2>1. /\ j.act \in Acts /\ row[j.act].state = "ACTIVE"
        /\ Put(j.act, Moved(j.act, "DRAINING", now, now, TRUE, FALSE))
    BY <1>0, <1>3 DEF TickDrain, JobFits
  <2>2. now \in Instants /\ "DRAINING" \in States /\ "DRAINING" \in Live
    BY <1>0 DEF States, Live
  <2>3. CanMove(j.act, "DRAINING")
    BY <2>1 DEF CanMove, Allowed
  <2> QED
    BY <1>0, <1>1, <2>1, <2>2, <2>3, GoneMoved
<1>4. CASE TickStopsIntake(p)
  <2>1. /\ j.act \in Acts /\ row[j.act].state = "ACTIVE"
        /\ Put(j.act, Moved(j.act, "DRAINING", clock, clock, TRUE, TRUE))
    BY <1>0, <1>4 DEF TickStopsIntake, JobFits
  <2>2. "DRAINING" \in States /\ "DRAINING" \in Live
    BY DEF States, Live
  <2>3. CanMove(j.act, "DRAINING")
    BY <2>1 DEF CanMove, Allowed
  <2> QED
    BY <1>0, <1>1, <2>1, <2>2, <2>3, GoneMoved
<1>5. CASE TickComplete(p) /\ row' # row
  <2>1. /\ j.act \in Acts /\ row[j.act].state = "DRAINING" /\ j.now <= clock
        /\ Put(j.act, Moved(j.act, "COMPLETE", j.now, j.now, FALSE, FALSE))
    BY <1>0, <1>5 DEF TickComplete, Completable, JobFits
  <2>2. "COMPLETE" \in States /\ CanMove(j.act, "COMPLETE")
    BY <2>1 DEF States, Stopped, CanMove, Allowed
  <2> QED
    BY <1>0, <1>1, <2>1, <2>2, GoneMoved
<1>6. CASE TickBlocked(p)
  <2>1. j.act \in Acts /\ row[j.act] \in RowSet
    BY <1>0, <1>6 DEF TickBlocked, JobFits, TypeOK
  <2>2. CASE j.act # a
    <3>1. row'[a] = row[a]
      BY <1>0, <1>6, <2>2 DEF TickBlocked, TypeOK
    <3> QED
      BY <1>1, <3>1 DEF Gone
  <2>3. CASE j.act = a
    <3>1. \/ row'[a].state = "DRAINING" /\ row'[a].eff = row[a].eff
          \/ row'[a].state = "BLOCKED" /\ row'[a].eff = 0
      BY <1>0, <1>6, <2>1, <2>3 DEF TickBlocked, TypeOK, RowSet, Row
    <3>2. 0 <= Later(cut, clock)
      BY <1>0 DEF Later
    <3> QED
      BY <1>1, <3>1, <3>2 DEF Gone
  <2> QED
    BY <2>2, <2>3
<1>7. CASE TickLease(p) \/ TickAdmit(p) \/ TickSkip(p) \/ TickDue(p)
  <2>1. row' = row
    BY <1>7 DEF TickLease, TickAdmit, TickSkip, TickDue
  <2> QED
    BY <1>2, <2>1
<1> QED
  BY <1>2, <1>3, <1>4, <1>5, <1>6, <1>7 DEF TickStep

(* No step brings it back. *)
LEMMA GoneStep ==
    ASSUME BaseInv, BaseInv', NEW a \in Acts, NEW cut \in Instants, Gone(a, cut), [Next]_vars
    PROVE  Gone(a, cut)'
<1>1. CASE \E p \in Operators : OperatorStep(p)
  BY <1>1, GoneOperator
<1>2. CASE \E p \in Tickers : TickStep(p)
  BY <1>2, GoneTick
<1>3. CASE /\ ~\E p \in Operators : OperatorStep(p)
           /\ ~\E p \in Tickers : TickStep(p)
  <2>0. clock \in Nat
    BY FamilyTypes DEF BaseInv, TypeOK, Instants
  <2>1. CASE \E p \in Operators, a2 \in Acts :
                Activate(p, a2) \/ Pause(p, a2) \/ Resume(p, a2) \/ Abort(p, a2)
                \/ StopIntake(p, a2)
    BY <2>0, <2>1, GoneStill DEF Activate, Pause, Resume, Abort, StopIntake
  <2>2. CASE \E p \in Operators, c \in Cutovers : Rollover(p, c)
    BY <2>0, <2>2, GoneStill DEF Rollover
  <2>3. CASE \E p \in Tickers, a2 \in Acts : TickStart(p, a2)
    BY <2>0, <2>3, GoneStill DEF TickStart
  <2>4. CASE \E p \in Procs : AppendEvent(p) \/ Crash(p) \/ AppendFails(p)
    BY <2>0, <2>4, GoneStill DEF AppendEvent, Crash, AppendFails
  <2>5. CASE Tick \/ LeaseExpires \/ UNCHANGED vars
    BY <2>0, <2>5, GoneStill DEF Tick, LeaseExpires, vars
  <2> QED
    BY <1>3, <2>1, <2>2, <2>3, <2>4, <2>5 DEF Next
<1> QED
  BY <1>1, <1>2, <1>3

(* Before the cutover a sealed rollover holds back its successor, from     *)
(* then on its predecessor.                                                *)
LEMMA SealedExcludes ==
    ASSUME BaseInv, NEW c \in Cutovers, Sealed(c)
    PROVE  ~(Admitting(c.pred) /\ Admitting(c.succ))
<1>1. c.pred \in Acts /\ c.succ \in Acts /\ c.cut \in Nat /\ clock \in Nat
  BY CutoverFields, FamilyTypes DEF BaseInv
<1>2. row[c.pred].eff \in Nat
  BY <1>1, FamilyTypes DEF BaseInv, TypeOK, RowSet
<1>3. CASE row[c.pred].eff <= clock
  <2>1. Projected(c.pred, clock) # "ACTIVE"
    BY <1>3 DEF Projected, Sealed, Gone
  <2> QED
    BY <2>1 DEF Admitting
<1>4. CASE ~(row[c.pred].eff <= clock)
  <2>1. clock < c.cut
    BY <1>1, <1>2, <1>4 DEF Sealed, Gone, Later
  <2>2. SuccBeforeCutover(c.succ, clock)
    BY <2>1 DEF SuccBeforeCutover, Sealed
  <2> QED
    BY <2>2 DEF Admitting
<1> QED
  BY <1>3, <1>4

(* Once the drain of a predecessor is committed, its two sides never admit *)
(* together, for any number of operators, renewal timers and tickers, any  *)
(* commands and any faults.                                                *)
THEOREM LifecycleDrainedHandoverIsExclusive == Spec => DrainedHandoverIsExclusive
<1> SUFFICES ASSUME NEW c \in Cutovers
             PROVE  Spec => [](Drained(c) => []~BothAdmit(c))
  BY DEF DrainedHandoverIsExclusive
<1>1. Init => BaseInv
  BY BaseInit
<1>2. BaseInv /\ [Next]_vars => BaseInv'
  BY BaseStep
<1>3. BaseInv /\ Drained(c) => Sealed(c)
  <2> SUFFICES ASSUME BaseInv, Drained(c) PROVE Sealed(c)
    OBVIOUS
  <2>1. c.pred \in Acts /\ c.cut \in Nat /\ clock \in Nat /\ row[c.pred].eff \in Nat
    BY CutoverFields, FamilyTypes DEF BaseInv, TypeOK, RowSet
  <2> QED
    BY <2>1 DEF Drained, Sealed, Gone, Later
<1>4. BaseInv /\ BaseInv' /\ Sealed(c) /\ [Next]_vars => Sealed(c)'
  <2> SUFFICES ASSUME BaseInv, BaseInv', Sealed(c), [Next]_vars PROVE Sealed(c)'
    OBVIOUS
  <2>1. Gone(c.pred, c.cut)'
    BY GoneStep, CutoverFields DEF Sealed
  <2>2. rollovers \subseteq rollovers'
    BY DEF Next, vars, Activate, Pause, Resume, Abort, StopIntake, Rollover,
       OperatorStep, Fence, Write, PersistRollover, RolloverWrite, TickStart, TickStep,
       TickLease, TickDrain, TickAdmit, TickSkip, TickBlocked, TickStopsIntake, TickDue,
       TickComplete, AppendEvent, Crash, AppendFails, LeaseExpires, Tick
  <2> QED
    BY <2>1, <2>2 DEF Sealed
<1>5. BaseInv /\ Sealed(c) => ~BothAdmit(c)
  BY SealedExcludes DEF BothAdmit
<1> QED
  BY <1>1, <1>2, <1>3, <1>4, <1>5, PTL DEF Spec
=============================================================================
