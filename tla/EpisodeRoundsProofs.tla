------------------------ MODULE EpisodeRoundsProofs ------------------------
(***************************************************************************)
(* Proofs of the safety properties of EpisodeRounds, for any activations,  *)
(* mints, answers, ceilings and periods, and any number of crashes.        *)
(***************************************************************************)
EXTENDS EpisodeRounds, FiniteSetTheorems, WellFoundedInduction, TLAPS

Working == {"source", "sent", "frame", "admit"}

(* The running tick works on a round that is STARTED, asks a declared      *)
(* source, and counts as resumed if that round ever lost a tick.           *)
TickOK ==
    /\ tick.pc # "idle" => tick.act \in Acts
    /\ tick.pc \in {"survey", "recover", "nominate"} => tick.src = 1
    /\ tick.pc \in {"source", "sent"} => tick.src \in Sources
    /\ tick.pc \in Working => /\ rounds[Rid].state = "STARTED"
                              /\ ~tick.resumed => Rid \notin cut

(* A round admits only winners of its durable plan; a cut round has one.   *)
PlanOK ==
    \A id \in RoundIds :
        /\ ~rounds[id].plan.written => rounds[id].plan = NoPlan
        /\ rounds[id].state = "NONE" => ~rounds[id].plan.written
        /\ Committed(id) \subseteq rounds[id].plan.winners
        /\ id \in cut => rounds[id].plan.written

(* The terminal of a cut round tells whether its selection is whole.       *)
OutcomeOK ==
    \A id \in cut :
        \/ rounds[id].state = "STARTED"
        \/ rounds[id].outcome \in {"PARTIAL_ADMISSION", "REFUSED"}
        \/ Committed(id) \in {{}, rounds[id].plan.winners}

(* A call the ledger does not know was never made.                         *)
CallOK ==
    \A o \in Occurrences : /\ calls[o].state = "NONE" => sent[o] = 0
                           /\ sent[o] <= 1

BoundOK == IsFiniteSet(adm) /\ LineageBoundsHold

PlanInv == TypeOK /\ TickOK /\ PlanOK /\ OutcomeOK
RoundsInv == PlanInv /\ CallOK /\ BoundOK

----------------------------------------------------------------------------
(* Numbers and sets.                                                       *)

(* The round an instant falls in is one of those the model counts. *)
LEMMA PeriodOfInstant ==
    \A now \in 0 .. MaxTime : now \div Period \in Starts
<1> SUFFICES ASSUME NEW now \in 0 .. MaxTime PROVE now \div Period \in Starts
  OBVIOUS
<1>1. MaxTime \in Nat /\ Period \in Nat \ {0}
  BY RoundsAssumption
<1>2. now \in Nat /\ now <= MaxTime
  BY <1>1
<1>3. now \div Period \in Nat /\ MaxTime \div Period \in Nat
  BY <1>1, <1>2
<1>4. now \div Period <= MaxTime \div Period
  BY <1>1, <1>2
<1> QED
  BY <1>3, <1>4 DEF Starts

(* The tick of a named activation works on a round of the table. *)
LEMMA RidType == TypeOK /\ tick.act \in Acts => Rid \in RoundIds
<1> SUFFICES ASSUME TypeOK, tick.act \in Acts PROVE Rid \in RoundIds
  OBVIOUS
<1>1. tick.now \in 0 .. MaxTime
  BY DEF TypeOK
<1> QED
  BY <1>1, PeriodOfInstant DEF Rid, RoundIds

(* A quota is positive only while each of the three ceilings has room. *)
LEMMA PositiveQuota ==
    ASSUME NEW a \in Int, NEW b \in Int, NEW c \in Int,
           Max({0, Min({a, b, c})}) > 0
    PROVE  a > 0 /\ b > 0 /\ c > 0
<1>1. Min({a, b, c}) \in {a, b, c} /\ \A y \in {a, b, c} : Min({a, b, c}) <= y
  <2>1. \E x \in {a, b, c} : \A y \in {a, b, c} : x <= y
    OBVIOUS
  <2> QED
    BY <2>1 DEF Min
<1> DEFINE n == Min({a, b, c})
<1>2. n \in Int
  BY <1>1
<1> HIDE DEF n
<1>3. Max({0, n}) \in {0, n}
  <2>1. \E x \in {0, n} : \A y \in {0, n} : x >= y
    BY <1>2
  <2> QED
    BY <2>1 DEF Max
<1>4. n > 0
  BY <1>2, <1>3 DEF n
<1> QED
  BY <1>1, <1>2, <1>4 DEF n

(* What a round has committed is a finite set of mints. *)
LEMMA CommittedFinite ==
    ASSUME TypeOK, NEW id \in RoundIds
    PROVE  /\ Committed(id) \subseteq Mints
           /\ IsFiniteSet(Committed(id))
           /\ Cardinality(Committed(id)) \in Nat
<1>1. Committed(id) \subseteq Mints
  BY DEF TypeOK, Committed
<1>2. IsFiniteSet(Committed(id))
  BY <1>1, FS_Subset, RoundsAssumption
<1> QED
  BY <1>1, <1>2, FS_CardinalityType

----------------------------------------------------------------------------
(* The round table.                                                        *)

RoundType == [state : {"NONE", "STARTED", "CLOSED", "INCOMPLETE", "MISSED_NO_REQUEST"},
              plan : [written : BOOLEAN, winners : SUBSET Mints, prot : SUBSET Mints],
              outcome : Outcomes]

(* A terminal row has one of the declared outcomes. *)
LEMMA VerdictType ==
    ASSUME NEW id, NEW forced \in BOOLEAN, rounds[id].plan.written \in BOOLEAN
    PROVE  Verdict(id, forced) \in {"CLOSED", "NO_ADMISSION", "PARTIAL_ADMISSION", "REFUSED"}
BY DEF Verdict

(* What Record writes is typed if its arguments are. *)
LEMMA RecordType ==
    ASSUME TypeOK, NEW id, NEW st, NEW plan, NEW outcome,
           Record(id, st, plan, outcome),
           Round(st, plan, outcome) \in RoundType
    PROVE  rounds' \in [RoundIds -> RoundType]
BY DEF Record, TypeOK, RoundType

(* The plan of no round is typed. *)
LEMMA NoPlanType == NoPlan \in [written : BOOLEAN, winners : SUBSET Mints, prot : SUBSET Mints]
BY DEF NoPlan

(* Terminalizing a round of the table keeps the table typed. *)
LEMMA TerminalizeType ==
    ASSUME TypeOK, NEW id \in RoundIds, NEW forced \in BOOLEAN,
           Terminalize(id, Verdict(id, forced))
    PROVE  rounds' \in [RoundIds -> RoundType]
<1>1. rounds[id] \in RoundType
  BY DEF TypeOK, RoundType
<1>2. Verdict(id, forced) \in Outcomes
  BY <1>1, VerdictType DEF RoundType, Outcomes
<1> DEFINE v == Verdict(id, forced)
           st == IF v = "CLOSED" THEN "CLOSED" ELSE "INCOMPLETE"
<1>3. Record(id, st, rounds[id].plan, v)
  BY DEF Terminalize
<1>4. Round(st, rounds[id].plan, v) \in RoundType
  BY <1>1, <1>2 DEF Round, RoundType
<1> HIDE DEF v, st
<1> QED
  BY <1>3, <1>4, RecordType

(* The oldest expired round is a round of the table. *)
LEMMA ExpiredType ==
    ASSUME TypeOK, tick.act \in Acts, Expired # {}
    PROVE  Min(Expired) \in Starts
<1>1. Expired \subseteq Nat /\ Expired \subseteq Starts
  BY RoundsAssumption DEF Expired, Starts
<1>2. PICK x \in Expired : \A y \in Expired : <<y, x>> \notin OpToRel(<, Nat)
  BY <1>1, NatLessThanWellFounded, WFMin, Zenon
<1>3. \A y \in Expired : ~(y < x)
  BY <1>1, <1>2, Zenon DEF OpToRel
<1>4. \A y \in Expired : x <= y
  BY <1>1, <1>3
<1> QED
  BY <1>1, <1>4 DEF Min

----------------------------------------------------------------------------
(* Types and the running tick.                                             *)

CallType == [state : {"NONE", "STARTED", "OBSERVED", "OUTSIDE", "FAILED"},
             body : SUBSET Mints, at : 0 .. MaxTime]
TickType == [pc : {"idle", "survey", "recover", "nominate", "source", "sent",
                   "frame", "admit"},
             act : Acts \cup {NoAct}, open : BOOLEAN, now : 0 .. MaxTime,
             resumed : BOOLEAN, src : 1 .. NSources + 1, todo : SUBSET Mints]

(* The tick that Init and End leave is typed. *)
LEMMA IdleType == Idle \in TickType
BY RoundsAssumption DEF Idle, TickType

(* Every step keeps the types, and gives a running tick an activation and, *)
(* while it asks, a declared source.                                       *)
LEMMA TypeOKStep ==
    ASSUME TypeOK, TickOK, [Next]_vars
    PROVE  TypeOK'
<1>0. /\ rounds \in [RoundIds -> RoundType] /\ calls \in [Occurrences -> CallType]
      /\ tick \in TickType /\ clock \in 0 .. MaxTime
      /\ NoPlan \in [written : BOOLEAN, winners : SUBSET Mints, prot : SUBSET Mints]
      /\ Idle \in TickType
  BY NoPlanType, IdleType DEF TypeOK, RoundType, CallType, TickType
<1>1. ASSUME rounds' \in [RoundIds -> RoundType], calls' \in [Occurrences -> CallType],
             tick' \in TickType,
             UNCHANGED <<clock, state, protected, sent, adm, cut, crashes, changes>>
      PROVE  TypeOK'
  BY <1>1 DEF TypeOK, RoundType, CallType, TickType
<1>2. CASE UNCHANGED vars
  BY <1>2 DEF vars, TypeOK
<1>3. ASSUME NEW a \in Acts, TickStart(a) PROVE TypeOK'
  <2>1. tick' \in TickType
    BY <1>0, <1>3 DEF TickStart, Idle, TickType
  <2>2. state' \in [Acts -> {"ACTIVE", "PAUSED", "DRAINING"}]
    BY <1>3 DEF TickStart, TypeOK
  <2> QED
    BY <1>3, <2>1, <2>2 DEF TickStart, TypeOK, TickType
<1>4. ASSUME NEW a \in Acts, StopIntake(a) \/ Pause(a) \/ Resume(a) PROVE TypeOK'
  BY <1>4 DEF StopIntake, Pause, Resume, TypeOK
<1>5. CASE Survey
  BY <1>0, <1>1, <1>5 DEF Survey, TickType
<1>6. CASE Recover
  <2>1. <<tick.act, Min(Expired)>> \in RoundIds
    BY <1>6, ExpiredType DEF Recover, TickOK, RoundIds
  <2>2. rounds' \in [RoundIds -> RoundType]
    BY <1>6, <2>1, TerminalizeType DEF Recover
  <2> QED
    BY <1>0, <1>1, <1>6, <2>2 DEF Recover
<1>7. CASE Decide
  <2>1. tick' \in TickType
    BY <1>0, <1>7 DEF Decide, End, TickType
  <2> QED
    BY <1>0, <1>1, <1>7, <2>1 DEF Decide
<1>8. CASE Nominate
  <2>1. Rid \in RoundIds /\ rounds[Rid] \in RoundType
    BY <1>0, <1>8, RidType DEF Nominate, TickOK
  <2>2. rounds' \in [RoundIds -> RoundType]
    <3>1. CASE Record(Rid, "MISSED_NO_REQUEST", NoPlan, "MISSED_NO_REQUEST")
      BY <1>0, <3>1, RecordType DEF Round, RoundType, Outcomes
    <3>2. CASE Terminalize(Rid, Verdict(Rid, FALSE))
      BY <2>1, <3>2, TerminalizeType
    <3>3. CASE Record(Rid, "STARTED", NoPlan, "none")
      BY <1>0, <3>3, RecordType DEF Round, RoundType, Outcomes
    <3> QED
      BY <1>0, <1>8, <3>1, <3>2, <3>3 DEF Nominate
  <2>3. tick' \in TickType
    <3>1. rounds[Rid].plan.written \in BOOLEAN
      BY <2>1 DEF RoundType
    <3>2. CASE tick' = [tick EXCEPT !.pc = "source", !.resumed = rounds[Rid].plan.written]
      BY <1>0, <3>1, <3>2 DEF TickType
    <3>3. CASE tick' = [tick EXCEPT !.pc = "source"]
      BY <1>0, <3>3 DEF TickType
    <3> QED
      BY <1>0, <1>8, <3>2, <3>3 DEF Nominate, End, Go
  <2> QED
    BY <1>0, <1>1, <1>8, <2>2, <2>3 DEF Nominate
<1>9. ASSUME NextSource, tick.pc \in {"source", "sent"} PROVE tick' \in TickType
  <2>1. tick.src \in 1 .. NSources /\ NSources \in Nat
    BY <1>9, RoundsAssumption DEF TickOK, Sources
  <2>2. tick.src + 1 \in 1 .. NSources + 1
    BY <2>1
  <2> QED
    BY <1>0, <1>9, <2>2 DEF NextSource, TickType
<1>10. CASE CallSettled
  BY <1>0, <1>1, <1>9, <1>10 DEF CallSettled
<1>11. CASE CallStart
  <2>1. calls' \in [Occurrences -> CallType]
    BY <1>0, <1>11 DEF CallStart, Call, CallType
  <2>2. tick' \in TickType
    BY <1>0, <1>11 DEF CallStart, Go, TickType
  <2>3. sent' \in [Occurrences -> Nat]
    <3>1. sent[<<Rid, tick.src>>] + 1 \in Nat
      BY <1>11, RidType DEF CallStart, TickOK, Occurrences, TypeOK
    <3> QED
      BY <1>11, <3>1 DEF CallStart, TypeOK
  <2> QED
    BY <1>11, <2>1, <2>2, <2>3 DEF CallStart, TypeOK, CallType, TickType
<1>12. CASE CallComplete
  <2>1. <<Rid, tick.src>> \in Occurrences
    BY <1>12, RidType DEF CallComplete, TickOK, Occurrences
  <2>2. calls[<<Rid, tick.src>>].at \in 0 .. MaxTime
    BY <1>0, <2>1 DEF CallType
  <2>3. calls' \in [Occurrences -> CallType]
    <3>1. \A b \in SUBSET Mints : \A st \in {"OBSERVED", "OUTSIDE", "FAILED"} :
             Call(st, b, calls[<<Rid, tick.src>>].at) \in CallType
      BY <2>2 DEF Call, CallType
    <3>2. \E c \in CallType : calls' = [calls EXCEPT ![<<Rid, tick.src>>] = c]
      BY <1>12, <3>1, RoundsAssumption DEF CallComplete
    <3> QED
      BY <1>0, <3>2
  <2>4. tick' \in TickType
    BY <1>9, <1>12 DEF CallComplete
  <2> QED
    BY <1>0, <1>1, <1>12, <2>3, <2>4 DEF CallComplete
<1>13. CASE Frame
  <2>1. Rid \in RoundIds /\ rounds[Rid] \in RoundType
    BY <1>0, <1>13, RidType DEF Frame, TickOK
  <2>2. Candidates \subseteq Mints
    <3>1. \A s \in Sources : calls[<<Rid, s>>].body \subseteq Mints
      BY <1>0, <2>1 DEF Occurrences, CallType
    <3> QED
      BY <3>1 DEF Candidates
  <2>3. \A q : Select(Candidates \ Blocked, q) \in SUBSET Mints
    BY <2>2 DEF Select
  <2>4. rounds' \in [RoundIds -> RoundType]
    <3>1. CASE Terminalize(Rid, Verdict(Rid, TRUE))
      BY <2>1, <3>1, TerminalizeType
    <3>2. CASE Record(Rid, "INCOMPLETE", NoPlan, "FRAME_INCOMPLETE")
      BY <1>0, <3>2, RecordType DEF Round, RoundType, Outcomes
    <3>3. ASSUME NEW q,
                 Record(Rid, "STARTED", Plan(Select(Candidates \ Blocked, q), protected),
                        "none")
          PROVE  rounds' \in [RoundIds -> RoundType]
      <4>1. protected \in SUBSET Mints
        BY DEF TypeOK
      <4>2. Plan(Select(Candidates \ Blocked, q), protected)
               \in [written : BOOLEAN, winners : SUBSET Mints, prot : SUBSET Mints]
        BY <2>3, <4>1 DEF Plan
      <4>3. Round("STARTED", Plan(Select(Candidates \ Blocked, q), protected), "none")
               \in RoundType
        BY <4>2 DEF Round, RoundType, Outcomes
      <4> QED
        BY <3>3, <4>3, RecordType
    <3> QED
      BY <1>0, <1>13, <3>1, <3>2, <3>3 DEF Frame
  <2>5. tick' \in TickType
    <3>1. ASSUME NEW w \in SUBSET Mints,
                 tick' = [tick EXCEPT !.pc = "admit", !.todo = w \ Committed(Rid)]
          PROVE  tick' \in TickType
      BY <1>0, <3>1 DEF TickType
    <3>2. rounds[Rid].plan.winners \in SUBSET Mints
      BY <2>1 DEF RoundType
    <3> QED
      BY <1>0, <1>13, <2>3, <3>1, <3>2 DEF Frame, End
  <2> QED
    BY <1>0, <1>1, <1>13, <2>4, <2>5 DEF Frame
<1>14. CASE Admit
  <2>1. tick' \in TickType
    BY <1>0, <1>14 DEF Admit, TickType
  <2>2. Rid \in RoundIds /\ rounds[Rid].plan.winners \in SUBSET Mints
    BY <1>0, <1>14, RidType DEF Admit, TickOK, RoundType
  <2>3. adm' \subseteq [mint : Mints, id : RoundIds, t0 : 0 .. MaxTime]
    BY <1>0, <1>14, <2>2 DEF Admit, CanCommit, TypeOK
  <2> QED
    BY <1>14, <2>1, <2>3 DEF Admit, TypeOK, TickType
<1>15. CASE Close
  <2>1. Rid \in RoundIds /\ rounds[Rid] \in RoundType
    BY <1>0, <1>15, RidType DEF Close, TickOK
  <2>2. rounds' \in [RoundIds -> RoundType]
    <3>1. CASE Terminalize(Rid, Verdict(Rid, FALSE))
      BY <2>1, <3>1, TerminalizeType
    <3>2. CASE Record(Rid, "CLOSED", rounds[Rid].plan, "CLOSED")
      BY <2>1, <3>2, RecordType DEF Round, RoundType, Outcomes
    <3> QED
      BY <1>15, <3>1, <3>2 DEF Close
  <2> QED
    BY <1>0, <1>1, <1>15, <2>2 DEF Close, End
<1>16. CASE Pass
  BY <1>16, RoundsAssumption DEF Pass, TypeOK
<1>17. CASE Crash
  <2>1. tick.pc \in Working => Rid \in RoundIds
    BY RidType DEF TickOK, Working
  <2> QED
    BY <1>0, <1>17, <2>1, RoundsAssumption DEF Crash, End, TypeOK, TickType, Working
<1>18. ASSUME NEW m \in Mints, Protect(m) PROVE TypeOK'
  BY <1>18 DEF Protect, TypeOK
<1> QED
  BY <1>2, <1>3, <1>4, <1>5, <1>6, <1>7, <1>8, <1>10, <1>11, <1>12, <1>13, <1>14,
     <1>15, <1>16, <1>17, <1>18 DEF Next, TickStep

(* Every step keeps the running tick in step with its round. *)
LEMMA TickOKStep ==
    ASSUME TypeOK, TickOK, PlanOK, [Next]_vars
    PROVE  TickOK'
<1>0. tick \in TickType /\ rounds \in [RoundIds -> RoundType]
  BY DEF TypeOK, TickType, RoundType
<1>1. ASSUME tick'.pc = "idle" PROVE TickOK'
  BY <1>1 DEF TickOK, Working
<1>2. ASSUME UNCHANGED <<tick, rounds, cut>> PROVE TickOK'
  BY <1>2 DEF TickOK, Rid
<1>3. Idle.pc = "idle"
  BY DEF Idle
<1>4. ASSUME NEW a \in Acts, TickStart(a) PROVE TickOK'
  BY <1>4 DEF TickStart, Idle, TickOK, Working
<1>5. CASE Survey
  BY <1>0, <1>5 DEF Survey, TickOK, TickType, Working
<1>6. CASE Recover
  BY <1>6 DEF Recover, TickOK, Working
<1>7. CASE Decide
  BY <1>0, <1>1, <1>3, <1>7 DEF Decide, End, TickOK, TickType, Working
<1>8. CASE Nominate
  <2>1. Rid \in RoundIds /\ tick.act \in Acts /\ tick.src = 1 /\ 1 \in Sources
    BY <1>8, RidType, RoundsAssumption DEF Nominate, TickOK, Sources
  <2>2. CASE tick' = Idle
    BY <1>1, <1>3, <2>2
  <2>3. ASSUME rounds[Rid].state = "STARTED", rounds' = rounds,
               tick' = [tick EXCEPT !.pc = "source", !.resumed = rounds[Rid].plan.written]
        PROVE  TickOK'
    <3>1. Rid' = Rid /\ tick'.act = tick.act /\ tick'.src = tick.src /\ tick'.pc = "source"
          /\ tick'.resumed = rounds[Rid].plan.written
      BY <1>0, <2>3 DEF Rid, TickType
    <3>2. ~tick'.resumed => Rid \notin cut'
      BY <1>8, <2>1, <3>1 DEF Nominate, PlanOK
    <3> QED
      BY <2>1, <2>3, <3>1, <3>2 DEF TickOK, Working
  <2>4. ASSUME rounds[Rid].state = "NONE", Record(Rid, "STARTED", NoPlan, "none"),
               Go("source")
        PROVE  TickOK'
    <3>1. Rid' = Rid /\ tick'.act = tick.act /\ tick'.src = tick.src /\ tick'.pc = "source"
      BY <1>0, <2>4 DEF Rid, TickType, Go
    <3>2. rounds'[Rid].state = "STARTED"
      BY <1>0, <2>1, <2>4 DEF Record, Round
    <3>3. Rid \notin cut'
      BY <1>8, <2>1, <2>4 DEF Nominate, PlanOK
    <3> QED
      BY <2>1, <3>1, <3>2, <3>3 DEF TickOK, Working
  <2> QED
    BY <1>8, <2>2, <2>3, <2>4 DEF Nominate, End
<1>9. ASSUME NextSource, tick.pc \in {"source", "sent"}, UNCHANGED <<rounds, cut>>
      PROVE  TickOK'
  <2>1. Rid' = Rid /\ tick'.act = tick.act /\ tick'.src = tick.src + 1
        /\ tick'.resumed = tick.resumed
        /\ tick'.pc = IF tick.src = NSources THEN "frame" ELSE "source"
    BY <1>0, <1>9 DEF NextSource, Rid, TickType
  <2>2. tick.src # NSources => tick.src + 1 \in Sources
    BY <1>9, RoundsAssumption DEF TickOK, Sources
  <2> QED
    BY <1>9, <2>1, <2>2 DEF TickOK, Working
<1>10. CASE CallSettled
  BY <1>9, <1>10 DEF CallSettled
<1>11. CASE CallStart
  <2>1. Rid' = Rid /\ tick' = [tick EXCEPT !.pc = "sent"]
    BY <1>0, <1>11 DEF CallStart, Go, Rid, TickType
  <2> QED
    BY <1>0, <1>11, <2>1 DEF CallStart, TickOK, TickType, Working
<1>12. CASE CallComplete
  BY <1>9, <1>12 DEF CallComplete
<1>13. CASE Frame
  <2>1. Rid \in RoundIds
    BY <1>13, RidType DEF Frame, TickOK
  <2>2. CASE tick' = Idle
    BY <1>1, <1>3, <2>2
  <2>3. ASSUME NEW w, tick' = [tick EXCEPT !.pc = "admit", !.todo = w],
               rounds'[Rid].state = "STARTED"
        PROVE  TickOK'
    <3>1. Rid' = Rid /\ tick'.act = tick.act /\ tick'.pc = "admit"
          /\ tick'.resumed = tick.resumed
      BY <1>0, <2>3 DEF Rid, TickType
    <3> QED
      BY <1>13, <2>3, <3>1 DEF Frame, TickOK, Working
  <2>4. rounds[Rid].state = "STARTED"
    BY <1>13 DEF Frame, TickOK, Working
  <2>5. ASSUME NEW plan, Record(Rid, "STARTED", plan, "none")
        PROVE  rounds'[Rid].state = "STARTED"
    BY <1>0, <2>1, <2>5 DEF Record, Round
  <2> QED
    BY <1>13, <2>2, <2>3, <2>4, <2>5 DEF Frame, End
<1>14. CASE Admit
  <2>1. Rid' = Rid /\ tick'.pc = tick.pc /\ tick'.act = tick.act /\ tick'.src = tick.src
        /\ tick'.resumed = tick.resumed
    BY <1>0, <1>14 DEF Admit, Rid, TickType
  <2> QED
    BY <1>14, <2>1 DEF Admit, TickOK
<1>15. CASE Close
  BY <1>1, <1>3, <1>15 DEF Close, End
<1>16. CASE Crash
  BY <1>1, <1>3, <1>16 DEF Crash, End
<1> QED
  BY <1>2, <1>4, <1>5, <1>6, <1>7, <1>8, <1>10, <1>11, <1>12, <1>13, <1>14, <1>15,
     <1>16 DEF Next, TickStep, vars, StopIntake, Pause, Resume, Pass, Protect

----------------------------------------------------------------------------
(* Plans and outcomes.                                                     *)

(* Recording a round under its own plan, or under a first plan, keeps what *)
(* is committed within the plan; the outcome it records, if the round was  *)
(* cut, has to agree with what is committed.                               *)
LEMMA RecordKeeps ==
    ASSUME TypeOK, PlanOK, OutcomeOK, NEW id \in RoundIds, NEW st, NEW plan, NEW outcome,
           Record(id, st, plan, outcome), st # "NONE",
           plan.written = TRUE \/ plan = NoPlan,
           id \in cut => \/ st = "STARTED"
                        \/ outcome \in {"PARTIAL_ADMISSION", "REFUSED"}
                        \/ Committed(id) \in {{}, plan.winners},
           UNCHANGED <<adm, cut>>
    PROVE  PlanOK' /\ OutcomeOK'
<1>0. rounds \in [RoundIds -> RoundType]
  BY DEF TypeOK, RoundType
<1>1. \A i : Committed(i)' = Committed(i)
  BY DEF Committed
<1>2. \A i \in RoundIds : rounds'[i] = IF i = id THEN Round(st, plan, outcome) ELSE rounds[i]
  BY <1>0 DEF Record
<1>3. Committed(id) \subseteq plan.winners
  <2>1. CASE rounds[id].plan.written
    BY <2>1 DEF Record, PlanOK
  <2>2. CASE ~rounds[id].plan.written
    BY <2>2 DEF PlanOK, NoPlan
  <2> QED
    BY <2>1, <2>2
<1>4. id \in cut => plan.written
  BY DEF Record, PlanOK
<1>5. PlanOK'
  <2> SUFFICES ASSUME NEW i \in RoundIds
               PROVE  /\ ~rounds'[i].plan.written => rounds'[i].plan = NoPlan
                      /\ rounds'[i].state = "NONE" => ~rounds'[i].plan.written
                      /\ Committed(i)' \subseteq rounds'[i].plan.winners
                      /\ i \in cut => rounds'[i].plan.written
    BY DEF PlanOK, NoPlan
  <2>1. CASE i = id
    <3>1. rounds'[i].plan = plan /\ rounds'[i].state = st
      BY <1>2, <2>1 DEF Round
    <3> QED
      BY <1>1, <1>3, <1>4, <2>1, <3>1
  <2>2. CASE i # id
    BY <1>1, <1>2, <2>2 DEF PlanOK
  <2> QED
    BY <2>1, <2>2
<1>6. cut \subseteq RoundIds
  BY DEF TypeOK
<1>7. OutcomeOK'
  BY <1>1, <1>2, <1>6 DEF OutcomeOK, Round
<1> QED
  BY <1>5, <1>7

(* A round reconciled from what is durable gets the outcome it has. *)
LEMMA TerminalizeKeeps ==
    ASSUME TypeOK, PlanOK, OutcomeOK, NEW id \in RoundIds, NEW forced \in BOOLEAN,
           Terminalize(id, Verdict(id, forced)), UNCHANGED <<adm, cut>>
    PROVE  PlanOK' /\ OutcomeOK'
<1>1. rounds[id].plan.written \in BOOLEAN
  BY DEF TypeOK
<1>2. rounds[id].plan.written = TRUE \/ rounds[id].plan = NoPlan
  BY <1>1 DEF PlanOK
<1> DEFINE v == Verdict(id, forced)
           st == IF v = "CLOSED" THEN "CLOSED" ELSE "INCOMPLETE"
<1>3. \/ v \in {"PARTIAL_ADMISSION", "REFUSED"}
      \/ Committed(id) \in {{}, rounds[id].plan.winners}
  BY <1>1 DEF Verdict
<1>4. Record(id, st, rounds[id].plan, v) /\ st # "NONE"
  BY DEF Terminalize
<1> HIDE DEF v, st
<1> QED
  BY <1>2, <1>3, <1>4, RecordKeeps

(* Recording a round without a plan means that it never had one. *)
LEMMA NoPlanKeeps ==
    ASSUME TypeOK, PlanOK, OutcomeOK, NEW id \in RoundIds, NEW st, NEW outcome,
           Record(id, st, NoPlan, outcome), st # "NONE", UNCHANGED <<adm, cut>>
    PROVE  PlanOK' /\ OutcomeOK'
<1>1. id \notin cut
  BY DEF Record, PlanOK, NoPlan
<1> QED
  BY <1>1, RecordKeeps

(* Every step keeps the admissions within the durable plans, and a cut     *)
(* round that is neither open nor blocking has all of its winners or none. *)
LEMMA PlanStep ==
    ASSUME TypeOK, TickOK, PlanOK, OutcomeOK, [Next]_vars
    PROVE  PlanOK' /\ OutcomeOK'
<1>0. rounds \in [RoundIds -> RoundType] /\ cut \subseteq RoundIds
  BY DEF TypeOK, RoundType
<1>1. ASSUME UNCHANGED <<rounds, adm, cut>> PROVE PlanOK' /\ OutcomeOK'
  BY <1>1 DEF PlanOK, OutcomeOK, Committed
<1>2. tick.pc \in Working \cup {"nominate"} => Rid \in RoundIds
  BY RidType DEF TickOK, Working
<1>3. CASE Recover
  <2>1. <<tick.act, Min(Expired)>> \in RoundIds
    BY <1>3, ExpiredType DEF Recover, TickOK, RoundIds
  <2> QED
    BY <1>3, <2>1, TerminalizeKeeps DEF Recover
<1>4. CASE Nominate
  <2>1. Rid \in RoundIds
    BY <1>2, <1>4 DEF Nominate
  <2>2. CASE Terminalize(Rid, Verdict(Rid, FALSE))
    BY <1>4, <2>1, <2>2, TerminalizeKeeps DEF Nominate
  <2>3. ASSUME NEW st \in {"STARTED", "MISSED_NO_REQUEST"}, NEW outcome,
               Record(Rid, st, NoPlan, outcome)
        PROVE  PlanOK' /\ OutcomeOK'
    BY <1>4, <2>1, <2>3, NoPlanKeeps DEF Nominate
  <2> QED
    BY <1>1, <1>4, <2>2, <2>3 DEF Nominate
<1>5. CASE Frame
  <2>1. Rid \in RoundIds
    BY <1>2, <1>5 DEF Frame, Working
  <2>2. CASE Terminalize(Rid, Verdict(Rid, TRUE))
    BY <1>5, <2>1, <2>2, TerminalizeKeeps DEF Frame
  <2>3. CASE Record(Rid, "INCOMPLETE", NoPlan, "FRAME_INCOMPLETE")
    BY <1>5, <2>1, <2>3, NoPlanKeeps DEF Frame
  <2>4. ASSUME NEW w, Record(Rid, "STARTED", Plan(w, protected), "none")
        PROVE  PlanOK' /\ OutcomeOK'
    <3>1. Plan(w, protected).written = TRUE
      BY DEF Plan
    <3> QED
      BY <1>5, <2>1, <2>4, <3>1, RecordKeeps DEF Frame
  <2> QED
    BY <1>1, <1>5, <2>2, <2>3, <2>4 DEF Frame
<1>6. CASE Admit
  <2>1. CASE adm' = adm
    BY <1>1, <1>6, <2>1 DEF Admit
  <2>2. CASE adm' # adm
    <3>1. PICK m : /\ adm' = adm \cup {[mint |-> m, id |-> Rid, t0 |-> clock]}
                   /\ rounds[Rid].state = "STARTED" /\ m \in rounds[Rid].plan.winners
      BY <1>6, <2>2 DEF Admit, CanCommit
    <3>2. \A i : Committed(i)' = IF i = Rid THEN Committed(i) \cup {m} ELSE Committed(i)
      <4>1. [mint |-> m, id |-> Rid, t0 |-> clock].id = Rid
            /\ [mint |-> m, id |-> Rid, t0 |-> clock].mint = m
        OBVIOUS
      <4> QED
        BY <3>1, <4>1, Zenon DEF Committed
    <3> QED
      BY <1>6, <3>1, <3>2 DEF Admit, PlanOK, OutcomeOK
  <2> QED
    BY <2>1, <2>2
<1>7. CASE Close
  <2>1. Rid \in RoundIds
    BY <1>2, <1>7 DEF Close, Working
  <2>2. CASE Terminalize(Rid, Verdict(Rid, FALSE))
    BY <1>7, <2>1, <2>2, TerminalizeKeeps DEF Close
  <2>3. ASSUME ~(tick.resumed /\ rounds[Rid].plan.winners \ Committed(Rid) # {}),
               Record(Rid, "CLOSED", rounds[Rid].plan, "CLOSED")
        PROVE  PlanOK' /\ OutcomeOK'
    <3>1. Rid \in cut => Committed(Rid) = rounds[Rid].plan.winners
      BY <1>7, <2>1, <2>3 DEF Close, TickOK, Working, PlanOK
    <3>2. rounds[Rid].plan.written = TRUE \/ rounds[Rid].plan = NoPlan
      BY <1>0, <2>1 DEF PlanOK, RoundType
    <3> QED
      BY <1>7, <2>1, <2>3, <3>1, <3>2, RecordKeeps DEF Close
  <2> QED
    BY <1>7, <2>2, <2>3 DEF Close
<1>8. CASE Crash
  <2>1. \A i : Committed(i)' = Committed(i)
    BY <1>8 DEF Crash, Committed
  <2>2. \A i \in cut' : i \in cut \/ (i = Rid /\ rounds[i].state = "STARTED"
                                     /\ rounds[i].plan.written)
    BY <1>8 DEF Crash, TickOK, Working
  <2> QED
    BY <1>8, <2>1, <2>2 DEF Crash, PlanOK, OutcomeOK
<1> QED
  BY <1>1, <1>3, <1>4, <1>5, <1>6, <1>7, <1>8
  DEF Next, TickStep, vars, TickStart, StopIntake, Pause, Resume, Survey, Decide,
      CallSettled, CallStart, CallComplete, Pass, Protect

----------------------------------------------------------------------------
(* Calls and ceilings.                                                     *)

(* Every step keeps the ledger ahead of the requests. *)
LEMMA CallStep ==
    ASSUME TypeOK, TickOK, CallOK, [Next]_vars PROVE CallOK'
<1>1. ASSUME UNCHANGED <<calls, sent>> PROVE CallOK'
  BY <1>1 DEF CallOK
<1>2. CASE CallStart
  <2>1. <<Rid, tick.src>> \in Occurrences
    BY <1>2, RidType DEF CallStart, TickOK, Occurrences
  <2>2. sent[<<Rid, tick.src>>] = 0
    BY <1>2, <2>1 DEF CallStart, CallOK
  <2> QED
    BY <1>2, <2>1, <2>2 DEF CallStart, CallOK, Call, TypeOK
<1>3. CASE CallComplete
  <2>1. \E c : /\ c.state # "NONE"
               /\ calls' = [calls EXCEPT ![<<Rid, tick.src>>] = c]
    BY <1>3 DEF CallComplete, Call
  <2> QED
    BY <1>3, <2>1 DEF CallComplete, CallOK, TypeOK
<1> QED
  BY <1>1, <1>2, <1>3
  DEF Next, TickStep, vars, TickStart, StopIntake, Pause, Resume, Survey, Recover, Decide,
      Nominate, CallSettled, Frame, Admit, Close, Pass, Crash, Protect

(* One more admission fits under a ceiling that has room. *)
LEMMA OneMore ==
    ASSUME NEW S, NEW T, NEW x, NEW n \in Nat, IsFiniteSet(S),
           T \subseteq S \cup {x}, n - Cardinality(S) > 0
    PROVE  Cardinality(T) <= n
<1>1. IsFiniteSet(S \cup {x}) /\ Cardinality(S \cup {x}) <= Cardinality(S) + 1
  <2>1. Cardinality(S) \in Nat
    BY FS_CardinalityType
  <2>2. /\ IsFiniteSet(S \cup {x})
        /\ Cardinality(S \cup {x}) = IF x \in S THEN Cardinality(S) ELSE Cardinality(S) + 1
    BY FS_AddElement
  <2> QED
    BY <2>1, <2>2
<1>2. IsFiniteSet(T) /\ Cardinality(T) <= Cardinality(S \cup {x})
  BY <1>1, FS_Subset
<1> QED
  BY <1>1, <1>2, FS_CardinalityType

(* Every step keeps the ceilings of the lineage: an admission re-reads the *)
(* quota and the blocked mints, and time only ends trajectories.           *)
LEMMA BoundStep ==
    ASSUME TypeOK, TypeOK', TickOK, BoundOK, [Next]_vars PROVE BoundOK'
<1>0. clock \in Nat /\ clock' \in Nat /\ Life \in Nat
      /\ DayCeiling \in Nat /\ ActiveCap \in Nat /\ RoundQuota \in Nat
  BY RoundsAssumption DEF TypeOK
<1>1. ASSUME UNCHANGED <<clock, adm>> PROVE BoundOK'
  BY <1>1 DEF BoundOK, LineageBoundsHold, Active, Committed
<1>2. IsFiniteSet(Active(clock)) /\ Cardinality(Active(clock)) \in Nat
      /\ Cardinality(adm) \in Nat
  <2>1. Active(clock) \subseteq adm /\ IsFiniteSet(adm)
    BY DEF Active, BoundOK
  <2> QED
    BY <2>1, FS_Subset, FS_CardinalityType
<1>3. CASE Pass
  <2>1. Active(clock)' \subseteq Active(clock)
    <3>1. \A x \in adm : x.t0 \in Int
      BY RoundsAssumption DEF TypeOK
    <3> QED
      BY <1>0, <1>3, <3>1 DEF Pass, Active
  <2>2. Cardinality(Active(clock)') <= Cardinality(Active(clock))
    BY <1>2, <2>1, FS_Subset
  <2>3. Cardinality(Active(clock)') \in Nat
    BY <1>2, <2>1, FS_Subset, FS_CardinalityType
  <2>4. Cardinality(Active(clock)') <= ActiveCap
    BY <1>0, <1>2, <2>2, <2>3 DEF BoundOK, LineageBoundsHold
  <2> QED
    BY <1>3, <2>4 DEF Pass, BoundOK, LineageBoundsHold, Committed
<1>4. CASE Admit
  <2>1. CASE adm' = adm
    BY <1>1, <1>4, <2>1 DEF Admit
  <2>2. CASE adm' # adm
    <3> DEFINE m == Min(tick.todo)
               x == [mint |-> m, id |-> Rid, t0 |-> clock]
    <3>1. adm' = adm \cup {x} /\ m \notin Blocked /\ Quota(Rid, clock) > 0
          /\ clock' = clock
      BY <1>4, <2>2 DEF Admit, CanCommit
    <3>2. Rid \in RoundIds
      BY <1>4, RidType DEF Admit, TickOK
    <3> HIDE DEF m
    <3>3. IsFiniteSet(adm) /\ IsFiniteSet(Committed(Rid)) /\ Cardinality(Committed(Rid)) \in Nat
      BY <3>2, CommittedFinite DEF BoundOK
    <3>4. /\ RoundQuota - Cardinality(Committed(Rid)) > 0
          /\ DayCeiling - Cardinality(adm) > 0
          /\ ActiveCap - Cardinality(Active(clock)) > 0
      BY <1>0, <1>2, <3>1, <3>3, PositiveQuota DEF Quota
    <3>5. IsFiniteSet(adm')
      BY <3>1, <3>3, FS_AddElement
    <3>6. Cardinality(adm') <= DayCeiling
      BY <1>0, <3>1, <3>3, <3>4, OneMore
    <3>7. Cardinality(Active(clock)') <= ActiveCap
      <4>1. Active(clock)' \subseteq Active(clock) \cup {x}
        BY <3>1 DEF Active
      <4> QED
        BY <1>0, <1>2, <3>4, <4>1, OneMore
    <3>8. \A id \in RoundIds : Cardinality(Committed(id)') <= RoundQuota
      <4> SUFFICES ASSUME NEW id \in RoundIds
                   PROVE  Cardinality(Committed(id)') <= RoundQuota
        OBVIOUS
      <4>1. x.id = Rid /\ x.mint = m
        OBVIOUS
      <4> HIDE DEF x
      <4>2. CASE id = Rid
        <5>1. Committed(id)' \subseteq Committed(Rid) \cup {m}
          BY <3>1, <4>1, <4>2, Zenon DEF Committed
        <5> QED
          BY <1>0, <3>3, <3>4, <5>1, OneMore
      <4>3. CASE id # Rid
        <5>1. Committed(id)' = Committed(id)
          BY <3>1, <4>1, <4>3, Zenon DEF Committed
        <5> QED
          BY <5>1 DEF BoundOK, LineageBoundsHold
      <4> QED
        BY <4>2, <4>3
    <3>9. \A y, z \in adm' : y.mint = z.mint => y = z
      BY <3>1 DEF Blocked, BoundOK, LineageBoundsHold
    <3> QED
      BY <3>5, <3>6, <3>7, <3>8, <3>9 DEF BoundOK, LineageBoundsHold
  <2> QED
    BY <2>1, <2>2
<1> QED
  BY <1>1, <1>3, <1>4
  DEF Next, TickStep, vars, TickStart, StopIntake, Pause, Resume, Survey, Recover, Decide,
      Nominate, CallSettled, CallStart, CallComplete, Frame, Close, Crash, Protect

----------------------------------------------------------------------------
(* The invariant and what it implies.                                      *)

(* The invariant holds before the first round. *)
LEMMA RoundsInvInit == Init => RoundsInv
<1> SUFFICES ASSUME Init PROVE RoundsInv
  OBVIOUS
<1>0. Idle \in TickType /\ tick = Idle /\ Idle.pc = "idle"
  BY IdleType DEF Init, Idle
<1>1. TypeOK
  <2>1. rounds \in [RoundIds -> RoundType]
    BY NoPlanType DEF Init, NoRound, Round, RoundType, Outcomes
  <2>2. calls \in [Occurrences -> CallType]
    BY RoundsAssumption DEF Init, Call, CallType
  <2> QED
    BY <1>0, <2>1, <2>2, RoundsAssumption DEF Init, TypeOK, RoundType, CallType, TickType
<1>2. TickOK
  BY <1>0 DEF TickOK, Working
<1>3. \A id \in RoundIds : Committed(id) = {}
  BY DEF Init, Committed
<1>4. PlanOK /\ OutcomeOK
  BY <1>3 DEF Init, PlanOK, OutcomeOK, NoRound, Round, NoPlan
<1>5. CallOK
  BY DEF Init, CallOK
<1>6. BoundOK
  <2>1. Active(clock) = {} /\ adm = {}
    BY DEF Init, Active
  <2> QED
    <3>1. IsFiniteSet({}) /\ Cardinality({}) = 0
      BY FS_EmptySet
    <3>2. /\ Cardinality(adm) = 0 /\ Cardinality(Active(clock)) = 0 /\ IsFiniteSet(adm)
      BY <2>1, <3>1
    <3>3. \A id \in RoundIds : Cardinality(Committed(id)) = 0
      BY <1>3, <3>1
    <3> QED
      BY <2>1, <3>2, <3>3, RoundsAssumption DEF BoundOK, LineageBoundsHold
<1> QED
  BY <1>1, <1>2, <1>4, <1>5, <1>6 DEF RoundsInv, PlanInv

(* Every step keeps the invariant. *)
LEMMA RoundsInvStep == RoundsInv /\ [Next]_vars => RoundsInv'
BY TypeOKStep, TickOKStep, PlanStep, CallStep, BoundStep DEF RoundsInv, PlanInv

(* The invariant of EpisodeRounds: types, the running tick, durable plans, *)
(* outcomes, calls and ceilings.                                           *)
THEOREM RoundsInvariant == Spec => []RoundsInv
BY RoundsInvInit, RoundsInvStep, PTL DEF Spec

(* The types of the round, call and admission tables and of the tick. *)
THEOREM TypeInvariant == Spec => []TypeOK
<1>1. RoundsInv => TypeOK
  BY DEF RoundsInv, PlanInv
<1> QED
  BY <1>1, RoundsInvariant, PTL

(* A cohort is the selection of its plans: when every round of an          *)
(* activation passes the maturity gate (_round_integrity_gaps), a round    *)
(* that lost a tick after its plan has all planned winners or none.        *)
THEOREM MatureSelection == Spec => []MatureIsSelected
<1>1. RoundsInv => MatureIsSelected
  <2> SUFFICES ASSUME RoundsInv, NEW id \in cut, Mature(id[1])
               PROVE  Committed(id) \in {{}, rounds[id].plan.winners}
    BY DEF MatureIsSelected
  <2>1. id = <<id[1], id[2]>> /\ id[2] \in Starts
    BY DEF RoundsInv, PlanInv, TypeOK, RoundIds
  <2>2. rounds[id].state # "STARTED"
        /\ rounds[id].outcome \notin {"PARTIAL_ADMISSION", "REFUSED"}
    BY <2>1 DEF Mature
  <2> QED
    BY <2>2 DEF RoundsInv, PlanInv, OutcomeOK
<1> QED
  BY <1>1, RoundsInvariant, PTL

(* The daily, active and per-round ceilings hold for all activations of    *)
(* the lineage together, and a mint has one episode                        *)
(* (commit_episode_admission).                                             *)
THEOREM LineageBounds == Spec => []LineageBoundsHold
<1>1. RoundsInv => LineageBoundsHold
  BY DEF RoundsInv, BoundOK
<1> QED
  BY <1>1, RoundsInvariant, PTL

(* No source of a round is asked twice (_call, start_call). *)
THEOREM OneRequest == Spec => []OneRequestPerSource
<1>1. RoundsInv => OneRequestPerSource
  BY DEF RoundsInv, CallOK, OneRequestPerSource
<1> QED
  BY <1>1, RoundsInvariant, PTL

============================================================================
