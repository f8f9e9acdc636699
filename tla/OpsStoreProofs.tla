--------------------------- MODULE OpsStoreProofs --------------------------
(***************************************************************************)
(* Proofs about the ops store: first the shared budget, for any set of     *)
(* activations, any limits and any number of crashes, revisions and days;  *)
(* then its writer lease, for any number of processes and any lease, wall  *)
(* and heartbeat length the code accepts.                                  *)
(*                                                                         *)
(* The budget's invariant has two parts.  BudgetInv says who may debit and *)
(* that memory agrees with the store; SpentInv, which rests on it, relates *)
(* the calls made to the sums that the shared gate reads.                  *)
(***************************************************************************)
EXTENDS AccountBudget, ScheduleLease, SumTheorems, TLAPS

(* The lease keeps the tick and the commissioning apart. *)
LeaseOK ==
    /\ pc # "idle" <=> holder = "tick"
    /\ opc = "apply" <=> holder = "operator"
    /\ pc # "idle" => \E a \in Activations : act = {a}
    /\ opc # "idle" => plan.limits \in Limits
    /\ opc = "apply" => ~Commissioned
    /\ ~Commissioned => members = {}

(* The counters in memory are those in the store. *)
MemOK ==
    \A a \in act : /\ mem.lifeCalls = lifeUsed[a]
                   /\ mem.dayCalls = dayUsed[a][mem.day]

(* Which kind of activation is where in its call, and its debits. *)
CallOK ==
    /\ pc \in {"reserved", "returned"} => act \subseteq Episodes
    /\ pc \in {"gated", "debit"} => act \cap Episodes = {}
    /\ \A a \in Episodes :
          made[a] + (IF pc = "reserved" /\ a \in act THEN 1 ELSE 0) <= lifeUsed[a]

(* Whoever is past the gate of a commissioned account is a member, and a   *)
(* plan about to be committed names everyone who has spent.                *)
MemberOK ==
    /\ EveryDebtIsShared
    /\ Commissioned /\ pc \in {"gated", "debit"} => act \subseteq members
    /\ opc = "apply" => \A a \in Activations \ plan.members : lifeUsed[a] = 0

BudgetInv == TypeOK /\ LeaseOK /\ MemOK /\ CallOK /\ MemberOK

(* A debit, from the counters in memory, raises the counters in the store  *)
(* by one and touches no other activation.                                 *)
LEMMA DebitAddsOne ==
    ASSUME TypeOK, MemOK, NEW a \in act, act = {a}, Debit(a)
    PROVE  /\ lifeUsed' = [lifeUsed EXCEPT ![a] = @ + 1]
           /\ dayUsed' = [dayUsed EXCEPT ![a][today] = @ + 1]
           /\ mem' \in [day : Days, dayCalls : Nat, lifeCalls : Nat]
           /\ mem'.lifeCalls = lifeUsed'[a]
           /\ mem'.dayCalls = dayUsed'[a][mem'.day]
<1>1. a \in Activations /\ today \in Days /\ mem.day \in Days
  BY DEF TypeOK
<1>2. dayUsed[a] \in [Days -> Nat] /\ lifeUsed[a] \in Nat
  BY <1>1 DEF TypeOK
<1>3. Refreshed(a) = [day |-> today, dayCalls |-> dayUsed[a][today],
                      lifeCalls |-> lifeUsed[a]]
  BY <1>1 DEF Refreshed, MemOK, TypeOK
<1>4. mem' = [day |-> today, dayCalls |-> dayUsed[a][today] + 1,
              lifeCalls |-> lifeUsed[a] + 1]
  BY <1>3 DEF Debit
<1>5. lifeUsed' = [lifeUsed EXCEPT ![a] = @ + 1]
  BY <1>1, <1>2, <1>3 DEF Debit
<1>6. dayUsed' = [dayUsed EXCEPT ![a][today] = @ + 1]
  BY <1>1, <1>2, <1>3 DEF Debit
<1>7. mem' \in [day : Days, dayCalls : Nat, lifeCalls : Nat]
  BY <1>1, <1>2, <1>4
<1>8. mem'.lifeCalls = lifeUsed'[a]
  BY <1>1, <1>4, <1>5 DEF TypeOK
<1>9. mem'.dayCalls = dayUsed'[a][mem'.day]
  BY <1>1, <1>2, <1>4, <1>6 DEF TypeOK
<1> QED
  BY <1>5, <1>6, <1>7, <1>8, <1>9

(* Refreshing the day keeps memory and store in agreement. *)
LEMMA RefreshAgrees ==
    ASSUME TypeOK, MemOK, NEW a \in act
    PROVE  /\ Refreshed(a) \in [day : Days, dayCalls : Nat, lifeCalls : Nat]
           /\ Refreshed(a).lifeCalls = lifeUsed[a]
           /\ Refreshed(a).dayCalls = dayUsed[a][Refreshed(a).day]
<1>1. a \in Activations /\ today \in Days
  BY DEF TypeOK
<1>2. dayUsed[a] \in [Days -> Nat]
  BY <1>1 DEF TypeOK
<1> QED
  BY <1>1, <1>2 DEF Refreshed, MemOK, TypeOK

(* Every step keeps the types: the variables a step assigns, one by one,   *)
(* then the rest.                                                          *)
LEMMA TypeStep ==
    ASSUME TypeOK, LeaseOK, MemOK, [Next]_vars PROVE TypeOK'
<1> USE DEF store, tick, operator, history
<1>1. CASE UNCHANGED vars
  BY <1>1 DEF vars, TypeOK
<1>2. ASSUME NEW a \in Activations, CheckInsert(a) PROVE TypeOK'
  BY <1>2 DEF CheckInsert, TypeOK
<1>3. ASSUME NEW a \in Activations, InsertActivation(a) PROVE TypeOK'
  BY <1>3 DEF InsertActivation, TypeOK
<1>4. ASSUME NEW a \in Activations, OpenTick(a) PROVE TypeOK'
  <2>1. mem' \in [day : Days, dayCalls : Nat, lifeCalls : Nat]
    BY <1>4 DEF OpenTick, Load, TypeOK
  <2> QED
    BY <1>4, <2>1 DEF OpenTick, TypeOK
<1>5. ASSUME NEW a \in act, Debit(a), pc # "idle"
      PROVE  /\ mem' \in [day : Days, dayCalls : Nat, lifeCalls : Nat]
             /\ dayUsed' \in [Activations -> [Days -> Nat]]
             /\ lifeUsed' \in [Activations -> Nat]
  <2>1. act = {a} /\ a \in Activations
    BY <1>5 DEF LeaseOK
  <2>2. /\ lifeUsed' = [lifeUsed EXCEPT ![a] = @ + 1]
        /\ dayUsed' = [dayUsed EXCEPT ![a][today] = @ + 1]
        /\ mem' \in [day : Days, dayCalls : Nat, lifeCalls : Nat]
    BY <1>5, <2>1, DebitAddsOne
  <2>3. lifeUsed' \in [Activations -> Nat]
    <3>1. lifeUsed[a] + 1 \in Nat
      BY <2>1 DEF TypeOK
    <3> QED
      BY <2>1, <2>2, <3>1 DEF TypeOK
  <2>4. [dayUsed[a] EXCEPT ![today] = @ + 1] \in [Days -> Nat]
    BY <2>1 DEF TypeOK
  <2>5. dayUsed' \in [Activations -> [Days -> Nat]]
    BY <2>1, <2>2, <2>4 DEF TypeOK
  <2> QED
    BY <2>2, <2>3, <2>5
<1>6. CASE ReserveCall
  <2>1. gated' \in [Days -> Nat]
    BY <1>6 DEF ReserveCall, TypeOK
  <2> QED
    BY <1>5, <1>6, <2>1 DEF ReserveCall, TypeOK
<1>7. CASE GateCall
  <2>1. gated' \in [Days -> Nat]
    BY <1>7 DEF GateCall, TypeOK
  <2>2. mem' \in [day : Days, dayCalls : Nat, lifeCalls : Nat]
    BY <1>7, RefreshAgrees DEF GateCall
  <2> QED
    BY <1>7, <2>1, <2>2 DEF GateCall, TypeOK
<1>8. CASE Send
  <2>1. PICK a \in act : made' = [made EXCEPT ![a] = @ + 1]
    BY <1>8 DEF Send
  <2>2. made' \in [Activations -> Nat]
    BY <2>1 DEF TypeOK
  <2>3. total' \in Nat /\ pc' \in {"returned", "debit"}
    BY <1>8 DEF Send, TypeOK
  <2> QED
    BY <1>8, <2>2, <2>3 DEF Send, TypeOK
<1>9. CASE CompleteReserved
  <2>1. mem' \in [day : Days, dayCalls : Nat, lifeCalls : Nat]
    BY <1>9, RefreshAgrees DEF CompleteReserved
  <2> QED
    BY <1>9, <2>1 DEF CompleteReserved, TypeOK
<1>10. CASE NoteCall
  BY <1>5, <1>10 DEF NoteCall, TypeOK
<1>11. ASSUME LeaveTick, crashes' \in Nat PROVE TypeOK'
  <2>1. mem' \in [day : Days, dayCalls : Nat, lifeCalls : Nat]
    BY <1>11, BudgetAssumption DEF LeaveTick, NoMem, Days
  <2> QED
    BY <1>11, <2>1 DEF LeaveTick, TypeOK
<1>12. CASE EndTick
  BY <1>11, <1>12 DEF EndTick, TypeOK
<1>13. CASE Crash
  <2>1. crashes' \in Nat
    BY <1>13 DEF Crash, TypeOK
  <2> QED
    BY <1>11, <1>13, <2>1 DEF Crash
<1>14. CASE PrepareBudget
  BY <1>14 DEF PrepareBudget, CandidateMembers, TypeOK
<1>15. CASE ApplyBudget
  BY <1>15, SMTT(20) DEF ApplyBudget, NoPlan, TypeOK
<1>16. CASE CommissionBudget
  <2>1. policies' \in Seq(Limits)
    BY <1>16 DEF CommissionBudget, LeaseOK
  <2>2. base' \in [life : Nat, day : [Days -> Nat]]
    BY <1>16 DEF CommissionBudget, TypeOK
  <2> QED
    BY <1>16, <2>1, <2>2 DEF CommissionBudget, NoPlan, TypeOK
<1>17. CASE ApplyDies
  <2>1. crashes' \in Nat
    BY <1>17 DEF ApplyDies, TypeOK
  <2> QED
    BY <1>17, <2>1 DEF ApplyDies, NoPlan, TypeOK
<1>18. CASE AskRevision
  BY <1>18 DEF AskRevision, TypeOK
<1>19. CASE ReviseBudget
  BY <1>19 DEF ReviseBudget, TypeOK
<1>20. CASE Midnight
  <2>1. today' \in Days
    BY <1>20, BudgetAssumption DEF Midnight, Days, TypeOK
  <2> QED
    BY <1>20, <2>1 DEF Midnight, TypeOK
<1> QED
  BY <1>1, <1>2, <1>3, <1>4, <1>6, <1>7, <1>8, <1>9, <1>10, <1>12, <1>13,
     <1>14, <1>15, <1>16, <1>17, <1>18, <1>19, <1>20 DEF Next

(* BudgetInv is an inductive invariant of the account's budget. *)
THEOREM BudgetInvariant == Spec => []BudgetInv
<1> USE BudgetAssumption
<1>1. Init => BudgetInv
  BY DEF Init, BudgetInv, TypeOK, LeaseOK, MemOK, CallOK, MemberOK,
         EveryDebtIsShared, Commissioned, NoMem, NoPlan, Days
<1>2. BudgetInv /\ [Next]_vars => BudgetInv'
  <2> SUFFICES ASSUME BudgetInv, [Next]_vars PROVE BudgetInv'
    OBVIOUS
  <2> USE DEF BudgetInv, store, tick, operator, history
  <2>0. TypeOK'
    BY TypeStep
  <2>1. CASE UNCHANGED vars
    <3>1. LeaseOK'
      BY <2>1 DEF vars, LeaseOK, Commissioned
    <3>2. MemOK'
      BY <2>1 DEF vars, MemOK
    <3>3. CallOK'
      BY <2>1 DEF vars, CallOK, TypeOK
    <3>4. MemberOK'
      BY <2>1 DEF vars, MemberOK, EveryDebtIsShared, Commissioned, TypeOK
    <3> QED
      BY <2>0, <3>1, <3>2, <3>3, <3>4
  <2>2. ASSUME NEW a \in Activations, CheckInsert(a) PROVE BudgetInv'
    <3>1. LeaseOK'
      BY <2>2 DEF CheckInsert, LeaseOK, Commissioned
    <3>2. MemOK'
      BY <2>2 DEF CheckInsert, MemOK
    <3>3. CallOK'
      BY <2>2 DEF CheckInsert, CallOK, TypeOK
    <3>4. MemberOK'
      BY <2>2
        DEF CheckInsert, MemberOK, EveryDebtIsShared, Commissioned, TypeOK
    <3> QED
      BY <2>0, <3>1, <3>2, <3>3, <3>4
  <2>3. ASSUME NEW a \in Activations, InsertActivation(a) PROVE BudgetInv'
    <3>1. LeaseOK'
      BY <2>3 DEF InsertActivation, LeaseOK, Commissioned
    <3>2. MemOK'
      BY <2>3 DEF InsertActivation, MemOK
    <3>3. CallOK'
      BY <2>3 DEF InsertActivation, CallOK, TypeOK
    <3>4. MemberOK'
      BY <2>3
        DEF InsertActivation, MemberOK, EveryDebtIsShared, Commissioned, TypeOK
    <3> QED
      BY <2>0, <3>1, <3>2, <3>3, <3>4
  <2>4. ASSUME NEW a \in Activations, OpenTick(a) PROVE BudgetInv'
    <3>1. LeaseOK'
      BY <2>4 DEF OpenTick, Load, LeaseOK, Commissioned
    <3>2. MemOK'
      BY <2>4 DEF OpenTick, Load, MemOK
    <3>3. CallOK'
      BY <2>4 DEF OpenTick, Load, CallOK, TypeOK
    <3>4. MemberOK'
      BY <2>4
        DEF OpenTick, Load, MemberOK, EveryDebtIsShared, Commissioned, TypeOK
    <3> QED
      BY <2>0, <3>1, <3>2, <3>3, <3>4
  <2>5. CASE ReserveCall
    <3>1. PICK a \in act : a \in Episodes /\ GateOpen(a) /\ Debit(a)
      BY <2>0, <2>5 DEF ReserveCall
    <3>2. act = {a}
      BY <2>5, <3>1 DEF ReserveCall, LeaseOK
    <3>3. /\ lifeUsed' = [lifeUsed EXCEPT ![a] = @ + 1]
          /\ dayUsed' = [dayUsed EXCEPT ![a][today] = @ + 1]
          /\ mem' \in [day : Days, dayCalls : Nat, lifeCalls : Nat]
          /\ mem'.lifeCalls = lifeUsed'[a]
          /\ mem'.dayCalls = dayUsed'[a][mem'.day]
      BY <3>1, <3>2, DebitAddsOne
    <3>4. Commissioned => a \in members
      BY <3>1 DEF GateOpen, SharedGateOpen
    <3>5. LeaseOK'
      BY <2>5, <3>1, <3>2, <3>3, <3>4 DEF ReserveCall, LeaseOK, Commissioned
    <3>6. MemOK'
      BY <2>5, <3>1, <3>2, <3>3, <3>4 DEF ReserveCall, MemOK
    <3>7. CallOK'
      <4>1. \A b \in Episodes : made[b] \in Nat /\ lifeUsed[b] \in Nat
        BY DEF TypeOK
      <4>2. \A b \in Episodes : made[b] <= lifeUsed[b]
        BY <2>5, <4>1 DEF ReserveCall, CallOK
      <4>3. ASSUME NEW b \in Episodes
            PROVE  made[b] + (IF b \in act THEN 1 ELSE 0) <= lifeUsed'[b]
        <5>1. CASE b = a
          <6>1. lifeUsed'[b] = lifeUsed[b] + 1
            BY <3>3, <5>1 DEF TypeOK
          <6> QED
            BY <3>2, <4>1, <4>2, <5>1, <6>1
        <5>2. CASE b # a
          <6>1. lifeUsed'[b] = lifeUsed[b]
            BY <3>3, <5>2 DEF TypeOK
          <6> QED
            BY <3>2, <4>1, <4>2, <5>2, <6>1
        <5> QED
          BY <5>1, <5>2
      <4> QED
        BY <2>5, <3>1, <3>2, <4>3 DEF ReserveCall, CallOK
    <3>8. MemberOK'
      <4>1. opc # "apply"
        BY <2>5 DEF ReserveCall, LeaseOK
      <4>2. \A b \in Activations : b # a => lifeUsed'[b] = lifeUsed[b]
        BY <3>3 DEF TypeOK
      <4> QED
        BY <2>5, <3>4, <4>1, <4>2
        DEF ReserveCall, MemberOK, EveryDebtIsShared, Commissioned
    <3> QED
      BY <2>0, <3>5, <3>6, <3>7, <3>8
  <2>6. CASE GateCall
    <3>1. PICK a \in act : a \notin Episodes /\ GateOpen(a) /\ mem' = Refreshed(a)
      BY <2>0, <2>6 DEF GateCall
    <3>2. act = {a}
      BY <2>6, <3>1 DEF GateCall, LeaseOK
    <3>3. /\ mem' \in [day : Days, dayCalls : Nat, lifeCalls : Nat]
          /\ mem'.lifeCalls = lifeUsed[a]
          /\ mem'.dayCalls = dayUsed[a][mem'.day]
      BY <3>1, RefreshAgrees
    <3>4. Commissioned => a \in members
      BY <3>1 DEF GateOpen, SharedGateOpen
    <3>5. LeaseOK'
      BY <2>6, <3>1, <3>2, <3>3, <3>4 DEF GateCall, LeaseOK, Commissioned
    <3>6. MemOK'
      BY <2>6, <3>1, <3>2, <3>3, <3>4 DEF GateCall, MemOK
    <3>7. CallOK'
      BY <2>6, <3>1, <3>2, <3>3, <3>4 DEF GateCall, CallOK, TypeOK
    <3>8. MemberOK'
      BY <2>6, <3>1, <3>2, <3>3, <3>4
        DEF GateCall, MemberOK, EveryDebtIsShared, Commissioned, TypeOK
    <3> QED
      BY <2>0, <3>5, <3>6, <3>7, <3>8
  <2>7. CASE Send
    <3>1. LeaseOK'
      BY <2>7 DEF Send, LeaseOK, Commissioned
    <3>2. MemOK'
      BY <2>7 DEF Send, MemOK
    <3>3. CallOK'
      <4>1. PICK a \in act : made' = [made EXCEPT ![a] = @ + 1]
        BY <2>7 DEF Send
      <4>2. act = {a} /\ a \in Activations
        BY <2>7, <4>1 DEF Send, LeaseOK
      <4>3. \A b \in Episodes : made[b] \in Nat /\ lifeUsed[b] \in Nat
        BY DEF TypeOK
      <4>4. ASSUME NEW b \in Episodes PROVE made'[b] <= lifeUsed[b]
        <5>1. CASE b = a
          BY <2>7, <4>1, <4>2, <4>3, <5>1 DEF Send, CallOK, TypeOK
        <5>2. CASE b # a
          BY <4>1, <4>2, <4>3, <5>2 DEF CallOK, TypeOK
        <5> QED
          BY <5>1, <5>2
      <4>5. \A b \in Episodes : made'[b] \in Nat
        BY <2>0 DEF TypeOK
      <4>6. /\ pc' = IF pc = "reserved" THEN "returned" ELSE "debit"
            /\ pc \in {"reserved", "gated"}
            /\ UNCHANGED <<act, lifeUsed>>
        BY <2>7 DEF Send
      <4>7. \A b \in Episodes : (made[b] + (IF pc = "reserved" /\ b \in act
                                           THEN 1 ELSE 0) <= lifeUsed[b])'
        BY <4>4, <4>5, <4>6
      <4> QED
        BY <4>6, <4>7 DEF CallOK
    <3>4. MemberOK'
      BY <2>7 DEF Send, MemberOK, EveryDebtIsShared, Commissioned, TypeOK
    <3> QED
      BY <2>0, <3>1, <3>2, <3>3, <3>4
  <2>8. CASE CompleteReserved
    <3>1. PICK a \in act : mem' = Refreshed(a)
      BY <2>0, <2>8 DEF CompleteReserved
    <3>2. act = {a}
      BY <2>8, <3>1 DEF CompleteReserved, LeaseOK
    <3>3. /\ mem' \in [day : Days, dayCalls : Nat, lifeCalls : Nat]
          /\ mem'.lifeCalls = lifeUsed[a]
          /\ mem'.dayCalls = dayUsed[a][mem'.day]
      BY <3>1, RefreshAgrees
    <3>4. LeaseOK'
      BY <2>8, <3>1, <3>2, <3>3 DEF CompleteReserved, LeaseOK, Commissioned
    <3>5. MemOK'
      BY <2>8, <3>1, <3>2, <3>3 DEF CompleteReserved, MemOK
    <3>6. CallOK'
      BY <2>8, <3>1, <3>2, <3>3 DEF CompleteReserved, CallOK, TypeOK
    <3>7. MemberOK'
      BY <2>8, <3>1, <3>2, <3>3
        DEF CompleteReserved, MemberOK, EveryDebtIsShared, Commissioned, TypeOK
    <3> QED
      BY <2>0, <3>4, <3>5, <3>6, <3>7
  <2>9. CASE NoteCall
    <3>1. PICK a \in act : Debit(a)
      BY <2>0, <2>9 DEF NoteCall
    <3>2. act = {a}
      BY <2>9, <3>1 DEF NoteCall, LeaseOK
    <3>3. /\ lifeUsed' = [lifeUsed EXCEPT ![a] = @ + 1]
          /\ dayUsed' = [dayUsed EXCEPT ![a][today] = @ + 1]
          /\ mem' \in [day : Days, dayCalls : Nat, lifeCalls : Nat]
          /\ mem'.lifeCalls = lifeUsed'[a]
          /\ mem'.dayCalls = dayUsed'[a][mem'.day]
      BY <3>1, <3>2, DebitAddsOne
    <3>4. LeaseOK'
      BY <2>9, <3>1, <3>2, <3>3 DEF NoteCall, LeaseOK, Commissioned
    <3>5. MemOK'
      BY <2>9, <3>1, <3>2, <3>3 DEF NoteCall, MemOK
    <3>6. CallOK'
      BY <2>9, <3>1, <3>2, <3>3 DEF NoteCall, CallOK, TypeOK
    <3>7. MemberOK'
      <4>1. opc # "apply" /\ (Commissioned => a \in members)
        BY <2>9, <3>2 DEF NoteCall, LeaseOK, MemberOK
      <4>2. \A b \in Activations : b # a => lifeUsed'[b] = lifeUsed[b]
        BY <3>3 DEF TypeOK
      <4> QED
        BY <2>9, <4>1, <4>2
          DEF NoteCall, MemberOK, EveryDebtIsShared, Commissioned
    <3> QED
      BY <2>0, <3>4, <3>5, <3>6, <3>7
  <2>10. CASE EndTick
    <3>1. LeaseOK'
      BY <2>10 DEF EndTick, LeaveTick, NoMem, LeaseOK, Commissioned
    <3>2. MemOK'
      BY <2>10 DEF EndTick, LeaveTick, NoMem, MemOK
    <3>3. CallOK'
      BY <2>10 DEF EndTick, LeaveTick, NoMem, CallOK, TypeOK
    <3>4. MemberOK'
      BY <2>10
        DEF EndTick, LeaveTick, NoMem, MemberOK, EveryDebtIsShared,
            Commissioned, TypeOK
    <3> QED
      BY <2>0, <3>1, <3>2, <3>3, <3>4
  <2>11. CASE Crash
    <3>1. LeaseOK'
      BY <2>11 DEF Crash, LeaveTick, NoMem, LeaseOK, Commissioned
    <3>2. MemOK'
      BY <2>11 DEF Crash, LeaveTick, NoMem, MemOK
    <3>3. CallOK'
      BY <2>11 DEF Crash, LeaveTick, NoMem, CallOK, TypeOK
    <3>4. MemberOK'
      BY <2>11
        DEF Crash, LeaveTick, NoMem, MemberOK, EveryDebtIsShared, Commissioned,
            TypeOK
    <3> QED
      BY <2>0, <3>1, <3>2, <3>3, <3>4
  <2>12. CASE PrepareBudget
    <3>1. LeaseOK'
      BY <2>12 DEF PrepareBudget, LeaseOK, Commissioned
    <3>2. MemOK'
      BY <2>12 DEF PrepareBudget, MemOK
    <3>3. CallOK'
      BY <2>12 DEF PrepareBudget, CallOK, TypeOK
    <3>4. MemberOK'
      BY <2>12
        DEF PrepareBudget, MemberOK, EveryDebtIsShared, Commissioned, TypeOK
    <3> QED
      BY <2>0, <3>1, <3>2, <3>3, <3>4
  <2>13. CASE ApplyBudget
    <3>1. LeaseOK'
      BY <2>13 DEF ApplyBudget, CandidateMembers, NoPlan, LeaseOK, Commissioned
    <3>2. MemOK'
      BY <2>13 DEF ApplyBudget, CandidateMembers, NoPlan, MemOK
    <3>3. CallOK'
      BY <2>13 DEF ApplyBudget, CandidateMembers, NoPlan, CallOK, TypeOK
    <3>4. MemberOK'
      BY <2>13
        DEF ApplyBudget, CandidateMembers, NoPlan, MemberOK, EveryDebtIsShared,
            Commissioned, TypeOK
    <3> QED
      BY <2>0, <3>1, <3>2, <3>3, <3>4
  <2>14. CASE CommissionBudget
    <3>1. LeaseOK'
      BY <2>14 DEF CommissionBudget, NoPlan, LeaseOK, Commissioned
    <3>2. MemOK'
      BY <2>14 DEF CommissionBudget, NoPlan, MemOK
    <3>3. CallOK'
      BY <2>14 DEF CommissionBudget, NoPlan, CallOK, TypeOK
    <3>4. MemberOK'
      BY <2>14
        DEF CommissionBudget, NoPlan, LeaseOK, MemberOK, EveryDebtIsShared,
            Commissioned, TypeOK
    <3> QED
      BY <2>0, <3>1, <3>2, <3>3, <3>4
  <2>15. CASE ApplyDies
    <3>1. LeaseOK'
      BY <2>15 DEF ApplyDies, NoPlan, LeaseOK, Commissioned
    <3>2. MemOK'
      BY <2>15 DEF ApplyDies, NoPlan, MemOK
    <3>3. CallOK'
      BY <2>15 DEF ApplyDies, NoPlan, CallOK, TypeOK
    <3>4. MemberOK'
      BY <2>15
        DEF ApplyDies, NoPlan, MemberOK, EveryDebtIsShared, Commissioned,
            TypeOK
    <3> QED
      BY <2>0, <3>1, <3>2, <3>3, <3>4
  <2>16. CASE AskRevision
    <3>1. LeaseOK'
      BY <2>16 DEF AskRevision, LeaseOK, Commissioned
    <3>2. MemOK'
      BY <2>16 DEF AskRevision, MemOK
    <3>3. CallOK'
      BY <2>16 DEF AskRevision, CallOK, TypeOK
    <3>4. MemberOK'
      BY <2>16
        DEF AskRevision, MemberOK, EveryDebtIsShared, Commissioned, TypeOK
    <3> QED
      BY <2>0, <3>1, <3>2, <3>3, <3>4
  <2>17. CASE ReviseBudget
    <3>1. LeaseOK'
      BY <2>17 DEF ReviseBudget, LeaseOK, Commissioned
    <3>2. MemOK'
      BY <2>17 DEF ReviseBudget, MemOK
    <3>3. CallOK'
      BY <2>17 DEF ReviseBudget, CallOK, TypeOK
    <3>4. MemberOK'
      BY <2>17
        DEF ReviseBudget, MemberOK, EveryDebtIsShared, Commissioned, TypeOK
    <3> QED
      BY <2>0, <3>1, <3>2, <3>3, <3>4
  <2>18. CASE Midnight
    <3>1. LeaseOK'
      BY <2>18 DEF Midnight, LeaseOK, Commissioned
    <3>2. MemOK'
      BY <2>18 DEF Midnight, MemOK
    <3>3. CallOK'
      BY <2>18 DEF Midnight, CallOK, TypeOK
    <3>4. MemberOK'
      BY <2>18 DEF Midnight, MemberOK, EveryDebtIsShared, Commissioned, TypeOK
    <3> QED
      BY <2>0, <3>1, <3>2, <3>3, <3>4
  <2> QED
    BY <2>1, <2>2, <2>3, <2>4, <2>5, <2>6, <2>7, <2>8, <2>9, <2>10, <2>11,
       <2>12, <2>13, <2>14, <2>15, <2>16, <2>17, <2>18 DEF Next
<1> QED
  BY <1>1, <1>2, PTL DEF Spec

(* The counters, the tick and the operator's commands keep their types. *)
THEOREM BudgetTypeCorrect == Spec => []TypeOK
<1>1. BudgetInv => TypeOK
  BY DEF BudgetInv
<1> QED
  BY <1>1, BudgetInvariant, PTL

(* An episode call is in the lifetime counter before it is sent. *)
THEOREM BudgetReservedBeforeSent == Spec => []ReservedBeforeSent
<1>1. BudgetInv => ReservedBeforeSent
  BY BudgetAssumption DEF BudgetInv, CallOK, ReservedBeforeSent, TypeOK
<1> QED
  BY <1>1, BudgetInvariant, PTL

(* Once the account is commissioned, whoever is not in the sum of the      *)
(* shared gate has spent nothing.                                          *)
THEOREM BudgetEveryDebtIsShared == Spec => []EveryDebtIsShared
<1>1. BudgetInv => EveryDebtIsShared
  BY DEF BudgetInv, MemberOK
<1> QED
  BY <1>1, BudgetInvariant, PTL

(* No step lowers a counter: a tick writes from memory, and memory agrees  *)
(* with the store across restarts and midnights.                           *)
THEOREM BudgetDebtIsNeverReset == Spec => DebtIsNeverReset
<1> DEFINE Grows == \A a \in Activations :
               /\ lifeUsed'[a] >= lifeUsed[a]
               /\ \A d \in Days : dayUsed'[a][d] >= dayUsed[a][d]
<1>1. BudgetInv /\ [Next]_vars => [Grows]_vars
  <2> SUFFICES ASSUME BudgetInv, [Next]_vars PROVE Grows \/ UNCHANGED vars
    OBVIOUS
  <2>1. CASE UNCHANGED <<dayUsed, lifeUsed>>
    BY <2>1 DEF BudgetInv, TypeOK
  <2>2. ASSUME NEW a \in act, Debit(a), pc # "idle" PROVE Grows
    <3>1. act = {a} /\ a \in Activations
      BY <2>2 DEF BudgetInv, LeaseOK
    <3>2. /\ lifeUsed' = [lifeUsed EXCEPT ![a] = @ + 1]
          /\ dayUsed' = [dayUsed EXCEPT ![a][today] = @ + 1]
      BY <2>2, <3>1, DebitAddsOne DEF BudgetInv
    <3>3. ASSUME NEW b \in Activations PROVE lifeUsed'[b] >= lifeUsed[b]
      <4>1. lifeUsed[b] \in Nat
        BY DEF BudgetInv, TypeOK
      <4>2. lifeUsed'[b] = IF b = a THEN lifeUsed[b] + 1 ELSE lifeUsed[b]
        BY <3>1, <3>2 DEF BudgetInv, TypeOK
      <4> QED
        BY <4>1, <4>2
    <3>4. \A b \in Activations : dayUsed[b] \in [Days -> Nat]
      BY DEF BudgetInv, TypeOK
    <3>5. ASSUME NEW b \in Activations, NEW d \in Days
          PROVE  dayUsed'[b][d] >= dayUsed[b][d]
      <4>1. CASE b = a
        BY <3>1, <3>2, <3>4, <4>1, SMTT(20) DEF BudgetInv, TypeOK
      <4>2. CASE b # a
        BY <3>1, <3>2, <3>4, <4>2 DEF BudgetInv, TypeOK
      <4> QED
        BY <4>1, <4>2
    <3> QED
      BY <3>3, <3>5
  <2>3. CASE ReserveCall
    BY <2>2, <2>3 DEF ReserveCall
  <2>4. CASE NoteCall
    BY <2>2, <2>4 DEF NoteCall
  <2> QED
    BY <2>1, <2>3, <2>4 DEF Next, vars, store, CheckInsert, InsertActivation,
       OpenTick, GateCall, Send, CompleteReserved, EndTick, Crash, LeaveTick,
       PrepareBudget, ApplyBudget, CommissionBudget, ApplyDies, AskRevision,
       ReviseBudget, Midnight
<1> QED
  BY <1>1, BudgetInvariant, PTL DEF Spec, DebtIsNeverReset

----------------------------------------------------------------------------
(* The debits of one day, by activation, and what all activations have     *)
(* spent in their lives and on a day.                                      *)
On(d) == [a \in Activations |-> dayUsed[a][d]]
LifeSpent == Sum(lifeUsed, acts)
DaySpent(d) == Sum(On(d), acts)

(* Only activations with a row are members, run a tick, are planned for or *)
(* have spent anything.                                                    *)
ActsOK ==
    /\ IsFiniteSet(acts)
    /\ members \subseteq acts /\ act \subseteq acts
    /\ opc # "idle" => plan.members \subseteq acts
    /\ \A a \in Activations \ acts : lifeUsed[a] = 0

(* The lifetime counter of an activation is the sum of its day counters. *)
SumsOK ==
    \A a \in Activations :
        /\ lifeUsed[a] = Sum(dayUsed[a], Days)
        /\ \A d \in Days : dayUsed[a][d] <= lifeUsed[a]

(* The calls made are the debits, but for the one under way and those      *)
(* whose debit a crash lost; so are the calls let through today.           *)
CountOK ==
    /\ total + (IF pc = "reserved" THEN 1 ELSE 0)
          <= LifeSpent + (IF pc = "debit" THEN 1 ELSE 0) + crashes
    /\ gated[today]
          <= DaySpent(today) + (IF pc \in {"gated", "debit"} THEN 1 ELSE 0) + crashes
    /\ \A d \in Days : d > today => gated[d] = 0

LifeCaps == {policies[i].life : i \in DOMAIN policies} \cup {base.life}
DayCaps(d) == {policies[i].day : i \in DOMAIN policies} \cup {base.day[d]}

(* Some limit granted, or what had been spent before there was one, covers *)
(* the calls made and the call let through.                                *)
BoundOK ==
    Commissioned =>
      /\ \E n \in LifeCaps :
            total + (IF pc \in {"reserved", "gated"} THEN 1 ELSE 0) <= n + crashes
      /\ \A d \in Days : \E n \in DayCaps(d) : gated[d] <= n + crashes

SpentInv == ActsOK /\ SumsOK /\ CountOK /\ BoundOK

(* The counters are integers on finite sets, so the sums are integers. *)
LEMMA SpentType ==
    ASSUME TypeOK, ActsOK
    PROVE  /\ Integral(lifeUsed, acts) /\ LifeSpent \in Int
           /\ \A d \in Days : Integral(On(d), acts) /\ DaySpent(d) \in Int
           /\ IsFiniteSet(Days)
           /\ \A a \in Activations : Integral(dayUsed[a], Days)
<1>1. Integral(lifeUsed, acts)
  BY DEF TypeOK, Integral
<1>2. \A d \in Days : Integral(On(d), acts)
  BY DEF TypeOK, Integral, On
<1>3. acts \in SUBSET acts /\ IsFiniteSet(acts)
  BY DEF ActsOK
<1>4. LifeSpent \in Int
  BY <1>1, <1>3, SumType DEF LifeSpent
<1>5. \A d \in Days : DaySpent(d) \in Int
  BY <1>2, <1>3, SumType DEF DaySpent
<1>6. IsFiniteSet(Days)
  BY BudgetAssumption, FS_Interval DEF Days
<1>7. \A a \in Activations : Integral(dayUsed[a], Days)
  BY DEF TypeOK, Integral
<1> QED
  BY <1>1, <1>2, <1>4, <1>5, <1>6, <1>7

(* The shared gate reads what all activations have spent. *)
LEMMA SharedIsSpent ==
    ASSUME BudgetInv, ActsOK, SumsOK, Commissioned, NEW d \in Days
    PROVE  SharedLife = LifeSpent /\ SharedDay(d) = DaySpent(d)
<1>1. TypeOK /\ \A a \in Activations \ members : lifeUsed[a] = 0
  BY DEF BudgetInv, MemberOK, EveryDebtIsShared
<1>2. \A a \in Activations \ members : dayUsed[a][d] = 0
  BY <1>1 DEF TypeOK, SumsOK
<1>3. acts \subseteq Activations /\ members \in SUBSET acts /\ members \subseteq Activations
  BY <1>1 DEF TypeOK, ActsOK
<1>4. /\ IsFiniteSet(acts) /\ Integral(lifeUsed, acts) /\ Integral(On(d), acts)
  BY <1>1, SpentType DEF ActsOK
<1>5. Sum(lifeUsed, members) = LifeSpent
  BY <1>1, <1>3, <1>4, SumOfSpenders DEF LifeSpent
<1>6. Sum(On(d), members) = DaySpent(d)
  <2>1. \A a \in acts \ members : On(d)[a] = 0
    BY <1>2, <1>3 DEF On
  <2> QED
    BY <1>3, <1>4, <2>1, SumOfSpenders DEF DaySpent
<1>7. SharedLife = Sum(lifeUsed, members)
  BY DEF SharedLife, Sum
<1>8. SharedDay(d) = Sum(On(d), members)
  BY <1>3, ZenonT(40) DEF SharedDay, Sum, On, MapThenSumSet, MapThenFoldSet
<1> QED
  BY <1>5, <1>6, <1>7, <1>8

(* A debit adds one to what was spent in all and today. *)
LEMMA DebitSpends ==
    ASSUME TypeOK, TypeOK', MemOK, ActsOK, SumsOK, NEW a \in act, act = {a}, Debit(a),
           acts' = acts, today' = today
    PROVE  /\ LifeSpent' = LifeSpent + 1
           /\ DaySpent(today)' = DaySpent(today) + 1
           /\ SumsOK'
           /\ \A b \in Activations : b # a => lifeUsed'[b] = lifeUsed[b]
<1>1. /\ lifeUsed' = [lifeUsed EXCEPT ![a] = @ + 1]
      /\ dayUsed' = [dayUsed EXCEPT ![a][today] = @ + 1]
  BY DebitAddsOne
<1>2. a \in acts /\ a \in Activations /\ today \in Days /\ acts \subseteq Activations
  BY DEF ActsOK, TypeOK
<1>3. lifeUsed'[a] = lifeUsed[a] + 1 /\ \A b \in Activations : b # a => lifeUsed'[b] = lifeUsed[b]
  BY <1>1, <1>2 DEF TypeOK
<1>4. /\ dayUsed'[a][today] = dayUsed[a][today] + 1
      /\ \A d \in Days : d # today => dayUsed'[a][d] = dayUsed[a][d]
      /\ \A b \in Activations : b # a => dayUsed'[b] = dayUsed[b]
  BY <1>1, <1>2 DEF TypeOK
<1>5. /\ IsFiniteSet(acts) /\ Integral(lifeUsed, acts) /\ Integral(On(today), acts)
      /\ IsFiniteSet(Days) /\ \A b \in Activations : Integral(dayUsed[b], Days)
  BY <1>2, SpentType DEF ActsOK
<1>6. LifeSpent' = LifeSpent + 1
  <2>1. \A b \in acts : b # a => lifeUsed'[b] = lifeUsed[b]
    BY <1>2, <1>3
  <2> QED
    BY <1>2, <1>3, <1>5, <2>1, SumRaise DEF LifeSpent
<1>7. DaySpent(today)' = DaySpent(today) + 1
  <2> DEFINE e == [b \in Activations |-> dayUsed'[b][today]]
  <2>1. e[a] = On(today)[a] + 1 /\ \A b \in acts : b # a => e[b] = On(today)[b]
    BY <1>2, <1>4 DEF On
  <2>2. DaySpent(today)' = Sum(e, acts)
    BY DEF DaySpent, On
  <2> HIDE DEF e
  <2>3. Sum(e, acts) = Sum(On(today), acts) + 1
    BY <1>2, <1>5, <2>1, SumRaise
  <2> QED
    BY <2>2, <2>3 DEF DaySpent
<1>8. ASSUME NEW b \in Activations
      PROVE  /\ lifeUsed'[b] = Sum(dayUsed'[b], Days)
             /\ \A d \in Days : dayUsed'[b][d] <= lifeUsed'[b]
  <2>1. CASE b = a
    <3>1. Sum(dayUsed'[a], Days) = Sum(dayUsed[a], Days) + 1
      BY <1>2, <1>4, <1>5, SumRaise
    <3>2. lifeUsed[a] \in Nat /\ \A d \in Days : dayUsed[a][d] \in Nat
      BY <1>2 DEF TypeOK
    <3>3. \A d \in Days : dayUsed'[a][d] <= lifeUsed'[a]
      BY <1>2, <1>3, <1>4, <3>2 DEF SumsOK
    <3> QED
      BY <1>2, <1>3, <2>1, <3>1, <3>3 DEF SumsOK
  <2>2. CASE b # a
    BY <1>3, <1>4, <2>2 DEF SumsOK
  <2> QED
    BY <2>1, <2>2
<1> QED
  BY <1>3, <1>6, <1>7, <1>8 DEF SumsOK

(* A new row has spent nothing. *)
LEMMA InsertSpends ==
    ASSUME TypeOK, ActsOK, SumsOK, NEW a \in Activations, acts' = acts \cup {a},
           lifeUsed' = lifeUsed, dayUsed' = dayUsed, today' = today
    PROVE  LifeSpent' = LifeSpent /\ DaySpent(today)' = DaySpent(today)
<1> DEFINE S == acts \cup {a}
<1>1. IsFiniteSet(S) /\ acts \in SUBSET S /\ today \in Days
  BY FS_AddElement DEF ActsOK, TypeOK
<1>2. Integral(lifeUsed, S) /\ Integral(On(today), S)
  BY <1>1 DEF TypeOK, Integral, On
<1>3. \A b \in S \ acts : lifeUsed[b] = 0
  BY DEF ActsOK
<1>4. \A b \in S \ acts : On(today)[b] = 0
  BY <1>1, <1>3 DEF On, SumsOK, TypeOK
<1>5. /\ Sum(lifeUsed, acts) = Sum(lifeUsed, S)
      /\ Sum(On(today), acts) = Sum(On(today), S)
  BY <1>1, <1>2, <1>3, <1>4, SumOfSpenders
<1>6. On(today)' = On(today)
  BY DEF On
<1> QED
  BY <1>5, <1>6 DEF LifeSpent, DaySpent

(* A plan is prepared from the rows, and an inserted row is one. *)
LEMMA ActsStep ==
    ASSUME BudgetInv, ActsOK, SumsOK, [Next]_vars PROVE ActsOK' /\ SumsOK'
<1> USE DEF store, tick, operator, history
<1>1. TypeOK /\ LeaseOK /\ MemOK /\ TypeOK'
  BY TypeStep DEF BudgetInv
<1>2. CASE UNCHANGED vars
  BY <1>2 DEF vars, ActsOK, SumsOK
<1>3. ASSUME NEW a \in Activations, CheckInsert(a) PROVE ActsOK' /\ SumsOK'
  BY <1>3 DEF CheckInsert, ActsOK, SumsOK
<1>4. ASSUME NEW a \in Activations, InsertActivation(a) PROVE ActsOK' /\ SumsOK'
  <2>1. IsFiniteSet(acts')
    BY <1>4, FS_AddElement DEF InsertActivation, ActsOK
  <2> QED
    BY <1>4, <2>1 DEF InsertActivation, ActsOK, SumsOK
<1>5. ASSUME NEW a \in Activations, OpenTick(a) PROVE ActsOK' /\ SumsOK'
  BY <1>5 DEF OpenTick, ActsOK, SumsOK
<1>6. ASSUME NEW a \in act, Debit(a), pc # "idle",
             UNCHANGED <<acts, members, act, opc, plan, today>>
      PROVE  ActsOK' /\ SumsOK'
  <2>1. act = {a}
    BY <1>1, <1>6 DEF LeaseOK
  <2>2. SumsOK' /\ \A b \in Activations : b # a => lifeUsed'[b] = lifeUsed[b]
    BY <1>1, <1>6, <2>1, DebitSpends
  <2>3. a \in acts
    BY <2>1 DEF ActsOK
  <2>4. \A b \in Activations \ acts : lifeUsed'[b] = 0
    BY <2>2, <2>3 DEF ActsOK
  <2>5. ActsOK'
    BY <1>6, <2>4 DEF ActsOK
  <2> QED
    BY <2>2, <2>5
<1>7. CASE ReserveCall
  <2>1. PICK a \in act : Debit(a)
    BY <1>7 DEF ReserveCall
  <2> QED
    BY <1>6, <1>7, <2>1 DEF ReserveCall
<1>8. CASE GateCall
  BY <1>8 DEF GateCall, ActsOK, SumsOK
<1>9. CASE Send
  BY <1>9 DEF Send, ActsOK, SumsOK
<1>10. CASE CompleteReserved
  BY <1>10 DEF CompleteReserved, ActsOK, SumsOK
<1>11. CASE NoteCall
  <2>1. PICK a \in act : Debit(a)
    BY <1>11 DEF NoteCall
  <2> QED
    BY <1>6, <1>11, <2>1 DEF NoteCall
<1>12. CASE EndTick
  BY <1>12 DEF EndTick, LeaveTick, ActsOK, SumsOK
<1>13. CASE Crash
  BY <1>13 DEF Crash, LeaveTick, ActsOK, SumsOK
<1>14. CASE PrepareBudget
  <2>1. CandidateMembers \subseteq acts
    BY <1>1 DEF CandidateMembers, ActsOK, TypeOK
  <2> QED
    BY <1>14, <2>1 DEF PrepareBudget, ActsOK, SumsOK
<1>15. CASE ApplyBudget
  BY <1>15 DEF ApplyBudget, NoPlan, ActsOK, SumsOK
<1>16. CASE CommissionBudget
  BY <1>16 DEF CommissionBudget, NoPlan, ActsOK, SumsOK
<1>17. CASE ApplyDies
  BY <1>17 DEF ApplyDies, NoPlan, ActsOK, SumsOK
<1>18. CASE AskRevision
  BY <1>18 DEF AskRevision, ActsOK, SumsOK
<1>19. CASE ReviseBudget
  BY <1>19 DEF ReviseBudget, ActsOK, SumsOK
<1>20. CASE Midnight
  BY <1>20 DEF Midnight, ActsOK, SumsOK
<1> QED
  BY <1>2, <1>3, <1>4, <1>5, <1>7, <1>8, <1>9, <1>10, <1>11, <1>12, <1>13,
     <1>14, <1>15, <1>16, <1>17, <1>18, <1>19, <1>20 DEF Next

(* What was spent does not change when the counters and the rows do not. *)
LEMMA SpentKeeps ==
    ASSUME UNCHANGED <<acts, dayUsed, lifeUsed, today>>
    PROVE  LifeSpent' = LifeSpent /\ DaySpent(today)' = DaySpent(today)
BY DEF LifeSpent, DaySpent, On

(* A call is counted when it is made and debited once, before or after. *)
LEMMA CountStep ==
    ASSUME BudgetInv, ActsOK, SumsOK, CountOK, [Next]_vars PROVE CountOK'
<1> USE DEF store, tick, operator, history
<1>1. TypeOK /\ LeaseOK /\ MemOK /\ TypeOK'
  BY TypeStep DEF BudgetInv
<1>2. /\ LifeSpent \in Int /\ DaySpent(today) \in Int
      /\ total \in Nat /\ crashes \in Nat /\ gated \in [Days -> Nat] /\ today \in Days
  BY <1>1, SpentType DEF TypeOK
<1>3. ASSUME LifeSpent' = LifeSpent, DaySpent(today)' = DaySpent(today),
             UNCHANGED <<pc, total, gated, crashes, today>>
      PROVE  CountOK'
  BY <1>3 DEF CountOK
<1>4. CASE UNCHANGED vars
  BY <1>3, <1>4, SpentKeeps DEF vars
<1>5. ASSUME NEW a \in Activations, CheckInsert(a) PROVE CountOK'
  BY <1>3, <1>5, SpentKeeps DEF CheckInsert
<1>6. ASSUME NEW a \in Activations, InsertActivation(a) PROVE CountOK'
  BY <1>1, <1>3, <1>6, InsertSpends DEF InsertActivation
<1>7. ASSUME NEW a \in Activations, OpenTick(a) PROVE CountOK'
  <2>1. LifeSpent' = LifeSpent /\ DaySpent(today)' = DaySpent(today)
    BY <1>7, SpentKeeps DEF OpenTick
  <2> QED
    BY <1>2, <1>7, <2>1 DEF OpenTick, CountOK
<1>8. ASSUME NEW a \in act, Debit(a), pc # "idle", acts' = acts, today' = today
      PROVE  LifeSpent' = LifeSpent + 1 /\ DaySpent(today)' = DaySpent(today) + 1
  <2>1. act = {a}
    BY <1>1, <1>8 DEF LeaseOK
  <2> QED
    BY <1>1, <1>8, <2>1, DebitSpends
<1>9. CASE ReserveCall
  <2>1. PICK a \in act : Debit(a)
    BY <1>9 DEF ReserveCall
  <2>2. LifeSpent' = LifeSpent + 1 /\ DaySpent(today)' = DaySpent(today) + 1
    BY <1>8, <1>9, <2>1 DEF ReserveCall
  <2>3. gated'[today] = gated[today] + 1 /\ \A d \in Days : d > today => gated'[d] = gated[d]
    BY <1>2, <1>9, BudgetAssumption DEF ReserveCall, Days
  <2> QED
    BY <1>2, <1>9, <2>2, <2>3 DEF ReserveCall, CountOK
<1>10. CASE GateCall
  <2>1. LifeSpent' = LifeSpent /\ DaySpent(today)' = DaySpent(today)
    BY <1>10, SpentKeeps DEF GateCall
  <2>2. gated'[today] = gated[today] + 1 /\ \A d \in Days : d > today => gated'[d] = gated[d]
    BY <1>2, <1>10, BudgetAssumption DEF GateCall, Days
  <2> QED
    BY <1>2, <1>10, <2>1, <2>2 DEF GateCall, CountOK
<1>11. CASE Send
  <2>1. LifeSpent' = LifeSpent /\ DaySpent(today)' = DaySpent(today)
    BY <1>11, SpentKeeps DEF Send
  <2> QED
    BY <1>2, <1>11, <2>1 DEF Send, CountOK
<1>12. CASE CompleteReserved
  <2>1. LifeSpent' = LifeSpent /\ DaySpent(today)' = DaySpent(today)
    BY <1>12, SpentKeeps DEF CompleteReserved
  <2> QED
    BY <1>2, <1>12, <2>1 DEF CompleteReserved, CountOK
<1>13. CASE NoteCall
  <2>1. PICK a \in act : Debit(a)
    BY <1>13 DEF NoteCall
  <2>2. LifeSpent' = LifeSpent + 1 /\ DaySpent(today)' = DaySpent(today) + 1
    BY <1>8, <1>13, <2>1 DEF NoteCall
  <2> QED
    BY <1>2, <1>13, <2>2 DEF NoteCall, CountOK
<1>14. CASE EndTick
  <2>1. LifeSpent' = LifeSpent /\ DaySpent(today)' = DaySpent(today)
    BY <1>14, SpentKeeps DEF EndTick, LeaveTick
  <2> QED
    BY <1>2, <1>14, <2>1 DEF EndTick, LeaveTick, CountOK
<1>15. CASE Crash
  <2>1. LifeSpent' = LifeSpent /\ DaySpent(today)' = DaySpent(today)
    BY <1>15, SpentKeeps DEF Crash, LeaveTick
  <2>2. /\ pc' = "idle" /\ crashes' = crashes + 1
        /\ UNCHANGED <<total, gated, today>>
    BY <1>15 DEF Crash, LeaveTick
  <2>3. gated[today] \in Nat
    BY <1>2
  <2> QED
    BY <1>2, <2>1, <2>2, <2>3 DEF CountOK
<1>16. CASE PrepareBudget
  BY <1>3, <1>16, SpentKeeps DEF PrepareBudget
<1>17. CASE ApplyBudget
  BY <1>3, <1>17, SpentKeeps DEF ApplyBudget
<1>18. CASE CommissionBudget
  BY <1>3, <1>18, SpentKeeps DEF CommissionBudget
<1>19. CASE ApplyDies
  <2>1. LifeSpent' = LifeSpent /\ DaySpent(today)' = DaySpent(today)
    BY <1>19, SpentKeeps DEF ApplyDies
  <2>2. gated[today] \in Nat
    BY <1>2
  <2> QED
    BY <1>2, <1>19, <2>1, <2>2 DEF ApplyDies, CountOK
<1>20. CASE AskRevision
  BY <1>3, <1>20, SpentKeeps DEF AskRevision
<1>21. CASE ReviseBudget
  BY <1>3, <1>21, SpentKeeps DEF ReviseBudget
<1>22. CASE Midnight
  <2>1. LifeSpent' = LifeSpent
    BY <1>22 DEF Midnight, LifeSpent
  <2>2. today + 1 \in Days /\ today' = today + 1 /\ today' > today
    BY <1>1, <1>2, <1>22 DEF Midnight, TypeOK, Days
  <2>3. DaySpent(today)' \in Nat
    <3>1. DaySpent(today)' = DaySpent(today + 1)
      BY <1>22 DEF Midnight, DaySpent, On
    <3>2. \A b \in acts : On(today + 1)[b] \in Nat
      BY <1>1, <2>2 DEF TypeOK, On
    <3>3. IsFiniteSet(acts)
      BY DEF ActsOK
    <3> QED
      BY <3>1, <3>2, <3>3, SumOfNaturals DEF DaySpent
  <2>4. gated[today + 1] = 0 /\ \A d \in Days : d > today + 1 => gated[d] = 0
    BY <1>2, <2>2 DEF CountOK, Days
  <2>5. UNCHANGED <<pc, total, gated, crashes>>
    BY <1>22 DEF Midnight
  <2>6. gated'[today'] = 0 /\ \A d \in Days : d > today' => gated'[d] = 0
    BY <2>2, <2>4, <2>5
  <2> QED
    BY <1>2, <2>1, <2>3, <2>5, <2>6 DEF CountOK
<1> QED
  BY <1>4, <1>5, <1>6, <1>7, <1>9, <1>10, <1>11, <1>12, <1>13, <1>14, <1>15,
     <1>16, <1>17, <1>18, <1>19, <1>20, <1>21, <1>22 DEF Next

(* The limits granted and what was spent before are natural numbers, and a *)
(* set of them only grows.                                                 *)
LEMMA CapsType ==
    ASSUME TypeOK
    PROVE  /\ LifeCaps \in SUBSET Nat /\ IsFiniteSet(LifeCaps) /\ LifeCaps # {}
           /\ \A d \in Days : /\ DayCaps(d) \in SUBSET Nat
                              /\ IsFiniteSet(DayCaps(d)) /\ DayCaps(d) # {}
<1>1. /\ Len(policies) \in Nat /\ DOMAIN policies = 1 .. Len(policies)
      /\ \A i \in DOMAIN policies : policies[i] \in Limits
  BY DEF TypeOK
<1>2. \A i \in DOMAIN policies : policies[i].life \in Nat /\ policies[i].day \in Nat
  BY <1>1, BudgetAssumption
<1>3. base.life \in Nat /\ \A d \in Days : base.day[d] \in Nat
  BY DEF TypeOK
<1>4. IsFiniteSet(DOMAIN policies)
  BY <1>1, FS_Interval
<1> DEFINE f == [i \in DOMAIN policies |-> policies[i].life]
           g == [i \in DOMAIN policies |-> policies[i].day]
           F == {f[i] : i \in DOMAIN policies}
           G == {g[i] : i \in DOMAIN policies}
<1>5. IsFiniteSet(F) /\ IsFiniteSet(G)
  <2>1. f = [i \in DOMAIN policies |-> f[i]] /\ g = [i \in DOMAIN policies |-> g[i]]
    OBVIOUS
  <2> HIDE DEF f, g
  <2> QED
    BY <1>4, <2>1, FiniteImage
<1>6. LifeCaps = F \cup {base.life} /\ \A d \in Days : DayCaps(d) = G \cup {base.day[d]}
  BY DEF LifeCaps, DayCaps
<1>7. F \subseteq Nat /\ G \subseteq Nat
  BY <1>2
<1> HIDE DEF F, G
<1> QED
  BY <1>3, <1>5, <1>6, <1>7, FS_AddElement, ZenonT(40)

(* The gate of a commissioned account is closed at the limits in force.    *)
LEMMA GateBounds ==
    ASSUME BudgetInv, ActsOK, SumsOK, CountOK, Commissioned, pc = "run",
           NEW a \in Activations, SharedGateOpen(a)
    PROVE  /\ \E n \in LifeCaps : total + 1 <= n + crashes
           /\ \E n \in DayCaps(today) : gated[today] + 1 <= n + crashes
<1>1. TypeOK /\ today \in Days
  BY DEF BudgetInv, TypeOK
<1> DEFINE k == Len(policies)
<1>2. k \in DOMAIN policies /\ policies[k] \in Limits
  BY <1>1 DEF Commissioned, TypeOK
<1>3. SharedLife + 1 <= policies[k].life /\ SharedDay(today) + 1 <= policies[k].day
  BY DEF SharedGateOpen
<1>4. SharedLife = LifeSpent /\ SharedDay(today) = DaySpent(today)
  BY <1>1, SharedIsSpent
<1>5. /\ LifeSpent \in Int /\ DaySpent(today) \in Int /\ total \in Nat
      /\ crashes \in Nat /\ gated[today] \in Nat
      /\ policies[k].life \in Nat /\ policies[k].day \in Nat
  BY <1>1, <1>2, SpentType, BudgetAssumption DEF TypeOK
<1>6. policies[k].life \in LifeCaps /\ policies[k].day \in DayCaps(today)
  BY <1>2 DEF LifeCaps, DayCaps
<1>7. total <= LifeSpent + crashes /\ gated[today] <= DaySpent(today) + crashes
  BY <1>5 DEF CountOK
<1> HIDE DEF k
<1>8. total + 1 <= policies[k].life + crashes /\ gated[today] + 1 <= policies[k].day + crashes
  BY <1>3, <1>4, <1>5, <1>7
<1> QED
  BY <1>6, <1>8

(* Every call made was let through under a limit then in force. *)
LEMMA BoundStep ==
    ASSUME BudgetInv, ActsOK, SumsOK, CountOK, BoundOK, [Next]_vars PROVE
    BoundOK'
<1> USE DEF store, tick, operator, history
<1>1. TypeOK /\ LeaseOK /\ TypeOK'
  BY TypeStep DEF BudgetInv
<1>2. /\ LifeCaps \in SUBSET Nat /\ \A d \in Days : DayCaps(d) \in SUBSET Nat
      /\ total \in Nat /\ crashes \in Nat /\ gated \in [Days -> Nat] /\ today \in Days
  BY <1>1, CapsType DEF TypeOK
<1>3. ASSUME UNCHANGED <<policies, base>>
      PROVE  /\ LifeCaps' = LifeCaps /\ \A d \in Days : DayCaps(d)' = DayCaps(d)
             /\ Commissioned' = Commissioned
  BY <1>3 DEF LifeCaps, DayCaps, Commissioned
<1>4. ASSUME UNCHANGED <<policies, base, total, gated>>, crashes' \in {crashes, crashes + 1},
             pc' \in {"reserved", "gated"} => pc' = pc
      PROVE  BoundOK'
  <2> SUFFICES ASSUME Commissioned' PROVE
        /\ \E n \in LifeCaps : total + (IF pc' \in {"reserved", "gated"} THEN 1 ELSE 0)
                                  <= n + crashes'
        /\ \A d \in Days : \E n \in DayCaps(d) : gated[d] <= n + crashes'
    BY <1>3, <1>4 DEF BoundOK
  <2>1. PICK n \in LifeCaps : total + (IF pc \in {"reserved", "gated"} THEN 1 ELSE 0) <= n + crashes
    BY <1>3, <1>4 DEF BoundOK
  <2>2. total + (IF pc' \in {"reserved", "gated"} THEN 1 ELSE 0) <= n + crashes'
    <3>1. /\ n \in Nat /\ total \in Nat /\ crashes \in Nat
          /\ crashes' \in Nat /\ crashes <= crashes'
      BY <1>2, <1>4
    <3>2. \A k \in Nat, c \in Nat : k <= n + crashes /\ crashes <= c => k <= n + c
      <4> SUFFICES ASSUME NEW k \in Nat, NEW c \in Nat, k <= n + crashes, crashes <= c
                   PROVE  k <= n + c
        OBVIOUS
      <4> QED
        BY <3>1
    <3>3. crashes' \in Nat /\ crashes <= crashes'
      BY <3>1
    <3>4. CASE pc' \in {"reserved", "gated"}
      <4>1. total + 1 <= n + crashes /\ total + 1 \in Nat
        BY <1>4, <2>1, <3>1, <3>4
      <4>2. total + 1 <= n + crashes'
        BY <3>2, <3>3, <4>1, Zenon
      <4> QED
        BY <3>4, <4>2
    <3>5. CASE pc' \notin {"reserved", "gated"}
      <4>1. total + 0 <= n + crashes /\ total + 0 \in Nat
        BY <2>1, <3>1
      <4>2. total + 0 <= n + crashes'
        BY <3>2, <3>3, <4>1, Zenon
      <4> QED
        BY <3>5, <4>2
    <3> QED
      BY <3>4, <3>5
  <2>3. ASSUME NEW d \in Days PROVE \E m \in DayCaps(d) : gated[d] <= m + crashes'
    <3>1. PICK m \in DayCaps(d) : gated[d] <= m + crashes
      BY <1>3, <1>4 DEF BoundOK
    <3>2. gated[d] <= m + crashes'
      BY <1>2, <1>4, <3>1
    <3> QED
      BY <3>2
  <2> QED
    BY <2>2, <2>3
<1>5. ASSUME NEW a \in act, pc = "run", SharedGateOpen(a),
             UNCHANGED <<policies, base, total, crashes>>,
             gated' = [gated EXCEPT ![today] = @ + 1]
      PROVE  BoundOK'
  <2> SUFFICES ASSUME Commissioned PROVE
        /\ \E n \in LifeCaps : total + 1 <= n + crashes
        /\ \A d \in Days : \E n \in DayCaps(d) : gated'[d] <= n + crashes
    <3>1. ASSUME NEW n \in LifeCaps, total + 1 <= n + crashes
          PROVE  total + (IF pc' \in {"reserved", "gated"} THEN 1 ELSE 0) <= n + crashes
      BY <1>2, <3>1
    <3> QED
      BY <1>3, <1>5, <3>1 DEF BoundOK
  <2>1. a \in Activations
    BY <1>1 DEF TypeOK
  <2>2. /\ \E n \in LifeCaps : total + 1 <= n + crashes
        /\ \E n \in DayCaps(today) : gated[today] + 1 <= n + crashes
    BY <1>5, <2>1, GateBounds
  <2>3. ASSUME NEW d \in Days PROVE \E n \in DayCaps(d) : gated'[d] <= n + crashes
    <3>1. CASE d = today
      BY <1>2, <1>5, <2>2, <3>1
    <3>2. CASE d # today
      BY <1>2, <1>5, <3>2 DEF BoundOK
    <3> QED
      BY <3>1, <3>2
  <2> QED
    BY <2>2, <2>3
<1>6. CASE UNCHANGED vars
  BY <1>4, <1>6 DEF vars
<1>7. ASSUME NEW a \in Activations, CheckInsert(a) \/ InsertActivation(a) \/ OpenTick(a)
      PROVE  BoundOK'
  BY <1>4, <1>7 DEF CheckInsert, InsertActivation, OpenTick
<1>8. CASE ReserveCall
  <2>1. PICK a \in act : SharedGateOpen(a)
    BY <1>8 DEF ReserveCall, GateOpen
  <2> QED
    BY <1>5, <1>8, <2>1 DEF ReserveCall
<1>9. CASE GateCall
  <2>1. PICK a \in act : SharedGateOpen(a)
    BY <1>9 DEF GateCall, GateOpen
  <2> QED
    BY <1>5, <1>9, <2>1 DEF GateCall
<1>10. CASE Send
  <2> SUFFICES ASSUME Commissioned PROVE
        /\ \E n \in LifeCaps : total + 1 <= n + crashes
        /\ \A d \in Days : \E n \in DayCaps(d) : gated[d] <= n + crashes
    <3>1. /\ pc' \in {"returned", "debit"} /\ total' = total + 1
          /\ UNCHANGED <<policies, base, gated, crashes>>
      BY <1>10 DEF Send
    <3>2. \A n \in LifeCaps : total + 1 + 0 <= n + crashes <=> total + 1 <= n + crashes
      BY <1>2
    <3> QED
      BY <1>3, <3>1, <3>2 DEF BoundOK
  <2> QED
    BY <1>10 DEF Send, BoundOK
<1>11. CASE CompleteReserved
  BY <1>4, <1>11 DEF CompleteReserved
<1>12. CASE NoteCall
  BY <1>4, <1>12 DEF NoteCall
<1>13. CASE EndTick
  BY <1>4, <1>13 DEF EndTick, LeaveTick
<1>14. CASE Crash
  BY <1>4, <1>14 DEF Crash, LeaveTick
<1>15. CASE PrepareBudget \/ ApplyBudget
  BY <1>4, <1>15 DEF PrepareBudget, ApplyBudget
<1>16. CASE CommissionBudget
  <2>1. pc = "idle" /\ pc' = "idle"
    BY <1>1, <1>16 DEF CommissionBudget, LeaseOK
  <2>2. base'.life = total /\ base'.day = gated /\ UNCHANGED <<total, gated, crashes>>
    BY <1>16 DEF CommissionBudget
  <2>3. total \in LifeCaps' /\ \A d \in Days : gated[d] \in DayCaps(d)'
    BY <2>2 DEF LifeCaps, DayCaps
  <2>4. total + 0 <= total + crashes /\ \A d \in Days : gated[d] <= gated[d] + crashes
    BY <1>2
  <2> QED
    BY <2>1, <2>2, <2>3, <2>4 DEF BoundOK
<1>17. CASE ApplyDies
  BY <1>4, <1>17 DEF ApplyDies
<1>18. CASE AskRevision
  BY <1>4, <1>18 DEF AskRevision
<1>19. CASE ReviseBudget
  <2>1. PICK k \in asks : policies' = Append(policies, k.limits)
    BY <1>19 DEF ReviseBudget
  <2>2. /\ DOMAIN policies \subseteq DOMAIN policies'
        /\ \A i \in DOMAIN policies : policies'[i] = policies[i]
    <3>1. policies \in Seq(Limits) /\ k.limits \in Limits
      BY <1>1 DEF TypeOK
    <3> QED
      BY <2>1, <3>1
  <2>3. UNCHANGED <<base, total, gated, crashes, pc>> /\ Commissioned
    BY <1>19 DEF ReviseBudget
  <2>4. LifeCaps \subseteq LifeCaps' /\ \A d \in Days : DayCaps(d) \subseteq DayCaps(d)'
    BY <2>2, <2>3 DEF LifeCaps, DayCaps
  <2> QED
    BY <2>3, <2>4 DEF BoundOK
<1>20. CASE Midnight
  BY <1>4, <1>20 DEF Midnight
<1> QED
  BY <1>6, <1>7, <1>8, <1>9, <1>10, <1>11, <1>12, <1>13, <1>14, <1>15, <1>16,
     <1>17, <1>18, <1>19, <1>20 DEF Next

(* SpentInv is an invariant, inductive on the strength of BudgetInv. *)
THEOREM BudgetSpentInvariant == Spec => []SpentInv
<1>1. Init => SpentInv
  <2> SUFFICES ASSUME Init PROVE SpentInv
    OBVIOUS
  <2>1. acts = {} /\ IsFiniteSet({})
    BY FS_EmptySet DEF Init
  <2>2. ActsOK
    BY <2>1 DEF Init, ActsOK
  <2>3. IsFiniteSet(Days) /\ today = 0 /\ 0 \in Days
    BY BudgetAssumption, FS_Interval DEF Days, Init
  <2>4. SumsOK
    <3> SUFFICES ASSUME NEW a \in Activations PROVE Sum(dayUsed[a], Days) = 0
      BY DEF Init, SumsOK
    <3>1. \A d \in Days : dayUsed[a][d] = 0
      BY DEF Init
    <3>2. Sum(dayUsed[a], {}) = Sum(dayUsed[a], Days)
      BY <2>3, <3>1, SumOfSpenders DEF Integral
    <3> QED
      BY <2>1, <3>2, SumUnfold
  <2>5. LifeSpent = 0 /\ DaySpent(today) = 0
    BY <2>1, SumUnfold DEF LifeSpent, DaySpent
  <2>6. CountOK
    BY <2>3, <2>5 DEF Init, CountOK
  <2>7. BoundOK
    BY DEF Init, BoundOK, Commissioned
  <2> QED
    BY <2>2, <2>4, <2>6, <2>7 DEF SpentInv
<1>2. BudgetInv /\ SpentInv /\ [Next]_vars => SpentInv'
  BY ActsStep, CountStep, BoundStep DEF SpentInv
<1> QED
  BY <1>1, <1>2, BudgetInvariant, PTL DEF Spec

(* The account's calls stay within the highest limit it was granted, or    *)
(* had used up before, but for one call per crash; so do those of a day;   *)
(* and the lifetime counter is the sum of the day counters.                *)
THEOREM BudgetSharedBounds == Spec => []SharedBoundsHold
<1>1. BudgetInv /\ SpentInv => SharedBoundsHold
  <2> SUFFICES ASSUME BudgetInv, SpentInv PROVE SharedBoundsHold
    OBVIOUS
  <2>1. TypeOK /\ total \in Nat /\ crashes \in Nat /\ \A d \in Days : gated[d] \in Nat
    BY DEF BudgetInv, TypeOK
  <2>2. ASSUME NEW S \in SUBSET Nat, IsFiniteSet(S), S # {}, NEW n \in S, NEW m \in Nat,
               m <= n + crashes
        PROVE  m <= Max(S) + crashes
    <3>1. S \in SUBSET Int
      BY <2>2
    <3>2. n <= Max(S) /\ Max(S) \in S
      BY <2>2, <3>1, MaxIsGreatest
    <3>3. n \in Nat /\ Max(S) \in Nat
      BY <2>2, <3>2
    <3> QED
      BY <2>1, <2>2, <3>2, <3>3
  <2>3. ASSUME Commissioned
        PROVE  /\ total <= Max(LifeCaps) + crashes
               /\ \A d \in Days : gated[d] <= Max(DayCaps(d)) + crashes
    <3>1. PICK n \in LifeCaps :
                total + (IF pc \in {"reserved", "gated"} THEN 1 ELSE 0) <= n + crashes
      BY <2>3 DEF SpentInv, BoundOK
    <3>2. total <= n + crashes
      BY <2>1, <3>1, CapsType
    <3>3. \A d \in Days : \E k \in DayCaps(d) : gated[d] <= k + crashes
      BY <2>3 DEF SpentInv, BoundOK
    <3> QED
      BY <2>1, <2>2, <3>2, <3>3, CapsType
  <2>4. /\ Granted(LAMBDA l : l.life) \cup {base.life} = LifeCaps
        /\ \A d \in Days : Granted(LAMBDA l : l.day) \cup {base.day[d]} = DayCaps(d)
    BY DEF Granted, LifeCaps, DayCaps
  <2>5. \A a \in Activations : lifeUsed[a] = MapThenSumSet(LAMBDA d : dayUsed[a][d], Days)
    BY DEF SpentInv, SumsOK, Sum
  <2> QED
    BY <2>3, <2>4, <2>5 DEF SharedBoundsHold
<1> QED
  BY <1>1, BudgetInvariant, BudgetSpentInvariant, PTL

----------------------------------------------------------------------------
(* The writer lease of the store, which the budget has as a lock. *)
(* Tokens are minted once, and a process between acquire and release has   *)
(* one, except for the write of a store object that never acquired.        *)
TokensAreFresh ==
    /\ lease.token <= minted
    /\ \A w \in Writers : tok[w] <= minted
    /\ \A v, w \in Writers : tok[v] = tok[w] /\ tok[v] # 0 => v = w
    /\ \A w \in Writers : leasePc[w] \in Ticking =>
          tok[w] # 0 \/ (leasePc[w] = "checked" /\ then[w] = "alone")

(* While the row is its own, it does not expire before start + Lease: no   *)
(* pending renewal was checked before the start of its tick.               *)
ExpiryCoversTick ==
    \A w \in Writers :
        /\ start[w] <= clock
        /\ leasePc[w] = "read" => start[w] <= at[w]
        /\ Leased(w) /\ lease.token = tok[w] => start[w] + Lease <= lease.expires

LostOnlyByExpiry ==
    \A w \in Writers : Leased(w) /\ lease.token # tok[w] => start[w] + Lease <= clock

(* A stale write is the last one: no check has passed since. *)
StaleMeansLost ==
    \A w \in Writers :
        /\ stale[w] <= 1
        /\ stale[w] = 1 /\ leasePc[w] \in Ticking => lease.token # tok[w]
        /\ stale[w] = 1 => leasePc[w] \notin {"read", "checked"}

(* The next heartbeat of a covered provider call comes before the expiry. *)
BeatsBeforeExpiry ==
    \A w \in Writers : InCall(w) =>
        /\ beatAt[w] <= clock /\ clock <= beatAt[w] + Beat
        /\ leasePc[w] = "read" => beatAt[w] < at[w] /\ at[w] <= clock
        /\ callAt[w] + Beat < start[w] + Lease =>
              lease.token = tok[w] /\ beatAt[w] + Beat < lease.expires

LeaseInv == /\ LeaseTypeOK /\ TokensAreFresh /\ ExpiryCoversTick /\ LostOnlyByExpiry
            /\ StaleMeansLost /\ AuditKeepsTheLease /\ BeatsBeforeExpiry

(* LeaseInv is an inductive invariant of the lease protocol. *)
THEOREM LeaseInvariant == LeaseSpec => []LeaseInv
<1> USE LeaseAssumption
<1>1. LeaseInit => LeaseInv
  BY DEF LeaseInit, LeaseInv, LeaseTypeOK, TokensAreFresh, ExpiryCoversTick,
         LostOnlyByExpiry, StaleMeansLost, AuditKeepsTheLease,
         BeatsBeforeExpiry, Leased, InCall, Ticking
<1>2. LeaseInv /\ [LeaseNext]_leaseVars => LeaseInv'
  <2> SUFFICES ASSUME LeaseInv, [LeaseNext]_leaseVars PROVE LeaseInv'
    OBVIOUS
  <2> USE DEF LeaseInv, LeaseTypeOK, TokensAreFresh, ExpiryCoversTick,
              LostOnlyByExpiry, StaleMeansLost, AuditKeepsTheLease,
              BeatsBeforeExpiry, Leased, InCall, Ticking, Goto, row, leaseTick,
              pending, waiting
  <2>1. CASE Advance
    BY <2>1 DEF Advance
  <2>2. CASE UNCHANGED leaseVars
    BY <2>2 DEF leaseVars
  <2>3. ASSUME NEW w \in Writers, BeginTick(w) PROVE LeaseInv'
    BY <2>3 DEF BeginTick
  <2>4. ASSUME NEW w \in Writers, AcquireLease(w) PROVE LeaseInv'
    \* The previous holder lost the row by expiry only: its row covered
    \* start + Lease, and the acquirer's instant is not in the future.
    <3>1. \A v \in Writers : Leased(v) /\ v # w => start[v] + Lease <= clock
      BY <2>4 DEF AcquireLease, Held
    <3>2. LeaseTypeOK' /\ TokensAreFresh'
      BY <2>4 DEF AcquireLease
    <3>3. ExpiryCoversTick' /\ LostOnlyByExpiry'
      BY <2>4, <3>1 DEF AcquireLease
    <3>4. StaleMeansLost' /\ AuditKeepsTheLease'
      BY <2>4 DEF AcquireLease
    \* A covered provider call still holds an unexpired row, so ~Held fails.
    <3>5. BeatsBeforeExpiry'
      BY <2>4 DEF AcquireLease, Held
    <3> QED
      BY <3>2, <3>3, <3>4, <3>5
  <2>5. ASSUME NEW w \in Writers, WriterBusy(w) PROVE LeaseInv'
    BY <2>5 DEF WriterBusy
  <2>6. ASSUME NEW w \in Writers, CheckAtTickStart(w) PROVE LeaseInv'
    BY <2>6 DEF CheckAtTickStart, CheckLease, Fenced
  <2>7. ASSUME NEW w \in Writers, CheckStartCall(w) PROVE LeaseInv'
    BY <2>7 DEF CheckStartCall, CheckLease, Fenced
  <2>8. ASSUME NEW w \in Writers, CheckAtCompletion(w) PROVE LeaseInv'
    BY <2>8 DEF CheckAtCompletion, CheckLease, Fenced
  <2>9. ASSUME NEW w \in Writers, CheckAudit(w) PROVE LeaseInv'
    BY <2>9 DEF CheckAudit, CheckLease, Fenced
  <2>10. ASSUME NEW w \in Writers, CheckHeartbeat(w) PROVE LeaseInv'
    BY <2>10 DEF CheckHeartbeat, CheckLease, Fenced
  <2>11. ASSUME NEW w \in Writers, RenewLease(w) PROVE LeaseInv'
    BY <2>11 DEF RenewLease, Renewed
  <2>12. ASSUME NEW w \in Writers, CheckUnleased(w) PROVE LeaseInv'
    BY <2>12 DEF CheckUnleased
  <2>13. ASSUME NEW w \in Writers, Mutate(w) PROVE LeaseInv'
    \* Every later check of a process that wrote without the lease fails.
    <3>1. StaleMeansLost'
      BY <2>13 DEF Mutate
    \* The wait begins covered: the row is unexpired until start + Lease.
    <3>2. BeatsBeforeExpiry'
      BY <2>13 DEF Mutate
    <3>3. LeaseTypeOK' /\ TokensAreFresh' /\ AuditKeepsTheLease'
      BY <2>13 DEF Mutate
    <3>4. ExpiryCoversTick' /\ LostOnlyByExpiry'
      BY <2>13 DEF Mutate
    <3> QED
      BY <3>1, <3>2, <3>3, <3>4
  <2>14. ASSUME NEW w \in Writers, MutateInTransaction(w) PROVE LeaseInv'
    BY <2>14 DEF MutateInTransaction, Fenced, Renewed
  <2>15. ASSUME NEW w \in Writers, EndCall(w) PROVE LeaseInv'
    BY <2>15 DEF EndCall
  <2>16. ASSUME NEW w \in Writers, BeginAudit(w) PROVE LeaseInv'
    BY <2>16 DEF BeginAudit, Fenced
  <2>17. ASSUME NEW w \in Writers, EndAudit(w) PROVE LeaseInv'
    BY <2>17 DEF EndAudit
  <2>18. ASSUME NEW w \in Writers, ReleaseLease(w) PROVE LeaseInv'
    BY <2>18 DEF ReleaseLease
  <2>19. ASSUME NEW w \in Writers, LeaseCrash(w) PROVE LeaseInv'
    BY <2>19 DEF LeaseCrash
  <2> QED
    BY <2>1, <2>2, <2>3, <2>4, <2>5, <2>6, <2>7, <2>8, <2>9, <2>10, <2>11,
       <2>12, <2>13, <2>14, <2>15, <2>16, <2>17, <2>18, <2>19
      DEF LeaseNext, WriterStep
<1> QED
  BY <1>1, <1>2, PTL DEF LeaseSpec

(* The lease row, the tokens and every writer's state keep their types. *)
THEOREM LeaseTypeCorrect == LeaseSpec => []LeaseTypeOK
<1>1. LeaseInv => LeaseTypeOK
  BY DEF LeaseInv
<1> QED
  BY <1>1, LeaseInvariant, PTL

(* A ticking process keeps the lease for LEASE_SECONDS from the instant    *)
(* its tick was started with, whoever else tries to acquire it.            *)
THEOREM LeaseHeldForOneLease == LeaseSpec => []HeldForOneLease
<1>1. LeaseInv => HeldForOneLease
  BY LeaseAssumption
  DEF LeaseInv, LeaseTypeOK, LostOnlyByExpiry, HeldForOneLease, Leased
<1> QED
  BY <1>1, LeaseInvariant, PTL

(* _require_write_lease fences a process that lost its lease after at most *)
(* one more committed write.                                               *)
THEOREM LeaseAtMostOneStaleWrite == LeaseSpec => []AtMostOneStaleWrite
<1>1. LeaseInv => AtMostOneStaleWrite
  BY DEF LeaseInv, StaleMeansLost, AtMostOneStaleWrite
<1> QED
  BY <1>1, LeaseInvariant, PTL

(* fenced_maintenance keeps its lease as long as its transaction is open.  *)
THEOREM LeaseAuditKeepsTheLease == LeaseSpec => []AuditKeepsTheLease
<1>1. LeaseInv => AuditKeepsTheLease
  BY DEF LeaseInv
<1> QED
  BY <1>1, LeaseInvariant, PTL

(* A provider wait that begins a heartbeat slice before its tick is        *)
(* LEASE_SECONDS old holds an unexpired lease to its end.                  *)
THEOREM LeaseHeartbeatKeepsTheLease == LeaseSpec => []HeartbeatKeepsTheLease
<1>1. LeaseInv => HeartbeatKeepsTheLease
  BY LeaseAssumption
  DEF LeaseInv, LeaseTypeOK, BeatsBeforeExpiry, HeartbeatKeepsTheLease, InCall
<1> QED
  BY <1>1, LeaseInvariant, PTL
==============================================================================
