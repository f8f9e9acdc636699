--------------------------- MODULE AccountBudget ---------------------------
(***************************************************************************)
(* The provider-call budget of one managed account that several            *)
(* activations share (observation_account_budget.py, _Accounting in        *)
(* observation_scheduler.py, account_budget_* of the ops store).           *)
(*                                                                         *)
(* Every activation keeps its own day and lifetime counters; the shared    *)
(* gate sums the counters of the account's members.  An episode tick       *)
(* debits a call before it is sent (reserve_call), an observation tick     *)
(* after it returned (note).  An operator prepares a commissioning plan,   *)
(* applies it under the lease and later revises the limits; a lifecycle    *)
(* command inserts activations with no lease at all.                       *)
(*                                                                         *)
(* Modeled credits are counted like calls.  The lease is a lock here (see  *)
(* ScheduleLease for how far it is one): a tick that is fenced ends where  *)
(* it stands, which is Crash.                                              *)
(***************************************************************************)
EXTENDS Integers, Sequences, FiniteSetsExt

CONSTANTS
    Activations,   \* schedule_activations keys
    Episodes,      \* those with an episode schedule: debit before the call
    LocalDay,      \* provider_calls_per_utc_day_max of a schedule
    LocalLife,     \* provider_calls_lifetime_max of a schedule
    Limits,        \* shared policies an operator may ask for
    LastDay,       \* bound on the calendar
    MaxRevisions,  \* bound on policy revisions
    MaxCrashes     \* bound on crashes

Days == 0 .. LastDay

ASSUME BudgetAssumption ==
    /\ Episodes \subseteq Activations
    /\ LocalDay \in Nat /\ LocalLife \in Nat
    /\ Limits \subseteq [day : Nat \ {0}, life : Nat \ {0}]
    /\ LastDay \in Nat /\ MaxRevisions \in Nat /\ MaxCrashes \in Nat

VARIABLES
    \* durable: the ops store
    acts,       \* activations with a row
    members,    \* account_budget_members
    policies,   \* account_budget_policies by revision; <<>>: not commissioned
    dayUsed,    \* accounting_counters.provider_calls
    lifeUsed,   \* lifetime_counters.provider_calls
    \* volatile
    holder,     \* who holds the writer lease
    pc, act,    \* the tick: where it is, for which activation
    mem,        \* its _Accounting: utc_day, day counter, lifetime counter
    inserting,  \* activations whose unleased lease check has passed
    opc, plan,  \* the commissioning operator and the plan prepared
    asks,       \* revision commands typed so far
    \* environment and history
    today, crashes,
    made,       \* calls that reached the provider, by activation
    total,      \* and all of them
    gated,      \* calls let through by the gate, by day
    base        \* those two totals when the account was commissioned

store == <<acts, members, policies, dayUsed, lifeUsed>>
tick == <<holder, pc, act, mem>>
operator == <<opc, plan, asks>>
history == <<made, total, gated, base>>
vars == <<store, tick, inserting, operator, today, crashes, history>>

NoMem == [day |-> 0, dayCalls |-> 0, lifeCalls |-> 0]
NoLimits == [day |-> 1, life |-> 1]
NoPlan == [members |-> {}, limits |-> NoLimits]

Commissioned == policies # <<>>

Init ==
    /\ acts = {} /\ members = {} /\ policies = <<>>
    /\ dayUsed = [a \in Activations |-> [d \in Days |-> 0]]
    /\ lifeUsed = [a \in Activations |-> 0]
    /\ holder = "none" /\ pc = "idle" /\ act = {} /\ mem = NoMem
    /\ inserting = {} /\ opc = "idle" /\ plan = NoPlan /\ asks = {}
    /\ today = 0 /\ crashes = 0
    /\ made = [a \in Activations |-> 0] /\ total = 0
    /\ gated = [d \in Days |-> 0]
    /\ base = [life |-> 0, day |-> [d \in Days |-> 0]]

----------------------------------------------------------------------------
(* A lifecycle command: the lease is checked, then the row is inserted and *)
(* bound to the account in one transaction of its own.                     *)
CheckInsert(a) ==
    /\ a \notin acts \cup inserting /\ holder = "none"
    /\ inserting' = inserting \cup {a}
    /\ UNCHANGED <<store, tick, operator, today, crashes, history>>

(* transition_activation / upsert_activation of a new row, with            *)
(* _bind_new_activation_to_account.                                        *)
InsertActivation(a) ==
    /\ a \in inserting
    /\ inserting' = inserting \ {a}
    /\ acts' = acts \cup {a}
    /\ members' = IF Commissioned THEN members \cup {a} ELSE members
    /\ UNCHANGED <<policies, dayUsed, lifeUsed, tick, operator, today,
                   crashes, history>>

----------------------------------------------------------------------------
(* _Accounting.                                                            *)

(* The counters a tick starts from, read back from the store. *)
Load(a, d) ==
    [day |-> d, dayCalls |-> dayUsed[a][d], lifeCalls |-> lifeUsed[a]]

(* _refresh_day: the counters of the new day, the lifetime in memory. *)
Refreshed(a) ==
    IF mem.day = today THEN mem
    ELSE [day |-> today, dayCalls |-> dayUsed[a][today],
          lifeCalls |-> mem.lifeCalls]

(* account_budget_usage: the sum over the members. *)
SharedDay(d) == MapThenSumSet(LAMBDA a : dayUsed[a][d], members)
SharedLife == MapThenSumSet(LAMBDA a : lifeUsed[a], members)

(* Mutant of SharedGateOpen: an activation without a binding falls back on *)
(* its own caps.                                                           *)
BugSharedGateOpen(a) ==
    \/ a \notin members
    \/ /\ a \in members
       /\ LET limit == policies[Len(policies)] IN
          SharedDay(today) + 1 <= limit.day /\ SharedLife + 1 <= limit.life

(* Mutant of SharedGateOpen: the caller's own counters against the policy. *)
BugSharedGateLocal(a) ==
    \/ ~Commissioned
    \/ /\ a \in members
       /\ LET limit == policies[Len(policies)] IN
          /\ dayUsed[a][today] + 1 <= limit.day
          /\ lifeUsed[a] + 1 <= limit.life

(* _shared_gate: binding, policy and usage are read afresh; a caller that  *)
(* is no member is refused.                                                *)
SharedGateOpen(a) ==
    \/ ~Commissioned
    \/ /\ a \in members
       /\ LET limit == policies[Len(policies)] IN
          SharedDay(today) + 1 <= limit.day /\ SharedLife + 1 <= limit.life

GateOpen(a) ==
    LET m == Refreshed(a) IN
    /\ m.dayCalls + 1 <= LocalDay
    /\ m.lifeCalls + 1 <= LocalLife
    /\ SharedGateOpen(a)

(* note -> save_call_debit: both counters in one commit, from memory. *)
Debit(a) ==
    LET m == Refreshed(a) IN
    /\ mem' = [day |-> m.day, dayCalls |-> m.dayCalls + 1,
               lifeCalls |-> m.lifeCalls + 1]
    /\ dayUsed' = [dayUsed EXCEPT ![a][m.day] = m.dayCalls + 1]
    /\ lifeUsed' = [lifeUsed EXCEPT ![a] = m.lifeCalls + 1]

----------------------------------------------------------------------------
OpenTick(a) ==
    /\ pc = "idle" /\ holder = "none" /\ a \in acts
    /\ holder' = "tick" /\ pc' = "run" /\ act' = {a}
    /\ mem' = Load(a, today)
    /\ UNCHANGED <<store, inserting, operator, today, crashes, history>>

(* Mutant of ReserveCall: the call is only noted when it has returned. *)
BugReserveCall ==
    /\ pc = "run"
    /\ \E a \in act :
          /\ a \in Episodes /\ GateOpen(a)
          /\ mem' = Refreshed(a)
    /\ gated' = [gated EXCEPT ![today] = @ + 1]
    /\ pc' = "reserved"
    /\ UNCHANGED <<store, holder, act, inserting, operator, today, crashes,
                   made, total, base>>

(* reserve_call: gate and debit before the request. *)
ReserveCall ==
    /\ pc = "run"
    /\ \E a \in act : a \in Episodes /\ GateOpen(a) /\ Debit(a)
    /\ gated' = [gated EXCEPT ![today] = @ + 1]
    /\ pc' = "reserved"
    /\ UNCHANGED <<acts, members, policies, holder, act, inserting, operator,
                   today, crashes, made, total, base>>

(* wait_for_provider_slot and start_call of an observation tick. *)
GateCall ==
    /\ pc = "run"
    /\ \E a \in act : a \notin Episodes /\ GateOpen(a) /\ mem' = Refreshed(a)
    /\ gated' = [gated EXCEPT ![today] = @ + 1]
    /\ pc' = "gated"
    /\ UNCHANGED <<store, holder, act, inserting, operator, today, crashes,
                   made, total, base>>

Send ==
    /\ pc \in {"reserved", "gated"}
    /\ \E a \in act : made' = [made EXCEPT ![a] = @ + 1]
    /\ total' = total + 1
    /\ pc' = IF pc = "reserved" THEN "returned" ELSE "debit"
    /\ UNCHANGED <<store, holder, act, mem, inserting, operator, today,
                   crashes, gated, base>>

(* record_provider_completion(reserved=True): only bytes are noted. *)
CompleteReserved ==
    /\ pc = "returned"
    /\ \E a \in act : mem' = Refreshed(a)
    /\ pc' = "run"
    /\ UNCHANGED <<store, holder, act, inserting, operator, today, crashes,
                   history>>

NoteCall ==
    /\ pc = "debit"
    /\ \E a \in act : Debit(a)
    /\ pc' = "run"
    /\ UNCHANGED <<acts, members, policies, holder, act, inserting, operator,
                   today, crashes, history>>

LeaveTick ==
    /\ holder' = "none" /\ pc' = "idle" /\ act' = {} /\ mem' = NoMem
    /\ UNCHANGED <<store, inserting, operator, today, history>>

EndTick == pc = "run" /\ LeaveTick /\ UNCHANGED crashes

(* The tick dies, or is fenced; its lease expires. *)
Crash ==
    /\ pc # "idle" /\ crashes < MaxCrashes
    /\ crashes' = crashes + 1
    /\ LeaveTick

----------------------------------------------------------------------------
(* account_budget_candidate_members: activations and stray counters. *)
CandidateMembers == acts \cup {a \in Activations : lifeUsed[a] > 0}

(* prepare_account_budget, read-only and without the lease. *)
PrepareBudget ==
    /\ opc = "idle" /\ ~Commissioned
    /\ \E l \in Limits : plan' = [members |-> CandidateMembers, limits |-> l]
    /\ opc' = "prepared"
    /\ UNCHANGED <<store, tick, inserting, asks, today, crashes, history>>

(* apply_account_budget: lease, then the plan once more.  A plan that      *)
(* changed in the meantime is stale.                                       *)
ApplyBudget ==
    /\ opc = "prepared" /\ holder = "none" /\ ~Commissioned
    /\ IF CandidateMembers = plan.members
       THEN holder' = "operator" /\ opc' = "apply" /\ UNCHANGED plan
       ELSE opc' = "idle" /\ plan' = NoPlan /\ UNCHANGED holder
    /\ UNCHANGED <<store, pc, act, mem, inserting, asks, today, crashes,
                   history>>

(* commission_account_budget: scope, revision 1 and members, one commit. *)
CommissionBudget ==
    /\ opc = "apply"
    /\ members' = plan.members
    /\ policies' = <<plan.limits>>
    /\ holder' = "none" /\ opc' = "idle" /\ plan' = NoPlan
    /\ base' = [life |-> total, day |-> gated]
    /\ UNCHANGED <<acts, dayUsed, lifeUsed, pc, act, mem, inserting, asks,
                   today, crashes, made, total, gated>>

(* The operator's command dies before the commit; its lease expires. *)
ApplyDies ==
    /\ opc = "apply" /\ crashes < MaxCrashes
    /\ crashes' = crashes + 1
    /\ holder' = "none" /\ opc' = "idle" /\ plan' = NoPlan
    /\ UNCHANGED <<store, pc, act, mem, inserting, asks, today, history>>

(* An operator types a revision of the limits for the revision it saw. *)
AskRevision ==
    /\ Commissioned /\ Len(policies) <= MaxRevisions
    /\ \E l \in Limits :
          asks' = asks \cup {[expected |-> Len(policies), limits |-> l]}
    /\ UNCHANGED <<store, tick, inserting, opc, plan, today, crashes, history>>

(* revise_account_budget_policy: refused unless the revision is the one    *)
(* expected; a command that already took effect is a replay.               *)
ReviseBudget ==
    /\ holder = "none" /\ Commissioned
    /\ \E k \in asks :
          /\ k.expected = Len(policies)
          /\ policies' = Append(policies, k.limits)
    /\ UNCHANGED <<acts, members, dayUsed, lifeUsed, tick, inserting,
                   operator, today, crashes, history>>

Midnight ==
    /\ today < LastDay
    /\ today' = today + 1
    /\ UNCHANGED <<store, tick, inserting, operator, crashes, history>>

Next ==
    \/ \E a \in Activations : CheckInsert(a) \/ InsertActivation(a)
                              \/ OpenTick(a)
    \/ ReserveCall \/ GateCall \/ Send \/ CompleteReserved \/ NoteCall
    \/ EndTick \/ Crash
    \/ PrepareBudget \/ ApplyBudget \/ CommissionBudget \/ ApplyDies
    \/ AskRevision \/ ReviseBudget
    \/ Midnight

Spec == Init /\ [][Next]_vars

----------------------------------------------------------------------------
(* Every variable keeps to its values. *)
TypeOK ==
    /\ acts \subseteq Activations /\ members \subseteq Activations
    /\ policies \in Seq(Limits)
    /\ dayUsed \in [Activations -> [Days -> Nat]]
    /\ lifeUsed \in [Activations -> Nat]
    /\ holder \in {"none", "tick", "operator"}
    /\ pc \in {"idle", "run", "reserved", "gated", "returned", "debit"}
    /\ act \subseteq Activations
    /\ mem \in [day : Days, dayCalls : Nat, lifeCalls : Nat]
    /\ inserting \subseteq Activations
    /\ opc \in {"idle", "prepared", "apply"}
    /\ plan \in [members : SUBSET Activations, limits : Limits \cup {NoLimits}]
    /\ asks \subseteq [expected : Nat, limits : Limits]
    /\ today \in Days /\ crashes \in Nat
    /\ made \in [Activations -> Nat] /\ total \in Nat
    /\ gated \in [Days -> Nat]
    /\ base \in [life : Nat, day : [Days -> Nat]]

Granted(f(_)) == {f(policies[i]) : i \in DOMAIN policies}

(* The account never makes more calls than the highest lifetime limit it   *)
(* was granted, or had made when it was commissioned, up to one per crash: *)
(* whichever activations spend it, whenever they were created, and across  *)
(* revisions that lower and raise the limit.  The same holds of the calls  *)
(* let through on one day, midnight in the middle of a call included, and  *)
(* the lifetime counter stays the sum of the day counters.                 *)
SharedBoundsHold ==
    /\ Commissioned =>
         /\ total <= Max(Granted(LAMBDA l : l.life) \cup {base.life}) + crashes
         /\ \A d \in Days :
               gated[d] <= Max(Granted(LAMBDA l : l.day) \cup {base.day[d]}) + crashes
    /\ \A a \in Activations :
         lifeUsed[a] = MapThenSumSet(LAMBDA d : dayUsed[a][d], Days)

(* An episode call is debited before it is sent, so that no crash loses    *)
(* its debit.                                                              *)
ReservedBeforeSent == \A a \in Episodes : made[a] <= lifeUsed[a]

(* Commissioned, no debt lies outside the sum the shared gate reads: an    *)
(* activation inserted between the plan and its commit has no binding, and *)
(* has spent nothing and spends nothing, instead of spending uncounted.    *)
EveryDebtIsShared ==
    Commissioned => \A a \in Activations \ members : lifeUsed[a] = 0

(* No commissioning, revision, restart or midnight gives debt back. *)
DebtIsNeverReset ==
    [][\A a \in Activations : /\ lifeUsed'[a] >= lifeUsed[a]
                              /\ \A d \in Days : dayUsed'[a][d] >= dayUsed[a][d]]_vars
============================================================================
