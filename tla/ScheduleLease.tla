--------------------------- MODULE ScheduleLease ---------------------------
(***************************************************************************)
(* The writer lease of the ops store (observation_schedule_store.py): one  *)
(* scheduler_leases row with a token and an expiry.  A tick acquires it;   *)
(* an ordinary store write reads it, renews it in a transaction of its own *)
(* and then writes in another; a maintenance write does all three in one   *)
(* transaction; a provider wait renews it by heartbeat; an explicit audit  *)
(* holds the SQLite write lock over it.                                    *)
(*                                                                         *)
(* A tick passes the instant it was started with as the clock of most of   *)
(* its writes; completions, heartbeats and audits use the wall clock.      *)
(***************************************************************************)
EXTENDS Integers

CONSTANTS
    Writers,   \* processes with the store open
    None,      \* no process
    Lease,     \* LEASE_SECONDS
    Wall,      \* provider_call_wall_seconds
    Beat,      \* heartbeat slice of a provider wait
    Prompt,    \* no process is descheduled outside a provider wait
    Horizon,   \* bound on the clock
    MaxTokens  \* bound on acquisitions

ASSUME LeaseAssumption ==
    /\ Lease \in Nat /\ Wall \in Nat /\ Beat \in Nat
    /\ 0 < Beat /\ Beat <= Wall /\ Wall < Lease /\ 2 * Beat <= Lease
    /\ Prompt \in BOOLEAN
    /\ Horizon \in Nat /\ MaxTokens \in Nat
    /\ None \notin Writers

VARIABLES
    clock,   \* wall clock
    lease,   \* the scheduler_leases row; token 0 is no row
    lock,    \* writer inside a BEGIN IMMEDIATE audit, or None
    minted,  \* tokens handed out so far (uuid4: never repeated)
    leasePc, \* what each writer does
    then,    \* what its passed lease check was for
    at,      \* the clock argument of that check
    tok,     \* _lease_token of its store object; 0 is no token
    start,   \* the instant its tick was started with
    callAt,  \* when its provider call began
    beatAt,  \* its last heartbeat
    stale    \* writes it committed in this tick without holding the lease

row == <<lease, lock, minted>>
leaseTick == <<tok, start>>
pending == <<then, at>>
waiting == <<callAt, beatAt>>
leaseVars == <<clock, row, leasePc, pending, leaseTick, waiting, stale>>

Ticking == {"run", "read", "checked", "wait", "audit", "audited"}

LeaseInit ==
    /\ clock = 0
    /\ lease = [token |-> 0, expires |-> 0]
    /\ lock = None
    /\ minted = 0
    /\ leasePc = [w \in Writers |-> "idle"]
    /\ then = [w \in Writers |-> "none"] /\ at = [w \in Writers |-> 0]
    /\ tok = [w \in Writers |-> 0] /\ start = [w \in Writers |-> 0]
    /\ callAt = [w \in Writers |-> 0] /\ beatAt = [w \in Writers |-> 0]
    /\ stale = [w \in Writers |-> 0]

(* Mutant of Held: the lease counts as free one instant before it expires. *)
BugHeld(c) == lease.token # 0 /\ lease.expires > c + 1

(* Some process holds an unexpired lease, seen at instant c. *)
Held(c) == lease.token # 0 /\ lease.expires > c

(* Mutant of Fenced: the expiry is checked, whose lease it is is not. *)
BugFenced(w, c) == lease.expires <= c

(* _require_write_lease of a leased writer, with clock argument c. *)
Fenced(w, c) == lease.token # tok[w] \/ lease.expires <= c

(* UPDATE ... WHERE lease_token = ours: no effect on another's lease. *)
Renewed(w, c) == IF lease.token = tok[w]
                 THEN [lease EXCEPT !.expires = c + Lease]
                 ELSE lease

Goto(w, where) == leasePc' = [leasePc EXCEPT ![w] = where]

----------------------------------------------------------------------------
(* now = datetime.now(UTC), some time before acquire_lease. *)
BeginTick(w) ==
    /\ leasePc[w] = "idle"
    /\ start' = [start EXCEPT ![w] = clock]
    /\ Goto(w, "start")
    /\ UNCHANGED <<clock, row, pending, tok, waiting, stale>>

(* acquire_lease(clock=now): one BEGIN IMMEDIATE transaction. *)
AcquireLease(w) ==
    /\ leasePc[w] = "start" /\ lock = None /\ minted < MaxTokens
    /\ ~Held(start[w])
    /\ minted' = minted + 1
    /\ lease' = [token |-> minted + 1, expires |-> start[w] + Lease]
    /\ tok' = [tok EXCEPT ![w] = minted + 1]
    /\ stale' = [stale EXCEPT ![w] = 0]
    /\ Goto(w, "run")
    /\ UNCHANGED <<clock, lock, pending, start, waiting>>

(* The lease is held, or the audit's lock makes BEGIN IMMEDIATE fail. *)
WriterBusy(w) ==
    /\ leasePc[w] = "start"
    /\ lock # None \/ Held(start[w])
    /\ Goto(w, "idle")
    /\ UNCHANGED <<clock, row, pending, leaseTick, waiting, stale>>

(* The check of _require_write_lease, with clock argument c. *)
CheckLease(w, c, next) ==
    /\ \/ /\ Fenced(w, c)
          /\ Goto(w, "fenced")
          /\ UNCHANGED pending
       \/ /\ ~Fenced(w, c)
          /\ then' = [then EXCEPT ![w] = next]
          /\ at' = [at EXCEPT ![w] = c]
          /\ Goto(w, "read")
    /\ UNCHANGED <<clock, row, leaseTick, waiting, stale>>

(* clock=now: most writes of the tick, and start_call before a wait. *)
CheckAtTickStart(w) == leasePc[w] = "run" /\ CheckLease(w, start[w], "write")
CheckStartCall(w) == leasePc[w] = "run" /\ CheckLease(w, start[w], "call")
(* clock=completion: the debit and complete_call after a response. *)
CheckAtCompletion(w) == leasePc[w] = "run" /\ CheckLease(w, clock, "write")
(* fenced_maintenance, before its BEGIN IMMEDIATE. *)
CheckAudit(w) == leasePc[w] = "run" /\ CheckLease(w, clock, "audit")
(* renew_held_lease from a wait slice of run_with_provider_wall_deadline. *)
CheckHeartbeat(w) ==
    leasePc[w] = "wait" /\ beatAt[w] < clock /\ CheckLease(w, clock, "beat")

(* ... and its renewal, COMMITted on its own. *)
RenewLease(w) ==
    /\ leasePc[w] = "read" /\ lock = None
    /\ lease' = Renewed(w, at[w])
    /\ \/ then[w] \in {"write", "call"} /\ Goto(w, "checked") /\ UNCHANGED beatAt
       \/ then[w] = "audit" /\ Goto(w, "audit") /\ UNCHANGED beatAt
       \/ then[w] = "beat" /\ Goto(w, "wait")
                           /\ beatAt' = [beatAt EXCEPT ![w] = clock]
    /\ UNCHANGED <<clock, lock, minted, pending, leaseTick, callAt, stale>>

(* A store object that never acquired writes when nobody holds the lease. *)
CheckUnleased(w) ==
    /\ leasePc[w] = "idle" /\ tok[w] = 0
    /\ ~Held(clock)
    /\ stale' = [stale EXCEPT ![w] = 0]
    /\ then' = [then EXCEPT ![w] = "alone"]
    /\ Goto(w, "checked")
    /\ UNCHANGED <<clock, row, at, leaseTick, waiting>>

(* The mutation: a transaction that no longer looks at the lease. *)
Mutate(w) ==
    /\ leasePc[w] = "checked" /\ lock = None
    /\ stale' = IF lease.token = tok[w] THEN stale
                ELSE [stale EXCEPT ![w] = @ + 1]
    /\ \/ then[w] = "write" /\ Goto(w, "run") /\ UNCHANGED waiting
       \/ then[w] = "alone" /\ Goto(w, "idle") /\ UNCHANGED waiting
       \/ /\ then[w] = "call" /\ Goto(w, "wait")
          /\ callAt' = [callAt EXCEPT ![w] = clock]
          /\ beatAt' = [beatAt EXCEPT ![w] = clock]
    /\ then' = [then EXCEPT ![w] = "none"] /\ at' = [at EXCEPT ![w] = 0]
    /\ UNCHANGED <<clock, row, leaseTick>>

(* A write that checks, renews and mutates inside one transaction. *)
MutateInTransaction(w) ==
    /\ leasePc[w] = "run" /\ lock = None
    /\ \/ /\ Fenced(w, start[w])
          /\ Goto(w, "fenced")
          /\ UNCHANGED lease
       \/ /\ ~Fenced(w, start[w])
          /\ lease' = Renewed(w, start[w])
          /\ UNCHANGED leasePc
    /\ UNCHANGED <<clock, lock, minted, pending, leaseTick, waiting, stale>>

(* The response arrived, or the wall deadline passed. *)
EndCall(w) ==
    /\ leasePc[w] = "wait"
    /\ Goto(w, "run")
    /\ callAt' = [callAt EXCEPT ![w] = 0]
    /\ beatAt' = [beatAt EXCEPT ![w] = 0]
    /\ UNCHANGED <<clock, row, pending, leaseTick, stale>>

(* fenced_maintenance: BEGIN IMMEDIATE and a second check inside; the body *)
(* runs under the write lock and the transaction is rolled back.           *)
BeginAudit(w) ==
    /\ leasePc[w] = "audit" /\ lock = None
    /\ \/ Fenced(w, clock) /\ Goto(w, "fenced") /\ UNCHANGED lock
       \/ ~Fenced(w, clock) /\ Goto(w, "audited") /\ lock' = w
    /\ UNCHANGED <<clock, lease, minted, pending, leaseTick, waiting, stale>>

EndAudit(w) ==
    /\ leasePc[w] = "audited"
    /\ lock' = None
    /\ Goto(w, "run")
    /\ UNCHANGED <<clock, lease, minted, pending, leaseTick, waiting, stale>>

(* release_lease in the finally clause: deletes the row only if it is ours. *)
ReleaseLease(w) ==
    /\ leasePc[w] \in {"run", "fenced"} /\ lock = None
    /\ \/ /\ lease.token = tok[w]
          /\ lease' = [token |-> 0, expires |-> 0]
          /\ tok' = [tok EXCEPT ![w] = 0]
       \/ /\ lease.token # tok[w]
          /\ UNCHANGED <<lease, tok>>
    /\ Goto(w, "idle")
    /\ UNCHANGED <<clock, lock, minted, pending, start, waiting, stale>>

(* The process dies: its row stays, SQLite rolls its transaction back. *)
LeaseCrash(w) ==
    /\ leasePc[w] # "idle"
    /\ Goto(w, "idle")
    /\ tok' = [tok EXCEPT ![w] = 0]
    /\ lock' = IF lock = w THEN None ELSE lock
    /\ UNCHANGED <<clock, lease, minted, pending, start, waiting, stale>>

InCall(w) == leasePc[w] = "wait" \/ (leasePc[w] = "read" /\ then[w] = "beat")

(* A provider wait beats in time and ends by its wall deadline; unless     *)
(* Prompt, a process may be descheduled anywhere else for as long as it    *)
(* takes.                                                                  *)
Advance ==
    /\ clock < Horizon
    /\ Prompt => \A w \in Writers : leasePc[w] = "idle" \/ InCall(w)
    /\ \A w \in Writers : InCall(w) =>
          clock < beatAt[w] + Beat /\ clock < callAt[w] + Wall
    /\ clock' = clock + 1
    /\ UNCHANGED <<row, leasePc, pending, leaseTick, waiting, stale>>

WriterStep(w) ==
    \/ BeginTick(w) \/ AcquireLease(w) \/ WriterBusy(w)
    \/ CheckAtTickStart(w) \/ CheckStartCall(w) \/ CheckAtCompletion(w)
    \/ CheckAudit(w) \/ CheckHeartbeat(w) \/ RenewLease(w)
    \/ CheckUnleased(w) \/ Mutate(w) \/ MutateInTransaction(w) \/ EndCall(w)
    \/ BeginAudit(w) \/ EndAudit(w) \/ ReleaseLease(w) \/ LeaseCrash(w)

LeaseNext == Advance \/ \E w \in Writers : WriterStep(w)

LeaseSpec == LeaseInit /\ [][LeaseNext]_leaseVars

----------------------------------------------------------------------------
(* Every variable keeps to its values. *)
LeaseTypeOK ==
    /\ clock \in Nat /\ minted \in Nat
    /\ lease \in [token : Nat, expires : Nat]
    /\ lock \in Writers \cup {None}
    /\ leasePc \in [Writers -> Ticking \cup {"idle", "start", "fenced"}]
    /\ then \in [Writers -> {"none", "write", "call", "beat", "audit", "alone"}]
    /\ at \in [Writers -> Nat]
    /\ tok \in [Writers -> Nat]
    /\ start \in [Writers -> Nat]
    /\ callAt \in [Writers -> Nat] /\ beatAt \in [Writers -> Nat]
    /\ stale \in [Writers -> Nat]

Leased(w) == leasePc[w] \in Ticking /\ tok[w] # 0

(* For LEASE_SECONDS from the instant its tick was started with, a ticking *)
(* process keeps the lease: no renewal moves the expiry before that, and   *)
(* nobody else can take it.                                                *)
HeldForOneLease ==
    \A w \in Writers : Leased(w) /\ clock < start[w] + Lease =>
        lease.token = tok[w]

(* A process that lost the lease commits at most one more write: the one   *)
(* whose check had already passed.                                         *)
AtMostOneStaleWrite == \A w \in Writers : stale[w] <= 1

(* While an audit runs nobody replaces its lease, however long it takes:   *)
(* the write lock holds acquirers off after the TTL.                       *)
AuditKeepsTheLease ==
    \A w \in Writers : leasePc[w] = "audited" => lease.token = tok[w] /\ lock = w

(* A provider call that begins a heartbeat slice before its tick is        *)
(* LEASE_SECONDS old keeps the lease to its end: heartbeats renew with the *)
(* wall clock.                                                             *)
HeartbeatKeepsTheLease ==
    \A w \in Writers : leasePc[w] = "wait" /\ callAt[w] + Beat < start[w] + Lease =>
        lease.token = tok[w] /\ lease.expires > clock

(* A leased process commits no write after another process replaced its    *)
(* lease.  The code lets one through (AtMostOneStaleWrite).                *)
NoStaleWrite == \A w \in Writers : tok[w] # 0 => stale[w] = 0

(* A provider wait that heartbeats in time is fenced only when another     *)
(* process replaced its token.  The code does not ensure it: a write that  *)
(* passes the tick's start as its clock moves the expiry back.             *)
NoSelfFence == \A w \in Writers : leasePc[w] = "wait" /\ lease.token = tok[w]
                                  => lease.expires > clock
============================================================================
