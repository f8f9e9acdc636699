-------------------------- MODULE ObservationTick --------------------------
(***************************************************************************)
(* The observation half of tick_once (observation_scheduler.py): recover   *)
(* the CLAIMED rows, claim due rows, call the provider once per call       *)
(* occurrence, debit the budget, settle every claimed row in a terminal    *)
(* state and publish the settled rows.  A SEARCH call serves a batch of    *)
(* rows with one due_at; a quote call serves one row.  Every store method  *)
(* commits on its own, so each commit is one action here, and a crash (or  *)
(* an exception that leaves the tick) may come between any two.            *)
(*                                                                         *)
(* The rows are the enqueued x and y points of one activation's admitted   *)
(* candidates, with authoritative anchors (no reanchoring); the writer     *)
(* lease makes the tick the only writer (module ScheduleLease).            *)
(***************************************************************************)
EXTENDS Integers, FiniteSets

CONSTANTS
    Rows,             \* due_observations keys, with their due_at and deadline_at
    BatchSize,        \* max_batch_size of the SEARCH primitive
    MaxClaims,        \* max_claims of a tick
    TickCap,          \* provider_calls_per_tick_max
    CallCap,          \* provider_calls_lifetime_max (the day cap behaves alike)
    Eligible,         \* entities whose X evidence passes the predicates
    CensorMissing,    \* continue_later_points_after_missing is false
    CensorDisappeared,\* disappearance.default = CENSOR_REMAINING_POINTS
    Horizon,          \* bound on the clock
    MaxCrashes        \* bound on crashes

Primitives == {"SEARCH", "BUY", "SELL"}

(* Callers enqueue at least one row; entity and point name its key. *)
ASSUME RowsAssumption ==
    \A r \in Rows : /\ r.primitive \in Primitives
                    /\ r.due_at \in Nat /\ r.deadline_at \in Nat

ASSUME BoundsAssumption ==
    /\ BatchSize \in Nat \ {0} /\ MaxClaims \in Nat \ {0}
    /\ TickCap \in Nat /\ CallCap \in Nat
    /\ CensorMissing \in BOOLEAN /\ CensorDisappeared \in BOOLEAN
    /\ Horizon \in Nat /\ MaxCrashes \in Nat

VARIABLES
    \* durable: the ops store and the research data plane
    due,        \* state of every due_observations row
    cand,       \* state of every candidate_members row
    buyOut,     \* SELL rows whose payload carries buy_out_amount
    ledger,     \* call_ledger: state of every call occurrence
    answer,     \* payload of a COMPLETED ledger row
    debited,    \* lifetime provider_calls
    job,        \* rows of the open publication job
    published,  \* rows of published panels
    \* volatile: the running tick
    pc,         \* where the tick is
    now,        \* the instant the tick was started with, frozen
    opener,     \* is a transport configured
    todo,       \* claimed rows the tick has not reached
    fresh,      \* those of them claimed by this tick
    live,       \* rows of the current call
    occ,        \* call occurrence being settled
    result,     \* response in memory
    fate,       \* how the rows of live are settled
    cur,        \* row being settled, as a set of at most one
    verdict,    \* its terminal state
    swept,      \* rows its missingness policy censored
    tickCalls,  \* provider calls of this tick
    stop,       \* stop_reason
    rows,       \* published_rows
    \* environment
    clock, calls, crashes, raises

ops == <<due, cand, buyOut>>
calling == <<ledger, answer, debited>>
panel == <<job, published>>
durable == <<ops, calling, panel>>
params == <<now, opener, fresh>>
call == <<occ, result, fate>>
settling == <<cur, verdict, swept>>
volatile == <<pc, params, todo, live, call, settling, tickCalls, stop, rows>>
env == <<clock, calls, crashes, raises>>
vars == <<durable, volatile, env>>

----------------------------------------------------------------------------
(* Vocabulary of the store.                                                *)

Open == {"PENDING", "CLAIMED"}
Terminal == {"OBSERVED", "MISSING_TYPED", "DISAPPEARED", "CENSORED",
             "CENSORED_LATE", "IN_FLIGHT_CALL_INDETERMINATE",
             "DEPENDENCY_MISSING", "BLOCKED_BUDGET"}
DueState == Open \cup Terminal
CallState == {"NONE", "STARTED", "COMPLETED"}
CandidateState == {"ADMITTED", "SAMPLED_MEMBER", "X_ELIGIBLE",
                   "X_POPULATION_INELIGIBLE"}
Settled == Rows \X Terminal

Entities == {r.entity : r \in Rows}

SearchRows == {r \in Rows : r.primitive = "SEARCH"}
QuoteRows == Rows \ SearchRows

(* _search_call_identity / call_occurrence_id: the identity of a call is   *)
(* the set of rows it serves.                                              *)
Occurrences == {S \in SUBSET SearchRows : S # {}} \cup {{r} : r \in QuoteRows}

Answer == [ok : BOOLEAN, seen : SUBSET Rows]
NoAnswer == [ok |-> FALSE, seen |-> {}]

(* _entity_terminal: absence inside a good response is a disappearance     *)
(* only after a prior observation of the entity.                           *)
HasPriorObservation(r) ==
    \E s \in Rows : s.entity = r.entity /\ due[s] = "OBSERVED"

EntityTerminal(a, r) ==
    CASE ~a.ok -> "MISSING_TYPED"
      [] a.ok /\ r \in a.seen -> "OBSERVED"
      [] a.ok /\ r \notin a.seen /\ HasPriorObservation(r) -> "DISAPPEARED"
      [] OTHER -> "MISSING_TYPED"

(* _apply_missingness_policy with censor_remaining_points: the open rows   *)
(* of the same entity at its other points.                                 *)
ShouldCensor(state) ==
    \/ state = "DISAPPEARED" /\ CensorDisappeared
    \/ state = "MISSING_TYPED" /\ CensorMissing

Remaining(r) == {s \in Rows : s.entity = r.entity /\ s.point # r.point}

(* Mutant of CensoredBy: the state of the swept rows is not looked at. *)
BugCensoredBy(r, state) == IF ShouldCensor(state) THEN Remaining(r) ELSE {}

CensoredBy(r, state) ==
    IF ShouldCensor(state) THEN {s \in Remaining(r) : due[s] \in Open} ELSE {}

CensorRemainingPoints(S) ==
    due' = [s \in Rows |-> IF s \in S THEN "CENSORED" ELSE due[s]]

(* _apply_x_phase: decided by the last X row of the entity to settle, and  *)
(* only when all of them are OBSERVED can the entity be eligible.          *)
XRow(r) == r.point = "X" /\ r.primitive # "SELL"

XPeers(r) == {s \in Rows : XRow(s) /\ s.entity = r.entity /\ s # r}

(* Mutant of XOutcome: the last X row to settle decides alone. *)
BugXOutcome(r, state) ==
    CASE \E s \in XPeers(r) : due[s] \notin Terminal -> "SAMPLED_MEMBER"
      [] OTHER -> IF state = "OBSERVED" /\ r.entity \in Eligible
                  THEN "X_ELIGIBLE"
                  ELSE "X_POPULATION_INELIGIBLE"

XOutcome(r, state) ==
    CASE \E s \in XPeers(r) : due[s] \notin Terminal -> "SAMPLED_MEMBER"
      [] OTHER -> IF /\ state = "OBSERVED"
                     /\ \A s \in XPeers(r) : due[s] = "OBSERVED"
                     /\ r.entity \in Eligible
                  THEN "X_ELIGIBLE"
                  ELSE "X_POPULATION_INELIGIBLE"

(* The dependent reverse rows a BUY feeds: _propagate_buy_out. *)
DependentSells(r) ==
    {s \in Rows : s.primitive = "SELL" /\ s.entity = r.entity
                  /\ due[s] \in Open /\ s \notin buyOut}

Late(r) == now > r.deadline_at

----------------------------------------------------------------------------
Init ==
    /\ due = [r \in Rows |-> "PENDING"]
    /\ cand = [e \in Entities |-> "ADMITTED"]
    /\ buyOut = {}
    /\ ledger = [o \in Occurrences |-> "NONE"]
    /\ answer = [o \in Occurrences |-> NoAnswer]
    /\ debited = 0
    /\ job = {} /\ published = {}
    /\ pc = "idle" /\ now = 0 /\ opener = FALSE
    /\ todo = {} /\ fresh = {} /\ live = {} /\ occ = {}
    /\ result = NoAnswer /\ fate = "NONE" /\ cur = {} /\ verdict = "NONE"
    /\ swept = {} /\ tickCalls = 0 /\ stop = "NONE" /\ rows = {}
    /\ clock = 0 /\ calls = [o \in Occurrences |-> 0]
    /\ crashes = 0 /\ raises = 0

(* Everything the process holds in memory is gone. *)
ForgetTick ==
    /\ pc' = "idle" /\ now' = 0 /\ opener' = FALSE
    /\ todo' = {} /\ fresh' = {} /\ live' = {} /\ occ' = {}
    /\ result' = NoAnswer /\ fate' = "NONE" /\ cur' = {} /\ verdict' = "NONE"
    /\ swept' = {} /\ tickCalls' = 0 /\ stop' = "NONE" /\ rows' = {}

(* insert_due of a terminal state on a row that is already terminal raises *)
(* DENY_RETROACTIVE_MUTATION; the tick ends in its finally clause.  (Its   *)
(* idempotent return for an equal state does not arise: a row the tick     *)
(* still holds can only have become CENSORED, which the tick never         *)
(* inserts.)                                                               *)
DenyRetroactiveMutation ==
    /\ ForgetTick
    /\ raises' = raises + 1
    /\ UNCHANGED <<durable, clock, calls, crashes>>

(* The write of insert_due itself. *)
InsertDue(r, state) == due' = [due EXCEPT ![r] = state]

----------------------------------------------------------------------------
(* Start: lease taken, open publication jobs repaired, accounting loaded.  *)
StartTick ==
    /\ pc = "idle"
    /\ \E o \in BOOLEAN : opener' = o
    /\ now' = clock
    /\ published' = published \cup job
    /\ job' = {}
    /\ pc' = "claim"
    /\ UNCHANGED <<ops, calling, call, settling, env, todo, fresh, live,
                   tickCalls, stop, rows>>

(* claim_due: at most MaxClaims matured PENDING rows, earliest deadline    *)
(* first; the rows a crashed tick left CLAIMED come on top of the limit.   *)
IsClaim(C) ==
    LET matured == {r \in Rows : due[r] = "PENDING" /\ r.due_at <= now} IN
    /\ C \subseteq matured
    /\ \/ C = matured /\ Cardinality(C) <= MaxClaims
       \/ Cardinality(C) = MaxClaims
    /\ \A r \in C, s \in matured \ C : r.deadline_at <= s.deadline_at

(* Mutant of ClaimDue: rows a crashed tick left CLAIMED are forgotten. *)
BugClaimDue ==
    /\ pc = "claim"
    /\ \E C \in SUBSET Rows :
          /\ IsClaim(C)
          /\ due' = [r \in Rows |-> IF r \in C THEN "CLAIMED" ELSE due[r]]
          /\ fresh' = C
          /\ todo' = C
    /\ pc' = "work"
    /\ UNCHANGED <<calling, panel, call, settling, env, cand, buyOut, now,
                   opener, live, tickCalls, stop, rows>>

ClaimDue ==
    /\ pc = "claim"
    /\ \E C \in SUBSET Rows :
          /\ IsClaim(C)
          /\ due' = [r \in Rows |-> IF r \in C THEN "CLAIMED" ELSE due[r]]
          /\ fresh' = C
          /\ todo' = C \cup {r \in Rows : due[r] = "CLAIMED" /\ r.due_at <= now}
    /\ pc' = "work"
    /\ UNCHANGED <<calling, panel, call, settling, env, cand, buyOut, now,
                   opener, live, tickCalls, stop, rows>>

(* The next SEARCH batch: the earliest due_at, recovered rows before fresh *)
(* ones, BatchSize rows or all that are left of that due_at.               *)
SearchTodo == todo \cap SearchRows

IsChunk(C) ==
    /\ C # {}
    /\ \A r \in C, s \in SearchTodo :
          r.due_at <= s.due_at
    /\ LET group == {s \in SearchTodo : \A r \in C : s.due_at = r.due_at} IN
       /\ C \subseteq group
       /\ C = group \/ Cardinality(C) = BatchSize
       /\ Cardinality(C) <= BatchSize
       /\ C \cap fresh # {} => group \ fresh \subseteq C

TakeBatch ==
    /\ pc = "work"
    /\ \E C \in SUBSET SearchTodo :
          /\ IsChunk(C)
          /\ live' = C
          /\ todo' = todo \ C
    /\ pc' = "late"
    /\ UNCHANGED <<durable, params, call, settling, env, tickCalls, stop,
                   rows>>

(* Mutant of TakeQuote: claims are taken in any order. *)
BugTakeQuoteUnordered ==
    /\ pc = "work"
    /\ SearchTodo = {}
    /\ \E r \in todo :
          /\ todo' = todo \ {r}
          /\ IF due[r] = "CLAIMED"
             THEN live' = {r} /\ pc' = "late"
             ELSE UNCHANGED <<live, pc>>
    /\ UNCHANGED <<durable, params, call, settling, env, tickCalls, stop,
                   rows>>

(* Quotes follow, every BUY before every SELL.  The row is read again and  *)
(* skipped when an earlier row of this tick settled it.                    *)
TakeQuote ==
    /\ pc = "work"
    /\ SearchTodo = {}
    /\ \E r \in todo :
          /\ r.primitive = "SELL" => \A s \in todo : s.primitive = "SELL"
          /\ todo' = todo \ {r}
          /\ IF due[r] = "CLAIMED"
             THEN live' = {r} /\ pc' = "late"
             ELSE UNCHANGED <<live, pc>>
    /\ UNCHANGED <<durable, params, call, settling, env, tickCalls, stop,
                   rows>>

(* A claimed row past its deadline is censored, row by row. *)
CensorLate ==
    /\ pc = "late"
    /\ \E r \in live :
          /\ Late(r)
          /\ \/ /\ due[r] \in Terminal
                /\ DenyRetroactiveMutation
             \/ /\ due[r] \notin Terminal
                /\ InsertDue(r, "CENSORED_LATE")
                /\ rows' = rows \cup {<<r, "CENSORED_LATE">>}
                /\ live' = live \ {r}
                /\ UNCHANGED <<calling, panel, params, call, settling, env,
                               cand, buyOut, pc, todo, tickCalls, stop>>

NoneLate == \A r \in live : ~Late(r)

BatchGone ==
    /\ pc = "late" /\ live = {}
    /\ pc' = "work"
    /\ UNCHANGED <<durable, params, call, settling, env, todo, live,
                   tickCalls, stop, rows>>

(* How the rows of the current call will be settled. *)
SettleAs(how, where) ==
    /\ occ' = live
    /\ fate' = how
    /\ pc' = where
    /\ UNCHANGED <<ops, panel, params, settling, env, answer, debited, todo,
                   live, result, tickCalls, rows>>

Ready == pc = "late" /\ live # {} /\ NoneLate

(* _url_for_claim: a SELL needs the outAmount of its BUY. *)
NoBuyOut == \E r \in live : r.primitive = "SELL" /\ r \notin buyOut

SellWithoutBuy ==
    /\ Ready /\ NoBuyOut
    /\ SettleAs("DEPENDENCY_MISSING", "settle")
    /\ UNCHANGED <<ledger, stop>>

(* The ledger already knows the occurrence: an unfinished call is never    *)
(* repeated, a finished one is settled from its stored payload.            *)
InFlight ==
    /\ Ready /\ ~NoBuyOut
    /\ ledger[live] = "STARTED"
    /\ SettleAs("IN_FLIGHT_CALL_INDETERMINATE", "settle")
    /\ UNCHANGED <<ledger, stop>>

Recover ==
    /\ Ready /\ ~NoBuyOut
    /\ ledger[live] = "COMPLETED"
    /\ SettleAs("RECOVERED", "settle")
    /\ UNCHANGED <<ledger, stop>>

(* Mutant of Uncalled: an unfinished call is tried again. *)
BugUncalled == Ready /\ ~NoBuyOut /\ ledger[live] # "COMPLETED"

Uncalled == Ready /\ ~NoBuyOut /\ ledger[live] = "NONE"

NoTransport ==
    /\ Uncalled /\ ~opener
    /\ SettleAs("DEPENDENCY_MISSING", "settle")
    /\ stop' = "DEPENDENCY_MISSING"
    /\ UNCHANGED ledger

(* Mutant of OverBudget: off by one. *)
BugOverBudget == tickCalls > TickCap \/ debited > CallCap

(* _Accounting.gate: the caps, then the pace. *)
OverBudget == tickCalls + 1 > TickCap \/ debited + 1 > CallCap

(* A blocked SEARCH leaves the remaining batches of its due_at; a blocked  *)
(* quote leaves all quotes.  Their rows stay CLAIMED.                      *)
GateBlocked ==
    /\ Uncalled /\ opener
    /\ \/ OverBudget /\ stop' = "BLOCKED_BUDGET"
       \/ ~OverBudget /\ stop' = "PACE_WAIT"
    /\ todo' = IF live \subseteq SearchRows
               THEN {r \in todo : r \in QuoteRows
                                  \/ \E s \in live : r.due_at # s.due_at}
               ELSE {}
    /\ live' = {}
    /\ pc' = "work"
    /\ UNCHANGED <<durable, params, call, settling, env, tickCalls, rows>>

(* start_call: put-if-absent of the occurrence.  *)
StartCall ==
    /\ Uncalled /\ opener /\ ~OverBudget
    /\ ledger' = [ledger EXCEPT ![live] = "STARTED"]
    /\ SettleAs("ANSWERED", "call")
    /\ UNCHANGED stop

(* SQLite refused the insert: no row, no call, typed as indeterminate. *)
StartCallRefused ==
    /\ Uncalled /\ opener /\ ~OverBudget
    /\ SettleAs("IN_FLIGHT_CALL_INDETERMINATE", "settle")
    /\ UNCHANGED <<ledger, stop>>

(* execute_primitive: the one external effect of the tick. *)
ProviderCall ==
    /\ pc = "call"
    /\ calls' = [calls EXCEPT ![occ] = @ + 1]
    /\ \E ok \in BOOLEAN, S \in SUBSET occ :
          /\ ~ok => S = {}
          /\ result' = [ok |-> ok, seen |-> S]
    /\ pc' = "debit"
    /\ UNCHANGED <<durable, params, settling, todo, live, occ, fate,
                   tickCalls, stop, rows, clock, crashes, raises>>

(* record_provider_completion -> note -> save_call_debit. *)
NoteCall ==
    /\ pc = "debit"
    /\ debited' = debited + 1
    /\ tickCalls' = tickCalls + 1
    /\ pc' = "complete"
    /\ UNCHANGED <<ops, panel, params, call, settling, env, ledger, answer,
                   todo, live, stop, rows>>

CompleteCall ==
    /\ pc = "complete"
    /\ ledger' = [ledger EXCEPT ![occ] = "COMPLETED"]
    /\ answer' = [answer EXCEPT ![occ] = result]
    /\ pc' = "settle"
    /\ UNCHANGED <<ops, panel, params, call, settling, env, debited, todo,
                   live, tickCalls, stop, rows>>

----------------------------------------------------------------------------
(* Settling the rows of the call, one by one.                              *)

Verdict(r) == IF fate \in {"ANSWERED", "RECOVERED"}
              THEN EntityTerminal(answer[occ], r)
              ELSE fate

(* Mutant of PolicyFirst: SEARCH rows too are inserted before the policy. *)
BugPolicyFirst(r) == fate = "RECOVERED"

(* SEARCH rows and rows recovered from the ledger are censored around      *)
(* first and inserted second; a live quote is inserted first.              *)
PolicyFirst(r) == r \in SearchRows \/ fate = "RECOVERED"

(* The X phase is skipped for a quote recovered from the ledger. *)
XPhase(r) == XRow(r) /\ (r \in SearchRows => fate \in {"ANSWERED", "RECOVERED"})
                     /\ (r \notin SearchRows => fate = "ANSWERED")

BeginSettle ==
    /\ pc = "settle"
    /\ \E r \in live :
          /\ cur' = {r}
          /\ live' = live \ {r}
          /\ verdict' = Verdict(r)
          /\ pc' = IF XPhase(r) THEN "xcand" ELSE "policy"
    /\ UNCHANGED <<durable, params, call, env, todo, swept, tickCalls, stop,
                   rows>>

SetCandidateState ==
    /\ pc = "xcand"
    /\ \E r \in cur :
          /\ cand' = [cand EXCEPT ![r.entity] = XOutcome(r, verdict)]
          /\ pc' = IF XOutcome(r, verdict) = "X_POPULATION_INELIGIBLE"
                   THEN "xcensor" ELSE "policy"
    /\ UNCHANGED <<calling, panel, params, call, settling, env, due, buyOut,
                   todo, live, tickCalls, stop, rows>>

(* Ineligible: every other open row of the entity is censored. *)
CensorIneligible ==
    /\ pc = "xcensor"
    /\ \E r \in cur :
          LET S == {s \in Rows : s.entity = r.entity /\ s # r /\ due[s] \in Open}
          IN CensorRemainingPoints(S) /\ swept' = S
    /\ pc' = "policy"
    /\ UNCHANGED <<calling, panel, params, call, env, cand, buyOut, todo,
                   live, cur, verdict, tickCalls, stop, rows>>

ApplyPolicy ==
    /\ pc = "policy"
    /\ \E r \in cur :
          LET S == IF PolicyFirst(r) THEN CensoredBy(r, verdict) ELSE {}
          IN CensorRemainingPoints(S) /\ swept' = swept \cup S
    /\ pc' = "insert"
    /\ UNCHANGED <<calling, panel, params, call, env, cand, buyOut, todo,
                   live, cur, verdict, tickCalls, stop, rows>>

InsertTerminal ==
    /\ pc = "insert"
    /\ \E r \in cur :
          \/ /\ due[r] \in Terminal
             /\ DenyRetroactiveMutation
          \/ /\ due[r] \notin Terminal
             /\ InsertDue(r, verdict)
             /\ pc' = "follow"
             /\ UNCHANGED <<calling, panel, params, call, settling, env, cand,
                            buyOut, todo, live, tickCalls, stop, rows>>

(* _propagate_buy_out, one merge_due_payload per dependent row. *)
PropagateBuyOut ==
    /\ pc = "follow" /\ verdict = "OBSERVED"
    /\ \E r \in cur : /\ r.primitive = "BUY"
                      /\ \E s \in DependentSells(r) : buyOut' = buyOut \cup {s}
    /\ UNCHANGED <<volatile, calling, panel, env, due, cand>>

Propagated ==
    \A r \in cur : verdict = "OBSERVED" /\ r.primitive = "BUY"
                   => DependentSells(r) = {}

(* The late policy of a live quote, then published_rows. *)
EndSettle ==
    /\ pc = "follow" /\ Propagated
    /\ \E r \in cur :
          LET S == IF PolicyFirst(r) THEN {} ELSE CensoredBy(r, verdict) IN
          /\ CensorRemainingPoints(S)
          /\ rows' = rows \cup {<<r, verdict>>}
                          \cup {<<s, "CENSORED">> : s \in swept \cup S}
    /\ cur' = {} /\ swept' = {} /\ verdict' = "NONE"
    /\ pc' = "settle"
    /\ UNCHANGED <<calling, panel, params, call, env, cand, buyOut, todo,
                   live, tickCalls, stop>>

CallSettled ==
    /\ pc = "settle" /\ live = {}
    /\ pc' = "work"
    /\ occ' = {} /\ fate' = "NONE" /\ result' = NoAnswer
    /\ UNCHANGED <<durable, params, settling, env, todo, live, tickCalls,
                   stop, rows>>

----------------------------------------------------------------------------
(* The end of the tick.                                                    *)

(* Mutant of Leftover: every matured row counts, settled ones included. *)
BugLeftover == {r \in Rows : due[r] # "PENDING" /\ r.due_at <= now}

Leftover == {r \in Rows : due[r] = "CLAIMED" /\ r.due_at <= now}

WorkDone ==
    /\ pc = "work" /\ todo = {}
    /\ pc' = "close"
    /\ UNCHANGED <<durable, params, call, settling, env, todo, live,
                   tickCalls, stop, rows>>

(* PACE_WAIT hands the claims back; BLOCKED_BUDGET settles them. *)
ReturnClaim ==
    /\ pc = "close" /\ stop = "PACE_WAIT"
    /\ \E r \in Leftover : InsertDue(r, "PENDING")
    /\ UNCHANGED <<volatile, calling, panel, env, cand, buyOut>>

BlockClaim ==
    /\ pc = "close" /\ stop = "BLOCKED_BUDGET"
    /\ \E r \in Leftover :
          /\ InsertDue(r, "BLOCKED_BUDGET")
          /\ rows' = rows \cup {<<r, "BLOCKED_BUDGET">>}
    /\ UNCHANGED <<calling, panel, params, call, settling, env, cand, buyOut,
                   pc, todo, live, tickCalls, stop>>

Closed == stop \in {"PACE_WAIT", "BLOCKED_BUDGET"} => Leftover = {}

(* publish_observation_batch, up to the first saved job stage. *)
SaveJob ==
    /\ pc = "close" /\ Closed /\ rows # {}
    /\ job' = rows
    /\ pc' = "publish"
    /\ UNCHANGED <<ops, calling, params, call, settling, env, published, todo,
                   live, tickCalls, stop, rows>>

(* ... and from there to the completed job; the lease is released. *)
CompleteJob ==
    /\ pc = "publish"
    /\ published' = published \cup job
    /\ job' = {}
    /\ ForgetTick
    /\ UNCHANGED <<ops, calling, env>>

NothingToPublish ==
    /\ pc = "close" /\ Closed /\ rows = {}
    /\ ForgetTick
    /\ UNCHANGED <<durable, env>>

----------------------------------------------------------------------------
Crash ==
    /\ pc # "idle" /\ crashes < MaxCrashes
    /\ crashes' = crashes + 1
    /\ ForgetTick
    /\ UNCHANGED <<durable, clock, calls, raises>>

Advance ==
    /\ clock < Horizon
    /\ clock' = clock + 1
    /\ UNCHANGED <<durable, volatile, calls, crashes, raises>>

TickStep ==
    \/ StartTick \/ ClaimDue \/ TakeBatch \/ TakeQuote \/ CensorLate
    \/ BatchGone \/ SellWithoutBuy \/ InFlight \/ Recover \/ NoTransport
    \/ GateBlocked \/ StartCall \/ StartCallRefused \/ ProviderCall
    \/ NoteCall \/ CompleteCall \/ BeginSettle \/ SetCandidateState
    \/ CensorIneligible \/ ApplyPolicy
    \/ InsertTerminal
    \/ PropagateBuyOut \/ EndSettle \/ CallSettled \/ WorkDone
    \/ ReturnClaim \/ BlockClaim \/ SaveJob \/ CompleteJob
    \/ NothingToPublish

Next == TickStep \/ Crash \/ Advance

Spec == Init /\ [][Next]_vars

(* The systemd timer starts a tick again and again, and time passes. *)
FairSpec == Spec /\ WF_vars(TickStep) /\ WF_vars(Advance)
----------------------------------------------------------------------------
(* Properties.                                                             *)

Pc == {"idle", "claim", "work", "late", "call", "debit", "complete",
       "settle", "xcand", "xcensor", "policy", "insert", "follow", "close",
       "publish"}
Fate == {"NONE", "ANSWERED", "RECOVERED", "IN_FLIGHT_CALL_INDETERMINATE",
         "DEPENDENCY_MISSING"}
Stop == {"NONE", "PACE_WAIT", "BLOCKED_BUDGET", "DEPENDENCY_MISSING"}

(* Every variable keeps to the values the store and the tick can hold. *)
TypeOK ==
    /\ due \in [Rows -> DueState]
    /\ cand \in [Entities -> CandidateState]
    /\ buyOut \subseteq Rows
    /\ ledger \in [Occurrences -> CallState]
    /\ answer \in [Occurrences -> Answer]
    /\ debited \in Nat
    /\ job \subseteq Settled /\ published \subseteq Settled
    /\ pc \in Pc /\ now \in Nat /\ opener \in BOOLEAN
    /\ todo \subseteq Rows /\ fresh \subseteq Rows /\ live \subseteq Rows
    /\ occ \in Occurrences \cup {{}}
    /\ result \in Answer /\ fate \in Fate
    /\ cur \subseteq Rows /\ verdict \in Terminal \cup {"NONE"}
    /\ swept \subseteq Rows
    /\ tickCalls \in Nat /\ stop \in Stop /\ rows \subseteq Settled
    /\ clock \in Nat /\ calls \in [Occurrences -> Nat]
    /\ crashes \in Nat /\ raises \in Nat

(* A call occurrence reaches the provider at most once, however often the  *)
(* tick crashes and is restarted: call_state and start_call guard it.      *)
OneCallPerOccurrence == \A o \in Occurrences : calls[o] <= 1

TotalCalls == Cardinality(UNION {{o} \X (1 .. calls[o]) : o \in Occurrences})

(* The debit follows the call, so a crash can lose it.  A call whose debit *)
(* was lost still shows in the ledger as STARTED, no debit was made        *)
(* without a call, and the lifetime cap binds the calls really made up to  *)
(* one per crash.                                                          *)
DebitsAccountForCalls ==
    /\ TotalCalls <= debited + Cardinality({o \in Occurrences : ledger[o] = "STARTED"})
    /\ debited <= TotalCalls
    /\ TotalCalls <= CallCap + crashes

(* Nothing is invented: an OBSERVED row is backed by a completed call whose *)
(* stored response contains it.                                            *)
ObservedIsAnswered ==
    \A r \in Rows : due[r] = "OBSERVED" =>
        \E o \in Occurrences : /\ r \in o
                               /\ ledger[o] = "COMPLETED"
                               /\ answer[o].ok /\ r \in answer[o].seen

(* What is published, about to be, or collected for it is what the ops     *)
(* store holds: a panel never disagrees with due_observations.             *)
PublishedMatchesStore ==
    \A x \in published \cup job \cup rows : due[x[1]] = x[2]

(* A settled row is settled for good: DENY_RETROACTIVE_MUTATION. *)
TerminalIsFinal ==
    [][\A r \in Rows : due[r] \in Terminal => due'[r] = due[r]]_vars

(* A SEARCH row is never seen MISSING_TYPED or DISAPPEARED under a         *)
(* censoring policy while a later point of its entity is still open, even  *)
(* across crashes: the policy commits before the row.                      *)
SearchPolicyIsComplete ==
    \A r \in SearchRows : ShouldCensor(due[r]) =>
        \A s \in Remaining(r) : due[s] \in Terminal

(* The row of a quote call is still CLAIMED when the call goes out: the    *)
(* tick reads it again after the rows before it were settled.              *)
QuoteCallIsCurrent ==
    pc = "call" => \A r \in occ \cap QuoteRows : due[r] = "CLAIMED"

Undisturbed == crashes = 0 /\ raises = 0

(* A SELL is judged only after the matured BUYs of its entity settled, as  *)
(* long as the claim limit does not split them, and without a crash it has *)
(* the outAmount of an observed BUY by then.                               *)
SellFollowsItsBuy ==
    pc = "late" => \A r \in live : r.primitive = "SELL" =>
        \A b \in Rows : (b.primitive = "BUY" /\ b.entity = r.entity) =>
            /\ b.due_at <= now => due[b] \in Terminal
            /\ Undisturbed /\ due[b] = "OBSERVED" => r \in buyOut

(* Between undisturbed ticks an ineligible entity has no open row left,    *)
(* and an eligible one has all of its X rows OBSERVED.                     *)
EligibilityIsSealed ==
    Undisturbed /\ pc = "idle" => \A r \in Rows :
        /\ cand[r.entity] = "X_POPULATION_INELIGIBLE" => due[r] \in Terminal
        /\ cand[r.entity] = "X_ELIGIBLE" /\ XRow(r) => due[r] = "OBSERVED"

(* Every row settles: it is observed, typed missing, censored or blocked,  *)
(* whatever the provider, the pace and a bounded number of crashes do.     *)
EveryRowSettles == \A r \in Rows : <>(due[r] \in Terminal)

(* No row is served by two provider calls.  The code does not ensure it:   *)
(* the identity of a batch follows from the rows still live in it.         *)
NoCallIsReplayed ==
    \A r \in Rows : Cardinality({o \in Occurrences : r \in o /\ calls[o] > 0}) <= 1

(* No tick ends in an exception.  The code does not ensure it either: only *)
(* quote rows are read again before their call, SEARCH rows are not.       *)
TickNeverRaises == raises = 0
=============================================================================
