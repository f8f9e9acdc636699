# Verification of the unattended collector and the paper plane

TLA+ models, TLC runs and TLAPS proofs for the stateful core of solana-alpha-lab:
the collector that claims due observations, calls a paid provider, settles every
observation and publishes the result as immutable panels; the second producer of
the same machinery, opportunity episodes; the lifecycle, budget, locks and log
that they share; and the coordinator of the paper positions. Paths below are
relative to `src/src/solana_alpha_lab/factory/` unless they say otherwise.

## 1. The system

A systemd timer (`configs/factory_remote_ops/factory-observation-schedule.timer`)
starts a short process 15 seconds after the previous one ended. The process runs one
*tick* (`tick_once`, `observation_scheduler.py`) and exits. Everything that must
survive is in a SQLite "ops store" (`observation_schedule_store.py`), in the
append-only research data plane (RDP, `research_store.py`) and in immutable
files under the data root. There is no long-lived collector process: a crash at
any point is followed by a fresh tick that has only the durable state to go by.
The trading coordinator is the one loop, and its tick is written the same way.

| Component | State | Operations | Hard behaviour | What makes it correct | Status |
|---|---|---|---|---|---|
| Observation tick (`observation_scheduler.py`, `observation_primitives.py`) | `due_observations`, `candidate_members`, `call_ledger`, budget counters; in memory: claims, current call, `published_rows`, `stop_reason` | recover and claim, batch, gate, start / make / debit / complete a call, classify, X phase, missingness policy, BUY→SELL propagation, publish | a crash between any two commits; rows claimed before earlier rows settle; missed ticks; caps | no call twice, nothing invented, settled rows final, panels agree with the store, every row settles | partly (`ObservationTick`) |
| Writer lease (`observation_schedule_store.py`, `observation_provider_wall_deadline.py`) | `scheduler_leases` row: token, expiry | acquire, check + renew, heartbeat, audit, release | overlapping processes, frozen clocks, provider waits of the order of the TTL | who may write when | modelled (`ScheduleLease`) |
| Panel publication (`observation_panel_publisher.py`, `observation_publication_jobs.py`) | open job files, receipts, parquet files, manifests, `.published` markers, RDP records | publish in stages, resume open jobs, complete | a crash between any two files; replayed batches | visible means complete; every job completes | partly (`PanelPublication`, `PanelBatches`) |
| Provider pacing and tick budget (`observation_provider_pacing.py`) | last-call instants, wall budget | wait for a slot, `PACE_WAIT` | a tick stops half way | rows handed back are settled later | partly: a free choice in `ObservationTick` |
| Account budget (`observation_account_budget.py`, `_Accounting`) | commissioned members, limit revisions, day and lifetime counters | prepare, apply, revise, bind, shared gate, debit | several activations on one cap, midnight, commissioning while activations appear, crashes around the debit | the cap bounds the sum; no debt outside it | modelled (`AccountBudget`) |
| Activation lifecycle (`observation_schedule_lifecycle.py`, transition table of the store, gates of the tick) | activation row, lifecycle events in the RDP, rollovers | activate, pause, resume, abort, stop intake, roll over, drain, complete | a transition is a row and then an event; operators look at the lease and do not take it; a renewal timer rolls over beside them; stale reads of a tick | evidence before completion, one admitting side of a rollover, drains end | partly (`ActivationLifecycle`) |
| Opportunity episodes (`opportunity_episode_tick.py`) | rounds, plans, admissions, slots, call ledger, outbox | nominate, call, plan, admit, resume, reconcile; claim, record intent, call, settle, publish, mark | a crash between any two of these; late answers; ceilings shared by a lineage | no request twice, honest rows, deterministic selection, everything ends | partly (`EpisodeRounds`, `EpisodeSlots`) |
| Research store (`research_store.py`, `research_write_lookup.py`) | writer lock file, quarantine links, artifacts; partitions, manifests, index, journal | lock, recover a dead owner's lock; append, look up without the lock, prepare, recover | file operations are separate; readers take no lock; a predecessor build ignores the index | who owns the lock; a log that loses nothing settled and has no false absence | partly (`ResearchWriterLock`, `ResearchAppend`, `ResearchLog`) |
| Paper plane and trading coordinator (`paper_plane.py`, `trading_coordinator.py`, `paper_shadow_commands.py`) | positions, attempts, results, captures, bots, epoch switch | recover, exit, admit, enter, drain; operator commands | effect before its record; commands in the middle of a tick; unknown outcomes | books agree with effects, a stopped bot owns nothing, drains end | partly (`TradingAttempts`, SHADOW mode) |
| Retention (`observation_schedule_retention.py`, `hot90_*.py`) | retirement plan, archives | retire, archive, evict | mutation under a lease | nothing retired before it is archived | partly: lease protocol only |
| Discovery and admission (`observation_scheduler.py`, `observation_schedule.py`) | poll slots, candidates, enqueued points | poll, admit, enqueue, reanchor | a candidate and its points are separate commits | every admitted candidate has its points | not modelled, planned |
| Backup and restore (`offhost_backup.py`, store `restore_from`) | snapshots | back up, restore, mark the gap | ledger rewound below calls already made | the gap is censored | not modelled, planned |
| Members snapshot/delta (`members_snapshot_delta.py`) | snapshot and delta units | append, compact | unit appended before its job exists | no orphan units | not modelled, candidate |
| Managed collection, live corpus, forge, workbench, storage library, transports, campaigns, scripts | - | operator commands, statistics, rendering, HTTP clients | little or no concurrency, or pure I/O | - | not modelled (section 7) |

How they interact: the timer starts a tick; the tick reads the **lifecycle** row
and takes the **lease**, repairs open **publication** jobs, admits members or
runs nomination **rounds**, claims and settles **rows** or **slots** (each
provider call passing the **pacing** and **budget** gates), publishes what is
settled, and releases the lease. Publications and lifecycle events are appended
to the **research store** under its own writer lock. Panels are read by the live
corpus and everything behind it. All communication is through durable state, so
the question to ask is what a reader finds after any prefix of the writers'
commits.

## 2. The modules

| Module | What it is |
|---|---|
| `ObservationTick` | the observation half of `tick_once`, one action per commit |
| `ScheduleLease` | the lease row, several processes, time |
| `PanelBatches` | abstract: a batch is accepted, shown, finished |
| `PanelPublication` | publication stage by stage, with its refinement to `PanelBatches` |
| `AccountBudget` | the provider budget that several activations share |
| `ActivationLifecycle` | rows, events and evidence of the activations of a family |
| `EpisodeRounds` | nomination rounds of the episode lane |
| `EpisodeSlots` | slots of admitted episodes, composed with `PanelBatches` |
| `ResearchWriterLock` | the lock file of the research store and its recovery |
| `ResearchLog` | abstract: a log of which what has settled is never taken back |
| `ResearchAppend` | append, index, journal and readers, with its refinement to `ResearchLog` |
| `TradingAttempts` | positions and attempts under the trading coordinator |
| `MC…` | the instances TLC runs |
| `…Proofs` | theorems and their proofs |
| `SumTheorems` | lemmas about sums over finite sets |

`OpsStoreProofs` extends both `AccountBudget` and `ScheduleLease`, `ResearchStoreProofs`
extends `ResearchAppend`, `ResearchWriterLock` and `PanelPublication`, which appends to the
store; the names of all but the first are therefore prefixed where they would meet
(`LeaseInit`, `LeaseNext`, `LockFairSpec`, `PanelSpec`, `PanelTypeOK`, …).

The modules compose in two ways. By **instance**: `EpisodeSlots` publishes its outbox
with the actions of `PanelBatches` on its own variables, and `PanelPublication`
refines `PanelBatches`, so what a publisher's stages promise is what the slots
rely on. By **assumption and guarantee**: the other modules take for granted what
one of them states and checks.

| Assumed | by | Stated in |
|---|---|---|
| one writer of the ops store at a time | `ObservationTick`, `PanelPublication`, `AccountBudget`, `EpisodeRounds`, `EpisodeSlots` | `ScheduleLease`: `HeldForOneLease`, `AtMostOneStaleWrite` say how far it is true |
| a live tick keeps its lease | `ActivationLifecycle` | `ScheduleLease` |
| a panel batch is accepted, shown, finished as a whole | `ObservationTick`, `EpisodeSlots` | `PanelPublication`: `ImplementsPanelBatches` |
| one appender at a time | `ResearchAppend` | `ResearchWriterLock`: `OneOwnerUnlessStray` |
| an append is put-if-absent | `PanelPublication`, `ActivationLifecycle` | `ResearchAppend`: `ImplementsResearchLog` |
| the shared gate refuses over the cap | `ObservationTick` (free choice of the gate) | `AccountBudget`: `SharedBoundsHold` |

In `PanelPublication` and `ActivationLifecycle` an append that fails has not happened. The
code lets its record be visible for a moment first (`CleanupFails` of `ResearchAppend`);
a reader that goes by the index cannot take it for committed in that moment, as the directory's stamp
has moved and the journal is open, and one that scans the manifests, which could, is
not modelled there. If the record cannot be unlinked either, it is there although the caller
was told otherwise, as after an append and a crash.

### ObservationTick

State. `due`, `cand`, `buyOut`, `ledger`, `answer`, `debited` are columns of the
ops store; `job` and `published` are the panels. `pc` and the other volatile
variables are the locals of `tick_once`; `ForgetTick` clears them. `clock`,
`calls`, `crashes`, `raises` observe the run: `calls` counts what really reached
the provider and no code reads it.

Actions. Every store method opens its own transaction, so each is one action.
`StartTick`, `ClaimDue`, then per SEARCH batch (`TakeBatch`) or quote
(`TakeQuote`): late rows (`CensorLate`), the ledger's verdict (`InFlight`,
`Recover`, `SellWithoutBuy`, `NoTransport`), the gate (`GateBlocked`),
`StartCall` / `StartCallRefused`, `ProviderCall`, `NoteCall`, `CompleteCall`, and
then each row of the call: `BeginSettle`, the X phase (`SetCandidateState`,
`CensorIneligible`), `ApplyPolicy`, `InsertTerminal`, `PropagateBuyOut`,
`EndSettle`. The tick ends with `ReturnClaim` or `BlockClaim` for what it did
not reach, `SaveJob` and `CompleteJob`.

A call is identified by the set of rows it serves: `_search_call_identity` hashes
the live rows of the batch.

Abstractions. A response is whether it was usable and which rows it contains. An
OBSERVED BUY always carries an outAmount. Ties in the claim order are free. The
day cap behaves like the lifetime cap. X predicates are a set of entities that
pass. A live quote's policy and its entry in `published_rows` are one step
(`EndSettle`): nothing else reads either between them except through a crash,
and the crash before the policy is still there. M1 execution primitives other
than the BUY/SELL pair, provisional anchors and their reanchoring, discovery and
admission are left out; rows start PENDING with their final times, of one
activation. `Crash` also stands for every exception that leaves a tick other than
the one modelled explicitly (`DenyRetroactiveMutation`), for example the RDP's
WRITER_BUSY.

### ScheduleLease

State. `lease` is the `scheduler_leases` row; `lock` the SQLite write lock while
`fenced_maintenance` holds it; per process: `tok` (`_lease_token`), `start` (the
instant `tick_once` was called with, which most writes pass as their clock),
`then`/`at` (what a passed check was for, and its clock argument),
`callAt`/`beatAt` for a provider wait. `stale` counts writes committed while
another token was in the row.

Actions. `BeginTick` reads the clock, `AcquireLease` / `WriterBusy` the row.
`_require_write_lease` is `Check…` (a read), `RenewLease` (its own transaction)
and `Mutate` (the caller's transaction), in this order; `MutateInTransaction` is
the form used by maintenance writes that do all of it in one transaction.
`CheckHeartbeat` is a slice of `run_with_provider_wall_deadline`; `CheckAudit`,
`BeginAudit`, `EndAudit` are `fenced_maintenance`; `CheckUnleased` is a store
object without a token. A write that waits too long for the SQLite lock raises;
that is `Crash`. `Prompt` restricts time to pass only in provider waits and
between ticks; with it TRUE the two counterexamples of section 4 remain, so
neither depends on a descheduled process. The timer never overlaps
its own service; the second process is an operator's command, a maintenance job
or a deployment that opens the same store, which is what the lease is for.

### PanelPublication

State. `have` is what of a batch is durable, `open` the stage in its job file,
`receipt` the compact receipt, `sched` the schedule record. `batch`, `stage`,
`repair`, `step` are the publisher's locals. Every write goes to a temporary name
and is renamed, hence one step; RDP appends are put-if-absent.

Actions follow the code: `ListOpenJobs` and `ResumeJob` (repair), `PublishBatch`
(a new batch, or one offered again), `EnterBatch` (the marker decides between
going on and replaying), then each write and each saved stage, up to
`PersistSchedule`, `WriteReceipt` and `UnlinkOpen`. Where the code raises
(missing artifact, missing record, publication not proven) the model goes to
`raised`. Not modelled: the migration of oversized legacy jobs, the
SNAPSHOT_PLUS_DELTA layout, two publishers at once.

### AccountBudget

State. Durable: `acts`, `members` and `policies` (the commissioned account and the
revisions of its limits), the counters `dayUsed` and `lifeUsed` of each
activation. The running tick has its own copy of the counters (`mem`), as
`_Accounting` has. `made`, `total`, `gated`, `base` are what really happened.

Actions. `OpenTick` loads the counters, and switches the day as `_refresh_day`
does. The gate (`GateOpen`: local caps and `SharedGateOpen`, which reads
binding, policy and the sum over the members afresh) is in `ReserveCall`, where
an episode tick also debits, and in `GateCall` of an observation tick, which
debits in `NoteCall` when the call has returned. `PrepareBudget`, `ApplyBudget`,
`CommissionBudget` are the two-phase command of the operator, `AskRevision` and
`ReviseBudget` the change of limits, `CheckInsert` and `InsertActivation` a
lifecycle command that inserts a row without the lease in between. `Midnight` may come at any step.

### ActivationLifecycle

State. `row` is an activation's row with the payload of its last transition,
`events` the transitions recorded in the research log, `rollovers` the cutovers,
`work` whether an activation has open rows or jobs, `lease` the holder of the
writer lease, `proc` the command or tick of each process.

Actions. A command is read and checked (`Activate`, `Pause`, `Resume`, `Abort`,
`StopIntake`, `Rollover`), looks at the lease (`Fence`), makes its transaction and
appends its event (`AppendEvent`): three steps between which ticks and other
operators run, a crash may fall, and an append may be refused as WRITER_BUSY. A
repeated command repairs what an interrupted one left out. `commands` of a family says
which process gives which command. One of the processes may be the renewal timer
(`configs/factory_remote_ops/factory-same-envelope-renewal.timer`, daily): `same_envelope_renewal.py` decides
whether the active activation is near its end, registers and authorises the shifted schedule,
and calls `rollover_schedule`, beside whatever an operator does. Of this the model has the
rollover. Unlike an operator it holds the lease meanwhile, which only removes
interleavings, and it goes by the instant at which it started, up to 600 seconds before it
got the lease; what it read then it reads again, so the wait can only make it refuse. A tick reads the row
(`TickStart`), takes the lease, passes the proof gates (`Evidence`,
`TransitionProven`), admits (`TickAdmit`), is blocked or stops intake, settles
due work, and completes a drained activation. Registration, authority receipts
and grants (taken as live) and snapshot materialisation are left out; time is
the instants at which the windows of the family change.

### EpisodeRounds

State. `rounds` (state, durable plan, outcome), `calls` (the ledger, one occurrence
per round and source), `adm` (admissions), `state` and `protected` of the
activations and mints; `tick` is the running tick.

Actions. `Survey` and `Recover` are `recover_unresolved_rounds`, `Decide` and
`Nominate` choose and resume the round of the instant, `CallStart` / `CallSettled` /
`CallComplete` one source, `Frame` builds the frame and records the plan before
the first admission, `Admit` is one winner's transaction
(`commit_episode_admission`, which counts the lineage's ceilings afresh), `Close`
the outcome. One cycle and one day are modelled; mints are numbers in ticket order.

### EpisodeSlots

State. `slot` (due state and recorded call), `ledger`, `outbox`, `registered`, and
the panel's `accepted`, `visible`, `done`.

Actions. A tick runs the steps of `Program` in the order of `run`: pass over the
slots (settle what has an intent from the ledger, censor what is late, claim and
batch the rest, record the intents one commit at a time, start, send, complete and
apply), repair of the panel's open jobs, admission of the witness, publication of
the outbox (register, accept, show, finish, mark). `Crash` leaves what is
committed. A stored body may be missing at recovery (`MayLoseRaw`).

### ResearchWriterLock

State. The file system: `lock` (the inode the name refers to), `quar` (quarantine
links), `artifacts`, `written` and `expired` leases; the processes: `owner`,
`live`, `mine`, `seen`, `claimed`. One action per system call another process can get in
between of: O_EXCL create, write, read, pid probe, link, compare, artifact, second
stat, unlink, release. `stray` records that a name was unlinked which referred to
another file than the one that was checked.

### ResearchAppend

State. Durable files: `parquet`, `manifests`, `index`, `pending` (the journal) and
`commissioned`; `stamp` is the stat of the manifest directory. The writer's and
the reader's locals follow. Actions are one file made durable each:
append (load, recover, check, journal, partition, manifest, index, journal gone),
preparation of the lookup, the reader's four reads without the lock, an append by a
predecessor build (`ForeignAppend`, partition and manifest only), `Crash`. Where the
code asks for the operator (a reconciliation) the writer refuses. A manifest is
visible from its link on. If its temporary file cannot be removed afterwards, the code
unlinks the manifest again, or fails in that too, and raises (`CleanupFails`); the journal
stays and the next writer recovers by what it finds. In the refinement an append therefore
settles when its temporary file is gone: `Settled` is what is visible without the
manifest that may still be taken back. The same failure at the partition comes
before anything is visible and leaves what a crash there leaves. `ForeignAppend` is one
step and succeeds.

### TradingAttempts

State. `pos` and `att` are the positions and their attempts in order, `bot` one bot per
activation epoch, `cur` the epoch in force. An attempt knows the quantity it was
prepared for, what its request really did (`done`, which no code reads), the captured
answer, a result file in the operator's inbox and its definitive result.

Actions. A tick recovers open attempts (`capture`, then the inbox), decides and
dispatches exits (prepare outside, claim inside a transaction that checks that
position and inventory are what they were), admits signals, enters, and looks at
drains; each transaction is a step. Operator commands (`Pause`, `Resume`, `Stop`,
`Close`, `Switch`, `ManualAttempt`, `Submit`, `Callback`) are one transaction each at any
time. Assumed of the environment: the operator reports what really happened, and
reports an outcome only of attempts that are not in flight; whether a quote is
fresh and when an exit point comes are free choices. Left out: the PAPER adapter, the
restore fence and external cuts, quotas and grants, runtime policies, fees and PnL,
the limit on cost basis.

## 3. The runs

| Run | Instance | Shows |
|---|---|---|
| `tick_search` | two entities in one SEARCH batch, a later point of one, both censoring policies, batch 2, claims 2, caps 2, clock 3, two crashes; fair | `OneCallPerOccurrence`, `PublishedMatchesStore`, `SearchPolicyIsComplete`, `TerminalIsFinal`, `EveryRowSettles` |
| `tick_quotes` | SEARCH, BUY and two dependent SELLs of one entity, claims 4, caps 3, one crash | `DebitsAccountForCalls`, `SellFollowsItsBuy`, `EligibilityIsSealed` |
| `lease` | two processes, lease 4, wall 2, beat 1, clock to 5, two acquisitions, any descheduling | `HeldForOneLease`, `AtMostOneStaleWrite` |
| `publish` | three batches offered in any order and again, four crashes; fair | `VisibleIsComplete`, `ImplementsPanelBatches`, `EveryOpenJobCompletes` |
| `budget` | an episode and an observation activation, local caps 2 and 3, two limits, two revisions, one midnight, one crash | `SharedBoundsHold`, `ReservedBeforeSent`, `EveryDebtIsShared` |
| `lock` | three processes, two lock files, two deaths; fair | `OneOwnerUnlessStray`, `DeadLeaseIsReclaimed` |
| `append` | two transactions of two contents that share a record id and a day, two crashes or failed clean-ups, one append of a predecessor build | `NoFalseAbsence`, `ReaderMissesNothing`, `ImplementsResearchLog` |
| `lifecycle` | one activation of either lane, one operator, one ticker, one fault; fair | `AdmitsOnlyWhenLive`, `ProvenDrainEnds`, `StopIntakeIsRepaired` |
| `handover` | one operator activates while the renewal timer rolls over, or activates a late successor, with windows that overlap, adjoin or start later; or two operators on one activation; one fault | `LogMatchesStore`, `CompleteIsProven`, `LateSuccessorIsProven`, `HandoverIsExclusive` |
| `rounds` | two activations of a lineage, one round each, three mints in overlapping answers, ceilings 2, one crash, one operator change; fair | `MatureIsSelected`, `LineageBoundsHold`, `OneRequestPerSource`, `EveryRoundResolves` |
| `slots` | two episodes, a witness and one point each, batch 2, clock 3, lost bodies, one crash; fair | `OneRequestPerSlot`, `OneRowPerSlot`, `RowsAreHonest`, `EverySlotIsPublished` |
| `trading` | two positions, two epochs with one switch, entries of two units, exits of up to two units in epoch 1 and one in epoch 2, one fault, one operator command or result file; fair | `OneOpenEntry`, `BooksMatchEffects`, `StoppedIsFlat`, `DrainEnds` |

Why the bounds are enough.

*Ticks*: batch size 2 gives batches that are full, partial, and cut by a crash; a
claim limit of 2 below the 3 rows leaves rows for a later tick; a cap of 2 is
reached; windows that overlap by one unit let two points of an entity meet in one
tick after a missed one; two crashes cover a crash while recovering from one. More
rows add more of the same: a settlement touches rows of one entity, and a call the
rows of one batch. `MaxClaims` in `tick_quotes` is large enough not to separate a
BUY from its SELL; with unequal deadlines the code does not promise their order.

*Lease*: the unit is 30 seconds, so 4/2/1 are the code's 120 s lease, 60 s wall and
30 s slice. A second token is what is needed to replace a lease and a clock of 5 to
outlive one. *Publication*: a batch in hand, one left by a crash and a third to
accept too early; a job can be cut at several stages. *Budget*: the smallest
instance in which one member spends what the other was promised, with a limit
raised and lowered. *Lock*: the stray unlink happens with two files; a third is
what two owners at once need. *Append*: a replay, a conflict of contents, a
conflict of record ids, two files of one day, and a manifest taken back and appended
again. *Slots*: two slots share a call
and a crash splits them. For these six the proofs remove the bounds, except for
the liveness named in section 5.

*Lifecycle*: every pair of writes of a command with one fault between them, two
commands at once, and every overlap of two windows that the clock of 3 instants
can tell apart. One activation is enough where the property is of one. *Rounds*:
overlapping answers make the same mint a candidate twice, and each ceiling binds
with two activations. *Trading*: two positions are what is needed for a second
entry to be held back, two epochs for a switch; exits of one unit give a position
with a first leg settled and a second open. One fault and one command meet at every
step of a tick; sequences of three operator commands on one attempt are not reached.

Deadlock is checked where `CHECK_DEADLOCK FALSE` is absent. It is there where a
bounded clock or bounded files really end the behaviour: `lease`, `lock`,
`lifecycle`, `handover`, `rounds`, `slots`.

Some statements are only of undisturbed runs: the outAmount half of
`SellFollowsItsBuy`, and `EligibilityIsSealed`. The code has no recovery for these:
a quote recovered from the ledger skips the X phase, and a crash between an OBSERVED
BUY and the propagation leaves the SELL without its amount. In the same way
`published_rows` is in memory only, so a crash before the first job file loses
settled rows from the panel (`PublishedMatchesStore` says only that what is published is true). No document promises more.

Fairness. The timer (`OnUnitInactiveSec=15s`) starts a tick whenever none runs, and a
tick is sequential code whose every wait is bounded (the wall deadline, SQLite's
busy timeout), so a step that stays enabled is taken; the choice between its
outcomes (answers, pace, transport) stays free. Crashes, deaths, faults and operator
commands are never fair and always bounded.

| `FairSpec` of | asks for | why |
|---|---|---|
| `ObservationTick`, `EpisodeSlots` | weak fairness of the tick and of time | as above |
| `PanelPublication` | the start of a tick, the resumption of open jobs, the publisher's steps; nothing of `PublishBatch` | new batches need not come |
| `EpisodeRounds` | the running tick, time; strong fairness of each activation's ticks | the timer serves every activation, and others' ticks come in between. `EveryRoundResolves` assumes that the activation is not left paused |
| `ResearchWriterLock` | every live process goes on and comes back, leases expire | writers are the timer's ticks and repeated commands |
| `ActivationLifecycle` | started ticks and commands go on, a dead holder's lease expires, due work is settled in the end (every row has a deadline), an interrupted stop-intake is repeated until it finds the lease free | the command is documented as repeatable; strong fairness because ticks take the lease in between |
| `TradingAttempts` | the loop starts ticks, a running tick goes on, an exit point is judged due in the end | `run` loops; exit points are instants. `DrainEnds` assumes that outcomes only the operator can tell are told |

Each property has a mutant: a named operator just before the definition it
replaces, the way that code could plausibly be wrong, under which TLC finds the
property violated.

## 4. Where the code and its documents differ

While modelling, the following claims of documents and comments turned out not to
hold of the code. Each is stated as a definition, beside the guarantee the code does
give; adding it to the named configuration (with the changes given) makes TLC
print the counterexample.

1. **A completed SEARCH call is repeated after a crash.** `NoCallIsReplayed` in
   `tick_search`. The occurrence of a batch call is derived from the rows still
   live. Cut between two rows of a completed batch, the next tick batches the rest,
   an occurrence the ledger has never seen, and calls again.
   `docs/tasks/DECLARATIVE_OBSERVATION_SCHEDULE_BRIDGE_V1.md:190-192` promises restart
   "without replaying an external call". `OneCallPerOccurrence` is what holds.
2. **A tick raises after a missed tick.** `TickNeverRaises` in `tick_search` with claims
   and caps 3 and no crash. Quote rows are read again before their call
   (`observation_scheduler.py:1881-1884`), SEARCH rows are not (`:1806`). Two points
   of an entity claimed together: the first one's policy censors the second, and
   the second's own settlement raises DENY_RETROACTIVE_MUTATION
   (`observation_schedule_store.py:1873`) out of the tick, losing `published_rows`.
   The same document promises to survive missed ticks. `TerminalIsFinal` is what
   the exception protects.
3. **An in-budget call fences itself.** `NoSelfFence` in `lease` with `Prompt = TRUE`,
   `Horizon = 6`. A renewal sets the expiry to its clock argument + 120 s, and
   most writes pass the tick's start. A write after a long call moves the expiry
   back, and the heartbeat of a later call finds its own lease expired.
   `observation_schedule_store.py:732-733` and `825-826` say this cannot happen.
   `HeartbeatKeepsTheLease` says when it does not: if the call begins a slice
   before the tick is 120 s old.
4. **One write after the lease is lost.** `NoStaleWrite` in `lease`, also with
   `Prompt = TRUE`. Check and renewal commit before the mutation's own transaction, which
   does not look at the lease, so "Fence mutations after another process replaces or
   expires our lease" (`observation_schedule_store.py:730`) does not hold of the write
   in hand. `AtMostOneStaleWrite` bounds it.
5. **Two owners of the research writer lock.** `OneOwner` in `lock` with `MaxInodes = 3`.
   The inode is compared and then the name is unlinked; a slower recovery of the
   same dead lease removes the faster one's new lock, and a third process creates
   another. `docs/tasks/RESEARCH_STORE_STALE_WRITER_LEASE_RECOVERY_V1.md:189`: "At most one process may
   successfully own the research writer lease." `OneOwnerUnlessStray` says this is the only way.
6. **A lock without a lease is never reclaimed.** `DeadOwnerIsReclaimed` in `lock`. A
   process that dies between O_EXCL and the write of its lease leaves a file that
   names no owner; the same document, line 95, says a dead process "must not be
   able to leave the research write path permanently stuck in `WRITER_BUSY`".
   `DeadLeaseIsReclaimed` holds of written leases.
7. **Two admitting activations of a family.** `OneAdmitting` in `handover` with `pause`
   and `resume` among the commands of `Handover`. Pausing one activation,
   activating another and resuming the first: only activation looks at the rest of
   the family. `docs/operator/FACTORY_LIFECYCLE_COLLECTOR.md:338`: "at most one
   same-family admitting activation at any time". `HandoverIsExclusive` covers the rollover.
8. **A prepared predecessor is refused.** `PreparedPredecessorAdmits` in `handover`. Activated before
   `starts_at`, its ACTIVE event is outside the window the proof gate reads; the same
   document, line 48, says "Before `cutover_at`, the predecessor still has
   effective `ACTIVE` admission".
9. **A tick admits into a paused observation activation.** `AdmitsOnlyWhenLive` without
   its condition `EpisodeLane`, in `lifecycle`. The tick keeps the state it read before the lease
   (`observation_scheduler.py:1190`);
   `docs/reports/factory_launchpad_population_contract_repair/a1_owner_readout_v1.md:7`
   says paused semantics block provider calls. The episode lane checks again.
10. **A discovery stop undoes an abort.** `DiscoveryStopIsNoTransition` in `handover` with
    `abort` among the commands. The stop is written from the state read
    before; `observation_scheduler.py:1139`: "Record a discovery stop on a DRAINING
    row without a lifecycle transition."
11. **An unknown outcome is written as CENSORED.** `UnknownIsIndeterminate` in `slots`.
    `docs/contracts/opportunity_episodes_jupiter_v1.md:173` names
    IN_FLIGHT_CALL_INDETERMINATE; `RowsAreHonest` holds with the code's name.
12. **A visible record is taken back.** `NothingTakenBack` in `append`. When the temporary file of a
    manifest cannot be removed, the manifest just linked is unlinked again
    (`research_store.py:1103-1111`), after readers could see it, and the retry may have other
    contents. `docs/tasks/HYPOTHESIS_FAST_LANE_AND_RESEARCH_DATA_PLANE_V1.md:170`: "Durable research
    history is append-only." `ImplementsResearchLog` is what holds: no other record is ever
    taken back, and none is appended before this one is decided.

## 5. The proofs

TLAPS proves the following for all values of the constants that satisfy the
ASSUMEs of the modules (`RowsAssumption`, `BoundsAssumption`, `LeaseAssumption`,
`BatchAssumption`, `BudgetAssumption`, `LockAssumption`, `AppendAssumption`,
`SlotsAssumption`, `RoundsAssumption`, `TradingAssumption`): sizes positive, caps
natural, 0 < beat <= wall < lease with two beats to a lease, positions numbered, and so
on. Every component has an inductive invariant, proved action by action, from which its
theorems follow; TLC found each of them to hold on the component's run before its proof
was begun. Every safety invariant and every action property of a run is the subject of a
theorem, but for the two of `ActivationLifecycle` named at the end of this section. Two of
that module's theorems have a hypothesis beyond the assumptions on the constants, which its
paragraph explains.

**ObservationTickProofs**: `TickTypeCorrect`, `TickCallsOnce`,
`TickObservesAnswers`, `TickPublishesTheStore`, `TickQuotesAreCurrent`,
`TickTerminalIsFinal`, `TickSearchPolicy`, `TickDebits`, `TickEligibility`,
`TickSellsFollow`, from `TickSafety`:

- `TickInv`: `TypeOK` and `PhaseOK`, which ties the locals to `pc` (a call in
  progress has a nonempty `occ`, a row being settled is one row, a verdict is
  terminal);
- `CallsOK`: a call reached the provider only if its ledger row says STARTED or
  COMPLETED, and at `pc = "call"` it has not yet. This is why start_call must
  commit before the call: without it `OneCallPerOccurrence` is not inductive;
- `AnswersOK`: at `settle` and after, the row in hand is classified from the
  stored answer of a completed occurrence that contains it;
- `PanelOK`: the swept rows are CENSORED, the row past its insert has its
  verdict. With the finality of terminal states, panels cannot drift;
- `QuotesOK`: a quote in hand is still CLAIMED up to its call, as nothing else
  is settled between reading it again and calling;
- `PolicyOK`: a SEARCH row that censors its entity has censored it before its own
  terminal row is written, in the order of `ApplyPolicy` and `InsertTerminal`;
- `DebitOK`: the calls made and the debits differ by at most one for every crash, and by
  the one that is between return and debit; the debit under way still fits under the cap;
- `EligibleOK`: without a crash the X phase of an entity and the fate of its rows agree
  between ticks, and inside the phase where they may differ (`SealedFor`);
- `HoldOK`, `BuyOutOK`: where the rows are that the tick holds, and that an observed BUY
  has reached the open SELLs of its entity.

`TickSellsFollow` rests on `ClaimsUnsplit`, that the claim limit is no smaller than the set of
rows, and on `OrderOK`: while a SELL is to come, every matured BUY is settled or held.
The hypothesis is met by the run `tick_quotes` (four rows, claims 4) and by a collector
with at most `max_claims` (60 by default) rows. Without it the property is false of the code:
rows that a tick hands back one by one when it stops half way, cut by a crash, leave
a SELL claimed and its BUY PENDING, and the next claim may be used up by earlier deadlines.

**OpsStoreProofs**, the lease: `LeaseTypeCorrect`, `LeaseHeldForOneLease`,
`LeaseAtMostOneStaleWrite`, `LeaseAuditKeepsTheLease`,
`LeaseHeartbeatKeepsTheLease`, from `LeaseInv`: `LeaseTypeOK`; `TokensAreFresh` (a
token is held by one process, none exceeds `minted`); `ExpiryCoversTick` (while
the row has a ticking process's token, it expires no earlier than its start +
lease, because no clock argument is before the start); `LostOnlyByExpiry`;
`StaleMeansLost` (a stale write is only possible once the token is gone from the
row, and then no check passes again); `AuditKeepsTheLease`; `BeatsBeforeExpiry`.

**ResearchStoreProofs**, the publication: `PublicationTypeCorrect`,
`PublicationVisibleIsComplete`,
`PublicationCompletedIsRecorded`, `PublicationNeverInconsistent` from `PubInv`:
`PanelTypeOK`; `OpenIsBacked` (a stage saved in a job file is backed by everything
that precedes it), `WrittenAt` and `StageAt` (at each `step`, what has been written
for `batch` and which stage is in memory and on disk), `InHand` (a running tick has
every open job in hand or still listed for repair, and starts a new batch only
when none is left), and the three properties. From it
`PublicationImplementsPanelBatches`: `PanelRefinementStep` shows that every step is
`Accept` (the first saved job), `Show` (the marker), `Finish` (the unlink) or a
stutter. In particular no batch is accepted while another is open, which is the
reason repair must come before publication.

**OpsStoreProofs**, the budget: `BudgetTypeCorrect`, `BudgetReservedBeforeSent`,
`BudgetEveryDebtIsShared`, `BudgetDebtIsNeverReset` from `BudgetInv`: `TypeOK`;
`LeaseOK` (who may be in which step); `MemOK` (the tick's counters are those of the
store, which is what makes writing them back safe); `CallOK` (an episode call in
flight has been debited); `MemberOK` (once commissioned, every counter that is not
zero belongs to a member, whoever is past the gate is one, and a plan about to be
committed names everyone who has spent; an activation inserted in between is no
member and cannot spend). `DebitAddsOne` is the lemma about the debit.

`BudgetSharedBounds` needs a second invariant, `SpentInv`, inductive on the strength of the
first: `ActsOK` (only an activation that has a row is a member, is between gate and
debit, or has spent), `SumsOK` (an activation's lifetime counter is the sum of its
days), `CountOK` (the calls made, and those let through today, exceed the sum of the
counters by at most the call in hand and one call for every crash, since an observation
tick debits after the call), and `BoundOK` (some limit the account was
ever granted, or what had been spent before there was one, covers the calls made and
the one let through, again but for one per crash). The step that matters is the gate's:
it compares the sum over the members with the limit, and by `EveryDebtIsShared` that sum is the
sum over all activations.

**ResearchStoreProofs**, the lock: `LockTypeCorrect`, `LockOneOwnerUnlessStray`,
`LockRecoveryIsAudited` from `LockInv`: `LockTypeOK`;
`OwnerIsOnDisk` (without a stray unlink the file of whoever holds the lock is the
one the name refers to); `RecoversTheDead` (a recovery that is past its probe is
about a dead process, and its artifact precedes the unlink); `FilesAreMinted`
(inode numbers are fresh).

**ResearchStoreProofs**, the append: `AppendTypeCorrect`, `AppendVisibleHasItsPartition`,
`AppendNoFalseAbsence`, `AppendReaderMissesNothing`, `AppendRecoversByItself` and the
refinement `AppendImplementsLog`, from `AppendInv`: `TypeOK`, the properties
themselves; `Exact` (an index that carries the directory's present stamp lists exactly
the manifests); `JournalExact` (the same of both sides of the journal on disk and of
the one the reader holds); `ViewOK` and `WriterJournal` (what the writer knows at
each `pc`); `ReaderOK`; `RecoveryOK` (a journal is decidable unless the directory
moved on under it); `UnsettledOK` (while a manifest is linked and its temporary file not yet gone,
no index, journal or stamp that anyone holds carries the directory's present stamp, so
nobody has concluded anything from a record that may still be taken back); `Forsaken` (a
reader that began while such a record was visible cannot confirm the stamp any more).

**ActivationLifecycleProofs**: `LifecycleTypes`, `LifecycleAdmitsOnlyWhenLive`,
`LifecycleLogMatchesStore`, `LifecycleCompleteIsProven`,
`LifecycleDrainedHandoverIsExclusive`, for families of any number of activations, windows,
commands and faults. `LogMatchesStore` and `CompleteIsProven` need `OneTicker`, one tick at
a time, which the timer keeps: its service is a oneshot. Without it a tick that read ACTIVE before
the lease admits members after another completed the activation, and a
discovery stop written over the stop of another leaves a DRAINING row without its
transition. The other three have no hypothesis.

- `BaseInv`: `TypeOK` and `JobOK`, which ties what a command or tick has in hand to its stage
  (a command that was given names an activation, the instant read is not in the future).
- `LogInv`, for the log: `InStep` is `LogMatchesStore` of one event, stated of `Said`, the events in the log
  together with those that processes still hold, because the append comes after the commit and what is
  held has to stay right while ticks and other operators write the same row. `IdsOK`: two
  events of one transition are the same one, also if one of them is a repeated command's.
  `BusyOK`: the row of the activation the ticker is in is neither BLOCKED nor COMPLETE. This is the
  part that needs one ticker: nobody else makes such rows, so what the ticker writes over is what it read.
- `Sealed`, for the rollover: the rollover is recorded and its predecessor is `Gone`, in a state from
  which no transition leads back to ACTIVE and which is in force from the cutover on at the
  latest. Before the cutover a rollover holds its successor back, from then on its
  predecessor (`SealedExcludes`), and no step of any process undoes it (`GoneStep`): a
  repeated transition replays the stored row, the others take effect at once, and what a
  tick writes of a row it read earlier is never ACTIVE. It says nothing of the time before the drain is committed, and that part
  is not true of all commands (below).

**EpisodeSlotsProofs**: `TypeCorrect`, `NoSecondRequest`, `CopiesAgree`,
`RowsSayWhatHappened`, `MatureIsComplete`, from `SlotsInv`: `TypeOK`;
`AdmissionOK` (slots exist only of admitted episodes); `ClaimsOK` (what the tick
holds is CLAIMED and held once); `LedgerOK` (an intent names its slot, and a ledger
entry is the intent of every slot it was made for, so no other entry can be);
`SentOK` (a slot was sent once at most, and then its intent is in the ledger);
`CallOK`, `ApplyOK` (the call and the verdict in hand); `RowsKept` (every settled
slot has its row in the outbox or in a registered batch); `BatchOK` (which is
visible); and the properties.
`MatureIsComplete` is the statement that a cohort that passes the maturity gate is
complete, also for cohorts larger than any run could hold.

**EpisodeRoundsProofs**: `MatureSelection`, `LineageBounds`, `OneRequest` from
`RoundsInvariant`: `TypeOK`; `TickOK` (the tick works on a STARTED round and counts as
resumed if that round ever lost a tick); `PlanOK` (admissions are winners of the
durable plan, and a cut round has one, because the plan is recorded before the first
admission); `OutcomeOK` (the terminal of a cut round tells whether its selection is
whole); `CallOK` (a request the ledger does not know was never sent); `BoundOK`. The ceilings are
about cardinalities: the quota is positive only while each ceiling has room
(`PositiveQuota`), and one admission adds one element to each of the sets that
are counted. That the plan's quota was computed earlier, of another count, does not
matter, because the transaction of each winner counts afresh.

**TradingAttemptsProofs**: `TradingTypes`, `OneEntryIsOpen`, `BooksAreTrue`,
`StoppedBotsAreFlat`, from `TradingInvariant`:

- `LedgersOK`: for each position its `Ledger`, a relation of one row and one sequence:
  `OrderOK` (the entry comes first, only the last attempt may be open, results and
  captured answers are true), `BookOK` (entered and left are those of the settled
  attempts, and an open exit was asked for exactly what is left) and `StateOK` (a settled
  position has no open attempt and nothing left). `BookOK` is where the claim's
  comparison of the prepared request with the inventory is needed: an exit prepared before
  another one settled would be open for more than is left;
- `HandOK`: what a tick has in hand between its transactions. The request about to be sent is for
  an attempt that is open and has done nothing, no one can settle it before it is sent,
  and the answer in hand is unknown or true, also after the operator settled
  the attempt first;
- `StopOK`: a STOPPED bot's positions are settled, which the steps keep because only a bot
  that may enter gets a position (`Flat`, `Enters`);
- `OneEntry`: the transaction that begins an entry finds no other open one (`EnvelopeAllows`).

The lemmas come in three layers: what one change does to one ledger (`EntryAppended`,
`ExitAppended`, `Touched`, `EntrySettled`, `ExitSettled`, `StateMoves`), what a change of one position does to
all (`OneMoves`, `StatesMove`, `AttemptTouched`, `AcceptsOK`), and one lemma per action. The sums of
`BooksMatchEffects` are connected to `Sold` by `EffectIsSum`.

**SumTheorems**: sums over finite sets exist, are unique and integral, split off an element, and
depend on the summed values alone. The library's induction theorems take the
predicate as a parameter, which the provers cannot instantiate; each lemma therefore
considers the set of counterexamples and one that is smallest under inclusion
(`SmallestSubset`), which exists because the order of the naturals is well founded.

Only model-checked:

- liveness (`EveryRowSettles`, `EveryOpenJobCompletes`, `DeadLeaseIsReclaimed`,
  `ProvenDrainEnds`, `StopIntakeIsRepaired`, `EveryRoundResolves`, `EverySlotIsPublished`,
  `DrainEnds`): out of the prover's reach;
- `HandoverIsExclusive` and `LateSuccessorIsProven`. They hold of the families of `handover`, and the
  code does not promise them of every family. Beside a rollover that has not drained its
  predecessor yet, a pause and a resume make both sides ACTIVE, also if two processes give the
  commands; so does a chain of rollovers that ends where it began, one of them cut by a crash
  between its record and its drain; so do two operators who activate the two sides at once,
  each before the other's commit, and a rollover cut in the same place. What holds of them all,
  from the commit of the drain on, is `DrainedHandoverIsExclusive`;
- what the runs say of a bounded instance beside those properties: that every action is reached,
  and the counterexamples of section 4.

## 6. Plan

In order of importance.

1. `Admission`: poll slots, `_admit_candidates`, `_enqueue_points`,
   `_apply_authoritative_anchor`, as the producer of the rows `ObservationTick`
   starts from.
2. `RestoreGap`: `restore_from` as a loss of committed state, and which guarantees
   of `ObservationTick` survive it; with it the restore fence of the paper plane.
3. Overlapping publishers (the stale write of `ScheduleLease` carried over to
   `PanelPublication`), snapshot/delta units, retention cutover.
4. The PAPER adapter and the quotas of the trading coordinator.

## 7. Not modelled

The map covers a small share of the repository's lines, because most of them hold no
protocol: the hypothesis forge and the `hfic_*` modules are statistics over frozen
inputs, the workbench renders, the campaigns and most of `scripts/` are one-off or
command-line programs that run alone, the transports are HTTP clients whose answers are a free choice
here, and managed collection drives systemd and the host. A state machine of such
a program would say nothing a unit test does not. What has state that survives a
crash or is shared between processes is in the table of section 1, and there the
parts still missing are: discovery and admission, backup and restore, the
snapshot/delta layout, archive and eviction, and of the modelled components the
parts their subsections name.

Known behaviours of modelled code that no property states: after a restart the identity of a
batch call depends on which rows are still live (section 4, item 1); quotes recovered from
the ledger are committed in the order of the claims, not of the first calls; two publishers at once are
excluded by the lease only as far as `ScheduleLease` says.
