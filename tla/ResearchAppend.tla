--------------------------- MODULE ResearchAppend --------------------------
(***************************************************************************)
(* ResearchStore.append with its prepared write lookup (research_store.py, *)
(* research_write_lookup.py): the Parquet partition, the pending journal,  *)
(* the manifest that makes it visible and the derived index, one action    *)
(* per file made durable; the explicit preparation; a reader without the   *)
(* writer lock; and a predecessor build that ignores the index.            *)
(*                                                                         *)
(* The writer lock is taken for granted here (see ResearchWriterLock).     *)
(* The index is the set of manifests it points to.  `stamp` stands for the *)
(* stat of the manifest directory, which every temporary file, link and    *)
(* unlink in it changes.                                                   *)
(***************************************************************************)
EXTENDS Naturals, FiniteSets

CONSTANTS
    Txns, Contents,   \* transaction ids, and what may be appended under one
    RecordIds(_, _),  \* the record ids of a content
    Day(_, _),        \* its event date, which is part of the file name
    MaxCrashes,       \* bound on crashes and failed clean-ups
    MaxForeign        \* bound on appends by a predecessor build

ASSUME AppendAssumption == MaxCrashes \in Nat /\ MaxForeign \in Nat

Commits == Txns \X Contents
Views == [ms : SUBSET Commits, stamp : Nat]
View(ms, at) == [ms |-> ms, stamp |-> at]
NoView == View({}, 0)
NoCommit == <<>>
\* `pub` 0: the namespace stamp after publication is not recorded yet
Journal(m, prev, next, pub) ==
    [m |-> m, prev |-> prev, next |-> next, pub |-> pub]
NoPending == Journal(NoCommit, NoView, NoView, 0)
Journals == [m : Commits \cup {NoCommit}, prev : Views, next : Views, pub : Nat]

VARIABLES
    \* durable
    parquet, manifests, stamp,
    commissioned,  \* research/write_lookup_v1 exists
    index,         \* state.json; stamp 0: absent
    pending,       \* pending.json
    \* the writer
    pc, cur, view,
    indexed,       \* the writer found the lookup when it started
    \* the reader
    rpc, asked, rview, rpend,
    \* history
    floor,         \* manifests when the read began
    crashes, foreign,
    dirty          \* the directory changed since `pending`, unrecorded

files == <<parquet, manifests, stamp, commissioned, index, pending>>
writer == <<pc, cur, view, indexed>>
reader == <<rpc, asked, rview, rpend, floor>>
vars == <<files, writer, reader, crashes, foreign, dirty>>

Init ==
    /\ parquet = {} /\ manifests = {} /\ stamp = 1
    /\ commissioned = FALSE /\ index = NoView /\ pending = NoPending
    /\ pc = "idle" /\ cur = NoCommit /\ view = NoView /\ indexed = FALSE
    /\ rpc = "idle" /\ asked = NoCommit /\ rview = NoView /\ rpend = NoPending
    /\ floor = {} /\ crashes = 0 /\ foreign = 0 /\ dirty = FALSE

Idle == pc' = "idle" /\ cur' = NoCommit /\ view' = NoView /\ indexed' = FALSE

----------------------------------------------------------------------------
(* Mutant of Verdict: an absent manifest means that nothing happened. *)
BugVerdict(p) ==
    CASE p.m \notin manifests -> "previous"
      [] OTHER ->
            IF \/ stamp = p.pub
               \/ index.stamp = stamp /\ index.ms = p.next.ms
            THEN "next" ELSE "reconcile"

(* _recover_write_lookup: which side of the journal the directory is on. *)
Verdict(p) ==
    CASE p.m \notin manifests ->
            IF stamp = p.prev.stamp THEN "previous" ELSE "reconcile"
      [] OTHER ->
            IF \/ stamp = p.pub
               \/ index.stamp = stamp /\ index.ms = p.next.ms
            THEN "next" ELSE "reconcile"

Recovered(p) == IF Verdict(p) = "previous" THEN p.prev ELSE p.next

StartAppend(m) ==
    /\ pc = "idle"
    /\ pc' = "load" /\ cur' = m /\ indexed' = commissioned
    /\ UNCHANGED <<files, view, reader, crashes, foreign, dirty>>

Refuse == Idle /\ UNCHANGED <<files, reader, crashes, foreign, dirty>>

(* Mutant of LoadIndex: the stamp of the index is not compared. *)
BugLoadIndex ==
    /\ pc = "load" /\ indexed /\ pending = NoPending
    /\ index.stamp # 0
    /\ view' = index /\ pc' = "check"
    /\ UNCHANGED <<files, cur, indexed, reader, crashes, foreign, dirty>>

(* WriteLookup.load without a journal. *)
LoadIndex ==
    /\ pc = "load" /\ indexed /\ pending = NoPending
    /\ index.stamp # 0 /\ index.stamp = stamp
    /\ view' = index /\ pc' = "check"
    /\ UNCHANGED <<files, cur, indexed, reader, crashes, foreign, dirty>>

(* Uncommissioned: every manifest is read and verified. *)
ScanManifests ==
    /\ pc = "load" /\ ~indexed
    /\ view' = View(manifests, stamp) /\ pc' = "check"
    /\ UNCHANGED <<files, cur, indexed, reader, crashes, foreign, dirty>>

(* load with a journal: the verified side becomes the index. *)
RecoverIndex ==
    /\ pc = "load" /\ indexed /\ pending # NoPending
    /\ Verdict(pending) # "reconcile"
    /\ view' = View(Recovered(pending).ms, stamp) /\ pc' = "resave"
    /\ UNCHANGED <<files, cur, indexed, reader, crashes, foreign, dirty>>

(* WRITE_LOOKUP_CORRUPT, _STALE_PREPARATION_REQUIRED,                      *)
(* _PENDING_RECONCILIATION_REQUIRED.                                       *)
LoadRefused ==
    /\ pc = "load" /\ indexed
    /\ IF pending = NoPending THEN index.stamp # stamp
                              ELSE Verdict(pending) = "reconcile"
    /\ Refuse

SaveRecovered ==
    /\ pc = "resave"
    /\ index' = view /\ pc' = "reunlink"
    /\ UNCHANGED <<parquet, manifests, stamp, commissioned, pending, cur, view,
                   indexed, reader, crashes, foreign, dirty>>

ClearPending(there) ==
    /\ pending' = NoPending /\ dirty' = FALSE /\ pc' = there
    /\ UNCHANGED <<parquet, manifests, stamp, commissioned, index, reader,
                   crashes, foreign>>

UnlinkRecovered ==
    pc = "reunlink" /\ ClearPending("check") /\ UNCHANGED <<cur, view, indexed>>

----------------------------------------------------------------------------
Existing(v, t) == {m \in v.ms : m[1] = t}
Duplicate(v, m) ==
    \E k \in v.ms : RecordIds(k[1], k[2]) \cap RecordIds(m[1], m[2]) # {}
FileConflict(m) ==
    \E k \in parquet : k[1] = m[1] /\ Day(k[1], k[2]) = Day(m[1], m[2]) /\ k # m

(* REPLAY_IDENTICAL, TRANSACTION_CONFLICT, DUPLICATE_RECORD_ID. *)
ReplayOrConflict ==
    /\ pc = "check"
    /\ Existing(view, cur[1]) # {} \/ Duplicate(view, cur) \/ FileConflict(cur)
    /\ Refuse

PublishParquet ==
    /\ pc = "check"
    /\ Existing(view, cur[1]) = {} /\ ~Duplicate(view, cur) /\ ~FileConflict(cur)
    /\ parquet' = parquet \cup {cur}
    /\ pc' = (IF indexed THEN "begin" ELSE "temp")
    /\ UNCHANGED <<manifests, stamp, commissioned, index, pending, cur, view,
                   indexed, reader, crashes, foreign, dirty>>

(* WriteLookup.begin. *)
BeginLookup ==
    /\ pc = "begin"
    /\ pending' = Journal(cur, view, View(view.ms \cup {cur}, view.stamp), 0)
    /\ pc' = "temp"
    /\ UNCHANGED <<parquet, manifests, stamp, commissioned, index, cur, view,
                   indexed, reader, crashes, foreign, dirty>>

(* _publish_immutable of the manifest: temporary file, link, unlink.  From *)
(* the link on readers can see it.                                         *)
Touch(here, there) ==
    /\ pc = here /\ pc' = there
    /\ stamp' = stamp + 1
    /\ dirty' = (dirty \/ indexed)
    /\ UNCHANGED <<parquet, commissioned, index, pending, cur, view, indexed,
                   reader, crashes, foreign>>

TempManifest == Touch("temp", "link") /\ UNCHANGED manifests
LinkManifest == Touch("link", "untemp") /\ manifests' = manifests \cup {cur}
UnlinkTemp == Touch("untemp", IF indexed THEN "published" ELSE "done")
              /\ UNCHANGED manifests

(* The temporary file cannot be removed: the name just linked is unlinked  *)
(* again, or that fails too, and the append raises.  (The same failure at  *)
(* the partition comes before anything is visible: a Crash at "check".)    *)
CleanupFails ==
    /\ pc = "untemp" /\ crashes < MaxCrashes
    /\ crashes' = crashes + 1
    /\ \/ manifests' = manifests \ {cur} /\ stamp' = stamp + 1
       \/ UNCHANGED <<manifests, stamp>>
    /\ dirty' = (dirty \/ indexed)
    /\ Idle
    /\ UNCHANGED <<parquet, commissioned, index, pending, reader, foreign>>

(* WriteLookup.published. *)
RecordStamp ==
    /\ pc = "published" /\ pc' = "save" /\ dirty' = FALSE
    /\ pending' = Journal(pending.m, pending.prev, pending.next, stamp)
    /\ UNCHANGED <<parquet, manifests, stamp, commissioned, index, cur, view,
                   indexed, reader, crashes, foreign>>

(* WriteLookup.finish: state.json, then the journal goes. *)
SaveIndex ==
    /\ pc = "save" /\ pc' = "unlink"
    /\ index' = View(pending.next.ms, stamp)
    /\ UNCHANGED <<parquet, manifests, stamp, commissioned, pending, cur, view,
                   indexed, reader, crashes, foreign, dirty>>

UnlinkPending ==
    pc = "unlink" /\ ClearPending("done") /\ UNCHANGED <<cur, view, indexed>>

EndAppend == pc = "done" /\ Refuse

(* The process dies; the writer lock is reclaimed. *)
Crash ==
    /\ pc # "idle" /\ crashes < MaxCrashes
    /\ crashes' = crashes + 1
    /\ Idle
    /\ UNCHANGED <<files, reader, foreign, dirty>>

----------------------------------------------------------------------------
(* prepare_write_lookup: full audit, nodes, state.json, journal removed. *)
PrepareLookup ==
    /\ pc = "idle" /\ pc' = "prepare"
    /\ commissioned' = TRUE
    /\ view' = View(manifests, stamp)
    /\ UNCHANGED <<parquet, manifests, stamp, index, pending, cur, indexed,
                   reader, crashes, foreign, dirty>>

SavePrepared ==
    /\ pc = "prepare" /\ pc' = "prepared"
    /\ index' = view
    /\ UNCHANGED <<parquet, manifests, stamp, commissioned, pending, cur, view,
                   indexed, reader, crashes, foreign, dirty>>

UnlinkPrepared ==
    pc = "prepared" /\ ClearPending("done") /\ UNCHANGED <<cur, view, indexed>>

(* The predecessor build appends after a rollback: no index, no journal. *)
ForeignAppend(m) ==
    /\ pc = "idle" /\ foreign < MaxForeign
    /\ \A k \in manifests : k[1] # m[1]
    /\ ~Duplicate(View(manifests, stamp), m) /\ ~FileConflict(m)
    /\ parquet' = parquet \cup {m} /\ manifests' = manifests \cup {m}
    /\ stamp' = stamp + 1 /\ foreign' = foreign + 1 /\ dirty' = TRUE
    /\ UNCHANGED <<commissioned, index, pending, writer, reader, crashes>>

----------------------------------------------------------------------------
(* _existing_transaction(read_only_pending) of a process without the lock. *)
ReaderIdle == /\ rpc' = "idle" /\ asked' = NoCommit /\ rview' = NoView
              /\ rpend' = NoPending /\ floor' = {}

StartRead(t) ==
    /\ rpc = "idle" /\ commissioned
    /\ asked' = t /\ floor' = manifests
    /\ rpend' = pending
    /\ rpc' = (IF pending = NoPending THEN "state" ELSE "verify")
    /\ rview' = View({}, stamp)
    /\ UNCHANGED <<files, writer, crashes, foreign, dirty>>

ReadState ==
    /\ rpc = "state"
    /\ rview' = index /\ rpc' = "stamp"
    /\ UNCHANGED <<files, writer, asked, rpend, floor, crashes, foreign, dirty>>

ReadPending ==
    /\ rpc = "verify" /\ Verdict(rpend) # "reconcile"
    /\ rview' = View(Recovered(rpend).ms, rview.stamp) /\ rpc' = "stamp"
    /\ UNCHANGED <<files, writer, asked, rpend, floor, crashes, foreign, dirty>>

(* Mutant of ReadStamp: the directory is not looked at once more. *)
BugReadStamp ==
    /\ rpc = "stamp" /\ rview.stamp # 0
    /\ rpc' = "answer"
    /\ UNCHANGED <<files, writer, asked, rview, rpend, floor, crashes, foreign, dirty>>

ReadStamp ==
    /\ rpc = "stamp" /\ rview.stamp # 0 /\ rview.stamp = stamp
    /\ rpc' = "answer"
    /\ UNCHANGED <<files, writer, asked, rview, rpend, floor, crashes, foreign, dirty>>

(* The answer is used, or the read was refused. *)
EndRead ==
    /\ \/ rpc = "answer"
       \/ rpc = "verify" /\ Verdict(rpend) = "reconcile"
       \/ rpc = "stamp" /\ rview.stamp # stamp
    /\ ReaderIdle
    /\ UNCHANGED <<files, writer, crashes, foreign, dirty>>

Next ==
    \/ \E m \in Commits : StartAppend(m) \/ ForeignAppend(m)
    \/ LoadIndex \/ ScanManifests \/ RecoverIndex \/ LoadRefused
    \/ SaveRecovered \/ UnlinkRecovered
    \/ ReplayOrConflict \/ PublishParquet \/ BeginLookup
    \/ TempManifest \/ LinkManifest \/ UnlinkTemp \/ CleanupFails
    \/ RecordStamp \/ SaveIndex \/ UnlinkPending \/ EndAppend
    \/ Crash
    \/ PrepareLookup \/ SavePrepared \/ UnlinkPrepared
    \/ \E t \in Txns : StartRead(t)
    \/ ReadState \/ ReadPending \/ ReadStamp \/ EndRead

Spec == Init /\ [][Next]_vars

----------------------------------------------------------------------------
Journalled == {"temp", "link", "untemp", "published", "save", "unlink"}

(* Every variable keeps to its values, and an indexed append has a journal *)
(* from before its manifest until its index is saved.                      *)
TypeOK ==
    /\ parquet \subseteq Commits /\ manifests \subseteq Commits
    /\ stamp \in Nat \ {0} /\ commissioned \in BOOLEAN
    /\ index \in Views /\ view \in Views /\ rview \in Views
    /\ pending \in Journals /\ rpend \in Journals
    /\ cur \in Commits \cup {NoCommit} /\ indexed \in BOOLEAN
    /\ pc \in Journalled \cup {"idle", "load", "check", "resave", "reunlink",
                               "begin", "done", "prepare", "prepared"}
    /\ indexed /\ pc \in Journalled => pending.m = cur
    /\ rpc \in {"idle", "state", "verify", "stamp", "answer"}
    /\ (rpc # "idle" => asked \in Txns) /\ floor \subseteq Commits
    /\ crashes \in Nat /\ foreign \in Nat /\ dirty \in BOOLEAN

(* What is visible can be read: no manifest without its partition. *)
VisibleHasItsPartition == manifests \subseteq parquet

(* A writer past the load of the index sees exactly what is committed: a   *)
(* journal, a preparation cut short or a predecessor's append never turns  *)
(* into an absence.                                                        *)
NoFalseAbsence ==
    pc \in {"resave", "reunlink", "check", "begin"} => view.ms = manifests

(* A reader without the lock does not miss what was committed before it    *)
(* began, and finds nothing that is not committed.                         *)
ReaderMissesNothing ==
    rpc = "answer" =>
        /\ Existing(rview, asked) = {} => \A m \in floor : m[1] # asked
        /\ Existing(rview, asked) \subseteq manifests

(* Only a directory change that the journal does not know of needs the     *)
(* operator: any other crash is recovered by the next append.              *)
RecoversByItself ==
    pc = "idle" /\ pending # NoPending /\ ~dirty => Verdict(pending) # "reconcile"

(* An append settles when its temporary file is gone, or when it died.     *)
Settled == IF pc = "untemp" THEN manifests \ {cur} ELSE manifests

Log == INSTANCE ResearchLog WITH log <- manifests, settled <- Settled

(* The appends implement the log: one content per transaction and one      *)
(* transaction per record id, whatever is replayed after a crash or a      *)
(* failed clean-up; only the record of the append whose own clean-up       *)
(* failed is ever taken back, and no other may be appended beside it.      *)
ImplementsResearchLog == Log!Spec

(* docs/tasks/HYPOTHESIS_FAST_LANE_AND_RESEARCH_DATA_PLANE_V1.md: "Durable *)
(* research history is append-only."  The code does not ensure it for a    *)
(* moment: a failed clean-up unlinks a manifest that readers could see.    *)
NothingTakenBack == [][manifests \subseteq manifests']_vars
============================================================================
