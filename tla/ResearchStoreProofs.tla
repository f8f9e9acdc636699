------------------------ MODULE ResearchStoreProofs ------------------------
(***************************************************************************)
(* Proofs about the research store: the append and its lookup index, then  *)
(* the lock file that admits one writer, then the staged publication of    *)
(* panels, which appends to that store.                                    *)
(*                                                                         *)
(* The inductive invariant of the append says that whatever carries the    *)
(* present stamp of the manifest directory (the index, either side of the  *)
(* journal, the writer's view, a reader's copy of one of them) holds       *)
(* exactly the committed manifests.  That of the lock holds for any number *)
(* of processes, lock files and deaths.  That of the publication says what *)
(* each stage name on disk vouches for, and where the one open job is; for *)
(* any set of batches and any number of crashes.                           *)
(***************************************************************************)
EXTENDS ResearchAppend, ResearchWriterLock, PanelPublication, TLAPS

Loaded == {"resave", "reunlink", "check", "begin", "temp", "link"}
Linked == {"untemp", "published", "save", "unlink"}
Appending == {"load"} \cup Loaded \cup Linked

(* v is no newer than the directory, and exact if it is as new. *)
Exact(v) == v.stamp <= stamp /\ (v.stamp = stamp => v.ms = manifests)

(* Both sides of a journal are exact, and next adds the manifest. *)
JournalExact(j) ==
    /\ Exact(j.prev)
    /\ j.pub <= stamp
    /\ j.pub = stamp => j.next.ms = manifests

(* The writer's view: what is committed before its link, all but its own   *)
(* manifest after it; what it is about to link is new and has its bytes.   *)
ViewOK ==
    /\ pc \in Loaded \cup {"prepare"} => view.ms = manifests
    /\ pc \in {"resave", "reunlink", "check", "begin", "prepare"} => view.stamp = stamp
    /\ pc \in Linked => manifests = view.ms \cup {cur}
    /\ pc \in Appending => cur \in Commits
    /\ pc \in {"begin", "temp", "link"} => cur \in parquet
    /\ pc \in {"begin", "temp", "link"} =>
          Existing(view, cur[1]) = {} /\ ~Duplicate(view, cur)

(* The journal on disk is the one of the append under way. *)
WriterJournal ==
    /\ indexed /\ pc \in Journalled =>
          pending.m = cur /\ pending.next.ms = view.ms \cup {cur}
    /\ pc \in {"begin", "published", "save", "unlink", "resave", "reunlink"} => indexed

(* A reader that saw a record that was taken back can only be refused: the *)
(* journal it holds is of that record and stays undecidable.               *)
Forsaken ==
    /\ rpc = "verify"
    /\ rpend.m \notin manifests /\ rpend.prev.stamp < stamp
    /\ floor \subseteq manifests \cup {rpend.m}

(* A reader's copy is exact while its stamp is current, and complete       *)
(* once the stamp was confirmed.                                           *)
ReaderOK ==
    /\ rpc = "stamp" => Exact(rview)
    /\ rpc = "verify" => rview.stamp <= stamp
    /\ floor \subseteq manifests \/ Forsaken
    /\ rpc = "answer" => floor \subseteq rview.ms /\ rview.ms \subseteq manifests

(* The journal is decided unless the directory moved on under it. *)
RecoveryOK ==
    /\ ~dirty /\ pending # NoPending => Verdict(pending) # "reconcile"
    /\ ~commissioned => pending = NoPending
    /\ pc \in Appending => indexed = commissioned

Older(j) == j.prev.stamp < stamp /\ j.pub < stamp

(* While a manifest is being linked nothing that anyone holds carries the  *)
(* present stamp, so no reader acts on what may still be taken back.       *)
UnsettledOK ==
    /\ rpc # "idle" => commissioned
    /\ rpc = "idle" => floor = {}
    /\ pc \in {"link", "untemp"} =>
          /\ index.stamp < stamp /\ Older(pending) /\ Older(rpend)
          /\ rpc = "stamp" => rview.stamp < stamp
    /\ pc = "untemp" =>
          /\ cur \notin view.ms
          /\ cur \in floor => rpc = "verify" /\ rpend.m = cur
          /\ rpc = "answer" => cur \notin rview.ms

AppendInv ==
    /\ TypeOK
    /\ VisibleHasItsPartition
    /\ Exact(index)
    /\ JournalExact(pending)
    /\ JournalExact(rpend)
    /\ ViewOK
    /\ WriterJournal
    /\ ReaderOK
    /\ RecoveryOK
    /\ UnsettledOK

(* The empty index and the empty journal are well formed. *)
LEMMA Empties ==
    /\ NoView \in Views /\ NoView.ms = {} /\ NoView.stamp = 0
    /\ NoPending \in Journals /\ NoPending.prev = NoView /\ NoPending.pub = 0
<1>1. NoView \in Views /\ NoView.ms = {} /\ NoView.stamp = 0
  BY DEF NoView, View, Views
<1>2. NoPending \in Journals /\ NoPending.prev = NoView /\ NoPending.pub = 0
  BY <1>1 DEF NoPending, Journal, Journals
<1> QED
  BY <1>1, <1>2

(* An empty store satisfies the invariant. *)
LEMMA InitInv == Init => AppendInv
<1> SUFFICES ASSUME Init PROVE AppendInv
  OBVIOUS
<1>1. /\ parquet \subseteq Commits /\ manifests \subseteq Commits
      /\ stamp \in Nat \ {0} /\ crashes \in Nat /\ foreign \in Nat /\ floor \subseteq Commits
  BY DEF Init
<1>2. index \in Views /\ view \in Views /\ rview \in Views /\ pending \in Journals /\ rpend \in Journals
  BY Empties DEF Init
<1>3. TypeOK
  BY <1>1, <1>2 DEF Init, TypeOK, Journalled
<1>4. Exact(index) /\ JournalExact(pending) /\ JournalExact(rpend)
  BY Empties DEF Init, Exact, JournalExact
<1> QED
  BY <1>3, <1>4 DEF Init, AppendInv, VisibleHasItsPartition, ViewOK,
     WriterJournal, ReaderOK, RecoveryOK, UnsettledOK, Loaded, Linked, Appending, Journalled

(* A journal that is decided gives what is committed. *)
LEMMA RecoveredIsExact ==
    ASSUME NEW j \in Journals, JournalExact(j), Exact(index), Verdict(j) # "reconcile"
    PROVE  Recovered(j).ms = manifests
  BY DEF JournalExact, Exact, Verdict, Recovered

(* Every step preserves it: a change of the directory outdates whatever    *)
(* carries an older stamp, and what is written carries what is committed.  *)
LEMMA NextInv == AppendInv /\ [Next]_vars => AppendInv'
<1> SUFFICES ASSUME AppendInv, [Next]_vars PROVE AppendInv'
  OBVIOUS
<1> USE DEF AppendInv, TypeOK, VisibleHasItsPartition, Exact, JournalExact,
    ViewOK, WriterJournal, ReaderOK, Forsaken, Loaded, Linked, Appending, Journalled,
    Views, View, Journals, Journal, files, writer, reader, Idle, Refuse,
    ClearPending, Touch, ReaderIdle, Existing, Duplicate
<1>0. CASE UNCHANGED vars
  BY <1>0 DEF vars, RecoveryOK, Verdict, UnsettledOK, Older
<1>1. CASE \E m \in Commits : StartAppend(m)
  <2>1. TypeOK'
    BY <1>1, Empties DEF StartAppend
  <2>2. (Exact(index) /\ JournalExact(pending) /\ JournalExact(rpend))'
    BY <1>1, Empties DEF StartAppend
  <2>3. (VisibleHasItsPartition /\ ViewOK /\ WriterJournal)'
    BY <1>1, Empties DEF StartAppend
  <2>4. ReaderOK'
    BY <1>1, Empties DEF StartAppend
  <2>5. RecoveryOK'
    BY <1>1, Empties DEF StartAppend, RecoveryOK, Verdict
  <2>6. UnsettledOK'
    BY <1>1, Empties DEF StartAppend, UnsettledOK, Older
  <2> QED
    BY <2>1, <2>2, <2>3, <2>4, <2>5, <2>6
<1>2. CASE \E m \in Commits : ForeignAppend(m)
  <2>1. TypeOK'
    BY <1>2, Empties DEF ForeignAppend
  <2>2. (Exact(index) /\ JournalExact(pending) /\ JournalExact(rpend))'
    BY <1>2, Empties DEF ForeignAppend
  <2>3. (VisibleHasItsPartition /\ ViewOK /\ WriterJournal)'
    BY <1>2, Empties DEF ForeignAppend
  <2>4. ReaderOK'
    BY <1>2, Empties DEF ForeignAppend
  <2>5. RecoveryOK'
    BY <1>2, Empties DEF ForeignAppend, RecoveryOK, Verdict
  <2>6. UnsettledOK'
    BY <1>2, Empties DEF ForeignAppend, UnsettledOK, Older
  <2> QED
    BY <2>1, <2>2, <2>3, <2>4, <2>5, <2>6
<1>3. CASE \E t \in Txns : StartRead(t)
  <2>a. UNCHANGED <<files, writer, dirty>>
    BY <1>3 DEF StartRead
  <2>1. TypeOK'
    BY <1>3, <2>a, Empties DEF StartRead
  <2>2. (Exact(index) /\ JournalExact(pending) /\ JournalExact(rpend))'
    BY <1>3, <2>a, Empties DEF StartRead
  <2>3. (VisibleHasItsPartition /\ ViewOK /\ WriterJournal)'
    BY <1>3, <2>a, Empties DEF StartRead
  <2>4. ReaderOK'
    BY <1>3, <2>a, Empties DEF StartRead
  <2>5. RecoveryOK'
    BY <2>a DEF RecoveryOK, Verdict
  <2>b. NoPending.m = NoCommit /\ NoCommit \notin Commits
    BY DEF NoPending, NoCommit, Commits
  <2>c. pc \in {"link", "untemp"} => pending # NoPending /\ pending.m = cur
    BY <1>3, <2>b DEF StartRead, RecoveryOK
  <2>d. pc \in {"link", "untemp"} => rpc' = "verify" /\ rpend' = pending
    BY <1>3, <2>c DEF StartRead
  <2>6. UnsettledOK'
    BY <1>3, <2>a, <2>c, <2>d, Empties DEF StartRead, UnsettledOK, Older
  <2> QED
    BY <2>1, <2>2, <2>3, <2>4, <2>5, <2>6
<1>4. CASE LoadIndex
  <2>1. TypeOK'
    BY <1>4, Empties DEF LoadIndex
  <2>2. (Exact(index) /\ JournalExact(pending) /\ JournalExact(rpend))'
    BY <1>4, Empties DEF LoadIndex
  <2>3. (VisibleHasItsPartition /\ ViewOK /\ WriterJournal)'
    BY <1>4, Empties DEF LoadIndex
  <2>4. ReaderOK'
    BY <1>4, Empties DEF LoadIndex
  <2>5. RecoveryOK'
    BY <1>4, Empties DEF LoadIndex, RecoveryOK, Verdict
  <2>6. UnsettledOK'
    BY <1>4, Empties DEF LoadIndex, UnsettledOK, Older
  <2> QED
    BY <2>1, <2>2, <2>3, <2>4, <2>5, <2>6
<1>5. CASE ScanManifests
  <2>1. (TypeOK /\ VisibleHasItsPartition /\ Exact(index) /\ JournalExact(pending)
         /\ JournalExact(rpend) /\ ViewOK /\ WriterJournal /\ ReaderOK)'
    BY <1>5, Empties DEF ScanManifests
  <2>2. RecoveryOK'
    BY <1>5, Empties DEF ScanManifests, RecoveryOK, Verdict
  <2>3. UnsettledOK'
    BY <1>5, Empties DEF ScanManifests, UnsettledOK, Older
  <2> QED
    BY <2>1, <2>2, <2>3
<1>6. CASE RecoverIndex
  <2>a. Recovered(pending).ms = manifests
    BY <1>6, RecoveredIsExact DEF RecoverIndex
  <2>1. TypeOK'
    BY <1>6, <2>a, Empties DEF RecoverIndex
  <2>2. (Exact(index) /\ JournalExact(pending) /\ JournalExact(rpend))'
    BY <1>6, <2>a, Empties DEF RecoverIndex
  <2>3. (VisibleHasItsPartition /\ ViewOK /\ WriterJournal)'
    BY <1>6, <2>a, Empties DEF RecoverIndex
  <2>4. ReaderOK'
    BY <1>6, <2>a, Empties DEF RecoverIndex
  <2>5. RecoveryOK'
    BY <1>6, <2>a, Empties DEF RecoverIndex, RecoveryOK, Verdict
  <2>6. UnsettledOK'
    BY <1>6, <2>a, Empties DEF RecoverIndex, UnsettledOK, Older
  <2> QED
    BY <2>1, <2>2, <2>3, <2>4, <2>5, <2>6
<1>7. CASE LoadRefused
  <2>1. TypeOK'
    BY <1>7, Empties DEF LoadRefused
  <2>2. (Exact(index) /\ JournalExact(pending) /\ JournalExact(rpend))'
    BY <1>7, Empties DEF LoadRefused
  <2>3. (VisibleHasItsPartition /\ ViewOK /\ WriterJournal)'
    BY <1>7, Empties DEF LoadRefused
  <2>4. ReaderOK'
    BY <1>7, Empties DEF LoadRefused
  <2>5. RecoveryOK'
    BY <1>7, Empties DEF LoadRefused, RecoveryOK, Verdict
  <2>6. UnsettledOK'
    BY <1>7, Empties DEF LoadRefused, UnsettledOK, Older
  <2> QED
    BY <2>1, <2>2, <2>3, <2>4, <2>5, <2>6
<1>8. CASE SaveRecovered
  <2>1. TypeOK'
    BY <1>8, Empties DEF SaveRecovered
  <2>2. (Exact(index) /\ JournalExact(pending) /\ JournalExact(rpend))'
    BY <1>8, Empties DEF SaveRecovered
  <2>3. (VisibleHasItsPartition /\ ViewOK /\ WriterJournal)'
    BY <1>8, Empties DEF SaveRecovered
  <2>4. ReaderOK'
    BY <1>8, Empties DEF SaveRecovered
  <2>5. RecoveryOK'
    BY <1>8, Empties DEF SaveRecovered, RecoveryOK, Verdict
  <2>6. UnsettledOK'
    BY <1>8, Empties DEF SaveRecovered, UnsettledOK, Older
  <2> QED
    BY <2>1, <2>2, <2>3, <2>4, <2>5, <2>6
<1>9. CASE UnlinkRecovered
  <2>1. TypeOK'
    BY <1>9, Empties DEF UnlinkRecovered
  <2>2. (Exact(index) /\ JournalExact(pending) /\ JournalExact(rpend))'
    BY <1>9, Empties DEF UnlinkRecovered
  <2>3. (VisibleHasItsPartition /\ ViewOK /\ WriterJournal)'
    BY <1>9, Empties DEF UnlinkRecovered
  <2>4. ReaderOK'
    BY <1>9, Empties DEF UnlinkRecovered
  <2>5. RecoveryOK'
    BY <1>9, Empties DEF UnlinkRecovered, RecoveryOK, Verdict
  <2>6. UnsettledOK'
    BY <1>9, Empties DEF UnlinkRecovered, UnsettledOK, Older
  <2> QED
    BY <2>1, <2>2, <2>3, <2>4, <2>5, <2>6
<1>10. CASE ReplayOrConflict
  <2>1. TypeOK'
    BY <1>10, Empties DEF ReplayOrConflict
  <2>2. (Exact(index) /\ JournalExact(pending) /\ JournalExact(rpend))'
    BY <1>10, Empties DEF ReplayOrConflict
  <2>3. (VisibleHasItsPartition /\ ViewOK /\ WriterJournal)'
    BY <1>10, Empties DEF ReplayOrConflict
  <2>4. ReaderOK'
    BY <1>10, Empties DEF ReplayOrConflict
  <2>5. RecoveryOK'
    BY <1>10, Empties DEF ReplayOrConflict, RecoveryOK, Verdict
  <2>6. UnsettledOK'
    BY <1>10, Empties DEF ReplayOrConflict, UnsettledOK, Older
  <2> QED
    BY <2>1, <2>2, <2>3, <2>4, <2>5, <2>6
<1>11. CASE PublishParquet
  <2>1. (TypeOK /\ VisibleHasItsPartition /\ Exact(index) /\ JournalExact(pending)
         /\ JournalExact(rpend) /\ ViewOK /\ WriterJournal /\ ReaderOK)'
    BY <1>11, Empties DEF PublishParquet
  <2>2. RecoveryOK'
    BY <1>11, Empties DEF PublishParquet, RecoveryOK, Verdict
  <2>3. UnsettledOK'
    BY <1>11, Empties DEF PublishParquet, UnsettledOK, Older
  <2> QED
    BY <2>1, <2>2, <2>3
<1>12. CASE BeginLookup
  <2>1. TypeOK'
    BY <1>12, Empties DEF BeginLookup
  <2>2. (Exact(index) /\ JournalExact(pending) /\ JournalExact(rpend))'
    BY <1>12, Empties DEF BeginLookup
  <2>3. (VisibleHasItsPartition /\ ViewOK /\ WriterJournal)'
    BY <1>12, Empties DEF BeginLookup
  <2>4. ReaderOK'
    BY <1>12, Empties DEF BeginLookup
  <2>5. RecoveryOK'
    BY <1>12, Empties DEF BeginLookup, RecoveryOK, Verdict
  <2>6. UnsettledOK'
    BY <1>12, Empties DEF BeginLookup, UnsettledOK, Older
  <2> QED
    BY <2>1, <2>2, <2>3, <2>4, <2>5, <2>6
<1>13. CASE TempManifest
  <2>1. (TypeOK /\ VisibleHasItsPartition /\ Exact(index) /\ JournalExact(pending)
         /\ JournalExact(rpend) /\ ViewOK /\ WriterJournal /\ ReaderOK)'
    BY <1>13, Empties DEF TempManifest
  <2>2. RecoveryOK'
    BY <1>13, Empties DEF TempManifest, RecoveryOK, Verdict
  <2>3. UnsettledOK'
    BY <1>13, Empties DEF TempManifest, UnsettledOK, Older
  <2> QED
    BY <2>1, <2>2, <2>3
<1>14. CASE LinkManifest
  <2>1. (TypeOK /\ VisibleHasItsPartition /\ Exact(index) /\ JournalExact(pending)
         /\ JournalExact(rpend) /\ ViewOK /\ WriterJournal /\ ReaderOK)'
    BY <1>14, Empties DEF LinkManifest
  <2>2. RecoveryOK'
    BY <1>14, Empties DEF LinkManifest, RecoveryOK, Verdict
  <2>3. UnsettledOK'
    BY <1>14, Empties DEF LinkManifest, UnsettledOK, Older
  <2> QED
    BY <2>1, <2>2, <2>3
<1>15. CASE UnlinkTemp
  <2>1. (TypeOK /\ VisibleHasItsPartition /\ Exact(index) /\ JournalExact(pending)
         /\ JournalExact(rpend) /\ ViewOK /\ WriterJournal /\ ReaderOK)'
    BY <1>15, Empties DEF UnlinkTemp
  <2>2. RecoveryOK'
    BY <1>15, Empties DEF UnlinkTemp, RecoveryOK, Verdict
  <2>3. UnsettledOK'
    BY <1>15, Empties DEF UnlinkTemp, UnsettledOK, Older
  <2> QED
    BY <2>1, <2>2, <2>3
<1>16. CASE RecordStamp
  <2>a. pending.next.ms = manifests
    BY <1>16 DEF RecordStamp
  <2>1. TypeOK'
    BY <1>16, <2>a, Empties DEF RecordStamp
  <2>2. (Exact(index) /\ JournalExact(pending) /\ JournalExact(rpend))'
    BY <1>16, <2>a, Empties DEF RecordStamp
  <2>3. (VisibleHasItsPartition /\ ViewOK /\ WriterJournal)'
    BY <1>16, <2>a, Empties DEF RecordStamp
  <2>4. ReaderOK'
    BY <1>16, <2>a, Empties DEF RecordStamp
  <2>5. RecoveryOK'
    BY <1>16, <2>a, Empties DEF RecordStamp, RecoveryOK, Verdict
  <2>6. UnsettledOK'
    BY <1>16, <2>a, Empties DEF RecordStamp, UnsettledOK, Older
  <2> QED
    BY <2>1, <2>2, <2>3, <2>4, <2>5, <2>6
<1>17. CASE SaveIndex
  <2>a. pending.next.ms = manifests
    BY <1>17 DEF SaveIndex
  <2>1. TypeOK'
    BY <1>17, <2>a, Empties DEF SaveIndex
  <2>2. (Exact(index) /\ JournalExact(pending) /\ JournalExact(rpend))'
    BY <1>17, <2>a, Empties DEF SaveIndex
  <2>3. (VisibleHasItsPartition /\ ViewOK /\ WriterJournal)'
    BY <1>17, <2>a, Empties DEF SaveIndex
  <2>4. ReaderOK'
    BY <1>17, <2>a, Empties DEF SaveIndex
  <2>5. RecoveryOK'
    BY <1>17, <2>a, Empties DEF SaveIndex, RecoveryOK, Verdict
  <2>6. UnsettledOK'
    BY <1>17, <2>a, Empties DEF SaveIndex, UnsettledOK, Older
  <2> QED
    BY <2>1, <2>2, <2>3, <2>4, <2>5, <2>6
<1>18. CASE UnlinkPending
  <2>1. TypeOK'
    BY <1>18, Empties DEF UnlinkPending
  <2>2. (Exact(index) /\ JournalExact(pending) /\ JournalExact(rpend))'
    BY <1>18, Empties DEF UnlinkPending
  <2>3. (VisibleHasItsPartition /\ ViewOK /\ WriterJournal)'
    BY <1>18, Empties DEF UnlinkPending
  <2>4. ReaderOK'
    BY <1>18, Empties DEF UnlinkPending
  <2>5. RecoveryOK'
    BY <1>18, Empties DEF UnlinkPending, RecoveryOK, Verdict
  <2>6. UnsettledOK'
    BY <1>18, Empties DEF UnlinkPending, UnsettledOK, Older
  <2> QED
    BY <2>1, <2>2, <2>3, <2>4, <2>5, <2>6
<1>19. CASE EndAppend
  <2>1. TypeOK'
    BY <1>19, Empties DEF EndAppend
  <2>2. (Exact(index) /\ JournalExact(pending) /\ JournalExact(rpend))'
    BY <1>19, Empties DEF EndAppend
  <2>3. (VisibleHasItsPartition /\ ViewOK /\ WriterJournal)'
    BY <1>19, Empties DEF EndAppend
  <2>4. ReaderOK'
    BY <1>19, Empties DEF EndAppend
  <2>5. RecoveryOK'
    BY <1>19, Empties DEF EndAppend, RecoveryOK, Verdict
  <2>6. UnsettledOK'
    BY <1>19, Empties DEF EndAppend, UnsettledOK, Older
  <2> QED
    BY <2>1, <2>2, <2>3, <2>4, <2>5, <2>6
<1>20. CASE Crash
  <2>a. crashes' \in Nat
    BY <1>20 DEF Crash
  <2>1. TypeOK'
    BY <1>20, <2>a, Empties DEF Crash
  <2>2. (Exact(index) /\ JournalExact(pending) /\ JournalExact(rpend))'
    BY <1>20, <2>a, Empties DEF Crash
  <2>3. (VisibleHasItsPartition /\ ViewOK /\ WriterJournal)'
    BY <1>20, <2>a, Empties DEF Crash
  <2>4. ReaderOK'
    BY <1>20, <2>a, Empties DEF Crash
  <2>5. RecoveryOK'
    BY <1>20, <2>a, Empties DEF Crash, RecoveryOK, Verdict
  <2>6. UnsettledOK'
    BY <1>20, <2>a, Empties DEF Crash, UnsettledOK, Older
  <2> QED
    BY <2>1, <2>2, <2>3, <2>4, <2>5, <2>6
<1>21. CASE PrepareLookup
  <2>1. (TypeOK /\ VisibleHasItsPartition /\ Exact(index) /\ JournalExact(pending)
         /\ JournalExact(rpend) /\ ViewOK /\ WriterJournal /\ ReaderOK)'
    BY <1>21, Empties DEF PrepareLookup
  <2>2. RecoveryOK'
    BY <1>21, Empties DEF PrepareLookup, RecoveryOK, Verdict
  <2>3. UnsettledOK'
    BY <1>21, Empties DEF PrepareLookup, UnsettledOK, Older
  <2> QED
    BY <2>1, <2>2, <2>3
<1>22. CASE SavePrepared
  <2>1. (TypeOK /\ VisibleHasItsPartition /\ Exact(index) /\ JournalExact(pending)
         /\ JournalExact(rpend) /\ ViewOK /\ WriterJournal /\ ReaderOK)'
    BY <1>22, Empties DEF SavePrepared
  <2>2. RecoveryOK'
    BY <1>22, Empties DEF SavePrepared, RecoveryOK, Verdict
  <2>3. UnsettledOK'
    BY <1>22, Empties DEF SavePrepared, UnsettledOK, Older
  <2> QED
    BY <2>1, <2>2, <2>3
<1>23. CASE UnlinkPrepared
  <2>1. TypeOK'
    BY <1>23, Empties DEF UnlinkPrepared
  <2>2. (Exact(index) /\ JournalExact(pending) /\ JournalExact(rpend))'
    BY <1>23, Empties DEF UnlinkPrepared
  <2>3. (VisibleHasItsPartition /\ ViewOK /\ WriterJournal)'
    BY <1>23, Empties DEF UnlinkPrepared
  <2>4. ReaderOK'
    BY <1>23, Empties DEF UnlinkPrepared
  <2>5. RecoveryOK'
    BY <1>23, Empties DEF UnlinkPrepared, RecoveryOK, Verdict
  <2>6. UnsettledOK'
    BY <1>23, Empties DEF UnlinkPrepared, UnsettledOK, Older
  <2> QED
    BY <2>1, <2>2, <2>3, <2>4, <2>5, <2>6
<1>24. CASE ReadState
  <2>1. (TypeOK /\ VisibleHasItsPartition /\ Exact(index) /\ JournalExact(pending)
         /\ JournalExact(rpend) /\ ViewOK /\ WriterJournal /\ ReaderOK)'
    BY <1>24, Empties DEF ReadState
  <2>2. RecoveryOK'
    BY <1>24, Empties DEF ReadState, RecoveryOK, Verdict
  <2>3. UnsettledOK'
    BY <1>24, Empties DEF ReadState, UnsettledOK, Older
  <2> QED
    BY <2>1, <2>2, <2>3
<1>25. CASE ReadPending
  <2>a. Recovered(rpend).ms = manifests
    BY <1>25, RecoveredIsExact DEF ReadPending
  <2>b. rpc = "verify" /\ Verdict(rpend) # "reconcile"
    BY <1>25 DEF ReadPending
  <2>c. ~Forsaken
    BY <2>b DEF Verdict
  <2>d. pc \notin {"link", "untemp"}
    BY <2>b DEF Verdict, UnsettledOK, Older
  <2>1. TypeOK'
    BY <1>25, <2>a, Empties DEF ReadPending
  <2>2. (Exact(index) /\ JournalExact(pending) /\ JournalExact(rpend))'
    BY <1>25, <2>a, Empties DEF ReadPending
  <2>3. (VisibleHasItsPartition /\ ViewOK /\ WriterJournal)'
    BY <1>25, <2>a, Empties DEF ReadPending
  <2>4. ReaderOK'
    BY <1>25, <2>a, <2>c, Empties DEF ReadPending
  <2>5. RecoveryOK'
    BY <1>25, <2>a, Empties DEF ReadPending, RecoveryOK, Verdict
  <2>6. UnsettledOK'
    BY <1>25, <2>a, <2>d, Empties DEF ReadPending, UnsettledOK, Older
  <2> QED
    BY <2>1, <2>2, <2>3, <2>4, <2>5, <2>6
<1>26. CASE ReadStamp
  <2>1. (TypeOK /\ VisibleHasItsPartition /\ Exact(index) /\ JournalExact(pending)
         /\ JournalExact(rpend) /\ ViewOK /\ WriterJournal /\ ReaderOK)'
    BY <1>26, Empties DEF ReadStamp
  <2>2. RecoveryOK'
    BY <1>26, Empties DEF ReadStamp, RecoveryOK, Verdict
  <2>3. UnsettledOK'
    BY <1>26, Empties DEF ReadStamp, UnsettledOK, Older
  <2> QED
    BY <2>1, <2>2, <2>3
<1>27. CASE EndRead
  <2>1. (TypeOK /\ VisibleHasItsPartition /\ Exact(index) /\ JournalExact(pending)
         /\ JournalExact(rpend) /\ ViewOK /\ WriterJournal /\ ReaderOK)'
    BY <1>27, Empties DEF EndRead
  <2>2. RecoveryOK'
    BY <1>27, Empties DEF EndRead, RecoveryOK, Verdict
  <2>3. UnsettledOK'
    BY <1>27, Empties DEF EndRead, UnsettledOK, Older
  <2> QED
    BY <2>1, <2>2, <2>3
<1>28. CASE CleanupFails
  <2>a. /\ crashes' \in Nat /\ dirty' \in BOOLEAN /\ pc = "untemp"
        /\ stamp' \in Nat \ {0} /\ stamp <= stamp'
        /\ manifests' \subseteq Commits
    BY <1>28 DEF CleanupFails
  <2>1. TypeOK'
    BY <1>28, <2>a, Empties DEF CleanupFails
  <2>2. (Exact(index) /\ JournalExact(pending) /\ JournalExact(rpend))'
    BY <1>28, <2>a, Empties DEF CleanupFails
  <2>3. (VisibleHasItsPartition /\ ViewOK /\ WriterJournal)'
    BY <1>28, <2>a, Empties DEF CleanupFails
  <2>4. ReaderOK'
    BY <1>28, <2>a, Empties DEF CleanupFails, UnsettledOK, Older
  <2>5. RecoveryOK'
    BY <1>28, <2>a, Empties DEF CleanupFails, RecoveryOK, Verdict
  <2>6. UnsettledOK'
    BY <1>28, <2>a, Empties DEF CleanupFails, UnsettledOK, Older
  <2> QED
    BY <2>1, <2>2, <2>3, <2>4, <2>5, <2>6
<1> QED
  BY <1>0, <1>1, <1>2, <1>3, <1>4, <1>5, <1>6, <1>7, <1>8, <1>9, <1>10, <1>11,
     <1>12, <1>13, <1>14, <1>15, <1>16, <1>17, <1>18, <1>19, <1>20, <1>21,
     <1>22, <1>23, <1>24, <1>25, <1>26, <1>27, <1>28
    DEF Next

(* The invariant holds in every behaviour of the store. *)
THEOREM AppendInvariant == Spec => []AppendInv
<1>1. Init => AppendInv
  BY InitInv
<1>2. AppendInv /\ [Next]_vars => AppendInv'
  BY NextInv
<1> QED
  BY <1>1, <1>2, PTL DEF Spec

(* Every variable of the append keeps to its values, and the journal of an *)
(* indexed append is on disk from before its manifest.                     *)
THEOREM AppendTypeCorrect == Spec => []TypeOK
<1>1. AppendInv => TypeOK
  BY DEF AppendInv
<1> QED
  BY <1>1, AppendInvariant, PTL

(* No manifest is visible without its Parquet partition, whatever crashes. *)
THEOREM AppendVisibleHasItsPartition == Spec => []VisibleHasItsPartition
<1>1. AppendInv => VisibleHasItsPartition
  BY DEF AppendInv
<1> QED
  BY <1>1, AppendInvariant, PTL

(* A writer past the load of the index sees all that is committed.         *)
THEOREM AppendNoFalseAbsence == Spec => []NoFalseAbsence
<1>1. AppendInv => NoFalseAbsence
  BY DEF AppendInv, ViewOK, NoFalseAbsence, Loaded
<1> QED
  BY <1>1, AppendInvariant, PTL

(* A reader without the lock misses nothing committed before it began.     *)
THEOREM AppendReaderMissesNothing == Spec => []ReaderMissesNothing
<1>1. AppendInv => ReaderMissesNothing
  BY DEF AppendInv, ReaderOK, ReaderMissesNothing, Existing
<1> QED
  BY <1>1, AppendInvariant, PTL

(* Any crash but one in the middle of the publication of the manifest is   *)
(* recovered by the next append.                                           *)
THEOREM AppendRecoversByItself == Spec => []RecoversByItself
<1>1. AppendInv => RecoversByItself
  BY DEF AppendInv, RecoveryOK, RecoversByItself
<1> QED
  BY <1>1, AppendInvariant, PTL

(* An empty store is an empty log. *)
LEMMA LogInit == Init => Log!Init
  BY DEF Init, Settled, Log!Init

(* What is linked is new to the log, and only it is taken back.            *)
LEMMA LogNext == AppendInv /\ [Next]_vars => [Log!Next]_<<manifests, Settled>>
<1> SUFFICES ASSUME AppendInv, [Next]_vars
             PROVE  [Log!Next]_<<manifests, Settled>>
  OBVIOUS
<1>1. \/ LinkManifest \/ UnlinkTemp \/ CleanupFails \/ Crash
      \/ \E m \in Commits : ForeignAppend(m)
      \/ UNCHANGED <<manifests, pc, cur>>
      \/ pc # "untemp" /\ pc' # "untemp" /\ UNCHANGED manifests
  BY DEF Next, vars, files, writer, reader, StartAppend, LoadIndex,
     ScanManifests, RecoverIndex, LoadRefused, SaveRecovered, UnlinkRecovered,
     ReplayOrConflict, PublishParquet, BeginLookup, TempManifest,
     RecordStamp, SaveIndex, UnlinkPending, EndAppend, PrepareLookup,
     SavePrepared, UnlinkPrepared, StartRead, ReadState, ReadPending,
     ReadStamp, EndRead, Idle, Refuse, ClearPending, Touch
<1>2. CASE LinkManifest
  <2>1. /\ cur \in Commits /\ view.ms = manifests
        /\ Existing(view, cur[1]) = {} /\ ~Duplicate(view, cur)
        /\ pc = "link" /\ pc' = "untemp" /\ cur' = cur
    BY <1>2 DEF LinkManifest, Touch, AppendInv, ViewOK, Loaded, Appending
  <2>2. PICK t \in Txns, c \in Contents : cur = <<t, c>>
    BY <2>1 DEF Commits
  <2>3. Log!Absent(t, c) /\ cur \notin manifests
    BY <2>1, <2>2 DEF Log!Absent, Existing, Duplicate
  <2>4. manifests' = manifests \cup {<<t, c>>}
    BY <1>2, <2>2 DEF LinkManifest
  <2>5. Settled = manifests /\ Settled' = Settled
    BY <2>1, <2>2, <2>3, <2>4 DEF Settled
  <2> QED
    BY <2>3, <2>4, <2>5 DEF Log!Next, Log!Publish
<1>3. CASE UnlinkTemp
  <2>1. manifests' = manifests /\ pc' # "untemp"
    BY <1>3 DEF UnlinkTemp, Touch
  <2> QED
    BY <2>1 DEF Settled, Log!Next, Log!Settle
<1>4. CASE CleanupFails
  <2>1. /\ pc = "untemp" /\ pc' # "untemp"
        /\ manifests' = manifests \ {cur} \/ manifests' = manifests
    BY <1>4 DEF CleanupFails, Idle
  <2> QED
    BY <2>1 DEF Settled, Log!Next, Log!Settle, Log!TakeBack
<1>5. CASE Crash
  <2>1. manifests' = manifests /\ pc' # "untemp"
    BY <1>5 DEF Crash, Idle, files
  <2> QED
    BY <2>1 DEF Settled, Log!Next, Log!Settle
<1>6. CASE \E m \in Commits : ForeignAppend(m)
  <2>1. PICK m \in Commits : ForeignAppend(m)
    BY <1>6
  <2>2. PICK t \in Txns, c \in Contents : m = <<t, c>>
    BY DEF Commits
  <2>3. Log!Absent(t, c)
    BY <2>1, <2>2 DEF Log!Absent, ForeignAppend, Duplicate, View
  <2>4. /\ manifests' = manifests \cup {<<t, c>>}
        /\ Settled = manifests /\ Settled' = manifests'
    BY <2>1, <2>2 DEF ForeignAppend, writer, Settled
  <2> QED
    BY <2>3, <2>4 DEF Log!Next, Log!Commit
<1>7. CASE UNCHANGED <<manifests, pc, cur>>
  BY <1>7 DEF Settled
<1>8. CASE pc # "untemp" /\ pc' # "untemp" /\ UNCHANGED manifests
  BY <1>8 DEF Settled
<1> QED
  BY <1>1, <1>2, <1>3, <1>4, <1>5, <1>6, <1>7, <1>8

(* The store implements its abstract log: a transaction never has two      *)
(* contents nor a record id two transactions, one append at a time is      *)
(* visible without having settled, and no settled one is taken back,       *)
(* whatever crashes and whichever clean-up fails.                          *)
THEOREM AppendImplementsLog == Spec => ImplementsResearchLog
<1>1. Init => Log!Init
  BY LogInit
<1>2. AppendInv /\ [Next]_vars => [Log!Next]_<<manifests, Settled>>
  BY LogNext
<1> QED
  BY <1>1, <1>2, AppendInvariant, PTL DEF Spec, ImplementsResearchLog, Log!Spec

----------------------------------------------------------------------------
(* The lock file of the one writer. *)
(* Up to the first stray unlink, an owner's lock file is there and its     *)
(* own.                                                                    *)
OwnerIsOnDisk ==
    \A p \in Owners : /\ mine[p] # 0 /\ owner[mine[p]] = p
                      /\ ~stray => lock = mine[p]

(* What is being recovered belongs to a dead process, and was recorded     *)
(* before it is about to disappear.                                        *)
RecoversTheDead ==
    \A p \in Procs :
        /\ lockPc[p] \in Recovering => owner[seen[p]] \notin live
        /\ lockPc[p] \in {"recheck", "unlink"} => seen[p] \in artifacts
        /\ lockPc[p] \in Recovering \cup {"probe"} => seen[p] \in written

(* Files are written by the process that created them. *)
FilesAreMinted ==
    /\ minted \in Nat /\ lock <= minted
    /\ \A i \in written : i <= minted
    /\ \A p \in Procs : mine[p] <= minted

LockInv == LockTypeOK /\ OwnerIsOnDisk /\ RecoversTheDead /\ FilesAreMinted

(* LockInv is an inductive invariant of the writer lock. *)
THEOREM LockInvariant == LockSpec => []LockInv
<1> USE LockAssumption
<1>1. LockInit => LockInv
  <2> SUFFICES ASSUME LockInit PROVE LockInv
    OBVIOUS
  <2>1. LockTypeOK
    BY DEF LockInit, LockTypeOK, Holding, Recovering
  <2>2. OwnerIsOnDisk /\ RecoversTheDead
    BY
      DEF LockInit, OwnerIsOnDisk, RecoversTheDead, Owners, Holding, Recovering
  <2>3. FilesAreMinted
    BY DEF LockInit, FilesAreMinted
  <2> QED
    BY <2>1, <2>2, <2>3 DEF LockInv
<1>2. LockInv /\ [LockNext]_lockVars => LockInv'
  <2> SUFFICES ASSUME LockInv, [LockNext]_lockVars PROVE LockInv'
    OBVIOUS
  <2> USE DEF LockInv, At, Goto, lockFiles, procs
  <2>1. CASE UNCHANGED lockVars
    <3>1. LockTypeOK'
      BY <2>1 DEF lockVars, LockTypeOK, Holding, Recovering
    <3>2. OwnerIsOnDisk'
      BY <2>1
        DEF lockVars, OwnerIsOnDisk, Owners, Holding, Recovering, LockTypeOK
    <3>3. RecoversTheDead'
      BY <2>1 DEF lockVars, RecoversTheDead, Recovering, Holding, LockTypeOK
    <3>4. FilesAreMinted'
      BY <2>1 DEF lockVars, FilesAreMinted, LockTypeOK
    <3> QED
      BY <3>1, <3>2, <3>3, <3>4
  <2>2. ASSUME NEW p \in Procs, NEW here \in {"idle", "retry"},
               NEW there \in {"stale", "idle"}, CreateLock(p, here, there)
        PROVE  LockInv'
    <3>1. CASE lock # 0
      <4>1. lockPc' = [lockPc EXCEPT ![p] = there] /\ UNCHANGED <<lockFiles, owner, live,
               mine, seen, claimed, minted, stray>>
        BY <2>2, <3>1 DEF CreateLock
      <4>2. LockTypeOK'
        BY <4>1 DEF LockTypeOK, Holding, Recovering
      <4>3. OwnerIsOnDisk'
        BY <4>1 DEF OwnerIsOnDisk, Owners, Holding, LockTypeOK
      <4>4. RecoversTheDead'
        BY <4>1 DEF RecoversTheDead, Recovering, LockTypeOK
      <4>5. FilesAreMinted'
        BY <4>1 DEF FilesAreMinted
      <4> QED
        BY <4>2, <4>3, <4>4, <4>5
    <3>2. CASE lock = 0
      <4> DEFINE n == minted + 1
      <4>1. /\ lockPc' = [lockPc EXCEPT ![p] = "created"]
            /\ owner' = [owner EXCEPT ![n] = p] /\ mine' = [mine EXCEPT ![p] = n]
            /\ lock' = n /\ minted' = n /\ minted < MaxInodes /\ p \in live
            /\ UNCHANGED <<quar, artifacts, written, expired, live, seen,
                           claimed, stray>>
        BY <2>2, <3>2 DEF CreateLock
      <4>2. n \in Inodes /\ n # 0 /\ minted \in Nat /\ n \in Nat /\ minted < n
        BY <4>1 DEF FilesAreMinted, Inodes
      <4> HIDE DEF n
      <4>3. LockTypeOK'
        BY <4>1, <4>2 DEF LockTypeOK, Holding, Recovering
      \* With no lock file nobody else owns, up to the first stray unlink.
      <4>4. OwnerIsOnDisk'
        <5> SUFFICES ASSUME NEW q \in Owners'
                     PROVE  /\ mine'[q] # 0 /\ owner'[mine'[q]] = q
                            /\ ~stray' => lock' = mine'[q]
          BY DEF OwnerIsOnDisk
        <5>1. CASE q = p
          BY <4>1, <4>2, <5>1 DEF LockTypeOK
        <5>2. CASE q # p
          <6>1. q \in Owners /\ q \in Procs /\ mine'[q] = mine[q]
            BY <4>1, <5>2 DEF Owners, LockTypeOK
          <6>2. mine[q] # n /\ mine[q] \in Inodes
            BY <4>2, <6>1 DEF FilesAreMinted, OwnerIsOnDisk, LockTypeOK, Inodes
          <6> QED
            BY <3>2, <4>1, <6>1, <6>2 DEF OwnerIsOnDisk, LockTypeOK
        <5> QED
          BY <5>1, <5>2
      <4>5. RecoversTheDead'
        <5>1. \A q \in Procs : lockPc'[q] \in Recovering \cup {"probe"} =>
                 /\ lockPc[q] = lockPc'[q] /\ seen[q] # n /\ seen[q] \in Inodes
          BY <4>1, <4>2
            DEF RecoversTheDead, FilesAreMinted, Recovering, LockTypeOK, Inodes
        <5> QED
          BY <4>1, <5>1 DEF RecoversTheDead, Recovering, LockTypeOK
      <4>6. FilesAreMinted'
        BY <4>1, <4>2 DEF FilesAreMinted, LockTypeOK, Inodes
      <4> QED
        BY <4>3, <4>4, <4>5, <4>6
    <3> QED
      BY <3>1, <3>2
  <2>3. ASSUME NEW p \in Procs, WriteLease(p) PROVE LockInv'
    <3>1. LockTypeOK'
      BY <2>3
        DEF WriteLease, LockTypeOK, Holding, Recovering, OwnerIsOnDisk, Owners
    <3>2. OwnerIsOnDisk'
      BY <2>3
        DEF WriteLease, OwnerIsOnDisk, Owners, Holding, Recovering, LockTypeOK
    <3>3. RecoversTheDead'
      BY <2>3 DEF WriteLease, RecoversTheDead, Recovering, Holding, LockTypeOK
    <3>4. FilesAreMinted'
      BY <2>3 DEF WriteLease, FilesAreMinted, LockTypeOK
    <3> QED
      BY <3>1, <3>2, <3>3, <3>4
  <2>4. ASSUME NEW p \in Procs, ReadLease(p) PROVE LockInv'
    <3>1. LockTypeOK'
      BY <2>4, SMTT(20) DEF ReadLease, LockTypeOK, Holding, Recovering, Inodes
    <3>2. OwnerIsOnDisk'
      BY <2>4
        DEF ReadLease, OwnerIsOnDisk, Owners, Holding, Recovering, LockTypeOK
    <3>3. RecoversTheDead'
      BY <2>4 DEF ReadLease, RecoversTheDead, Recovering, Holding, LockTypeOK
    <3>4. FilesAreMinted'
      BY <2>4 DEF ReadLease, FilesAreMinted, LockTypeOK
    <3> QED
      BY <3>1, <3>2, <3>3, <3>4
  <2>5. ASSUME NEW p \in Procs, ProbeOwner(p) PROVE LockInv'
    <3>1. LockTypeOK'
      BY <2>5 DEF ProbeOwner, LockTypeOK, Holding, Recovering
    <3>2. OwnerIsOnDisk'
      BY <2>5
        DEF ProbeOwner, OwnerIsOnDisk, Owners, Holding, Recovering, LockTypeOK
    <3>3. RecoversTheDead'
      BY <2>5 DEF ProbeOwner, RecoversTheDead, Recovering, Holding, LockTypeOK
    <3>4. FilesAreMinted'
      BY <2>5 DEF ProbeOwner, FilesAreMinted, LockTypeOK
    <3> QED
      BY <3>1, <3>2, <3>3, <3>4
  <2>6. ASSUME NEW p \in Procs, LinkQuarantine(p) PROVE LockInv'
    <3>1. LockTypeOK'
      <4>1. seen[p] \in Inodes /\ lockPc' \in [Procs -> Holding \cup Recovering
                \cup {"idle", "stale", "probe", "retry"}]
        BY <2>6 DEF LinkQuarantine, LockTypeOK, Recovering
      <4>2. quar' \in [Inodes -> {0} \cup Inodes] /\ claimed' \in [Procs -> BOOLEAN]
        <5>1. CASE UNCHANGED <<quar, claimed>>
          BY <5>1 DEF LockTypeOK
        <5>2. CASE quar' = quar /\ claimed' = [claimed EXCEPT ![p] = FALSE]
          BY <5>2 DEF LockTypeOK
        <5>3. CASE /\ quar' = [quar EXCEPT ![seen[p]] = lock]
                   /\ claimed' = [claimed EXCEPT ![p] = TRUE]
          BY <4>1, <5>3 DEF LockTypeOK
        <5> QED
          BY <2>6, <5>1, <5>2, <5>3 DEF LinkQuarantine
      <4>3. \A q \in Procs : lockPc'[q] \in Recovering \cup {"probe"} => seen[q] # 0
        BY <2>6, <4>1 DEF LinkQuarantine, LockTypeOK, Recovering
      <4> QED
        BY <2>6, <4>1, <4>2, <4>3 DEF LinkQuarantine, LockTypeOK
    <3>2. OwnerIsOnDisk'
      BY <2>6
        DEF LinkQuarantine, OwnerIsOnDisk, Owners, Holding, Recovering,
            LockTypeOK
    <3>3. RecoversTheDead'
      BY <2>6
        DEF LinkQuarantine, RecoversTheDead, Recovering, Holding, LockTypeOK
    <3>4. FilesAreMinted'
      BY <2>6 DEF LinkQuarantine, FilesAreMinted, LockTypeOK
    <3> QED
      BY <3>1, <3>2, <3>3, <3>4
  <2>7. ASSUME NEW p \in Procs, Compare(p) PROVE LockInv'
    <3>1. LockTypeOK'
      BY <2>7 DEF Compare, LockTypeOK, Holding, Recovering
    <3>2. OwnerIsOnDisk'
      BY <2>7
        DEF Compare, OwnerIsOnDisk, Owners, Holding, Recovering, LockTypeOK
    <3>3. RecoversTheDead'
      BY <2>7 DEF Compare, RecoversTheDead, Recovering, Holding, LockTypeOK
    <3>4. FilesAreMinted'
      BY <2>7 DEF Compare, FilesAreMinted, LockTypeOK
    <3> QED
      BY <3>1, <3>2, <3>3, <3>4
  <2>8. ASSUME NEW p \in Procs, WriteArtifact(p) PROVE LockInv'
    <3>1. LockTypeOK'
      BY <2>8 DEF WriteArtifact, LockTypeOK, Holding, Recovering
    <3>2. OwnerIsOnDisk'
      BY <2>8
        DEF WriteArtifact, OwnerIsOnDisk, Owners, Holding, Recovering,
            LockTypeOK
    <3>3. RecoversTheDead'
      BY <2>8
        DEF WriteArtifact, RecoversTheDead, Recovering, Holding, LockTypeOK
    <3>4. FilesAreMinted'
      BY <2>8 DEF WriteArtifact, FilesAreMinted, LockTypeOK
    <3> QED
      BY <3>1, <3>2, <3>3, <3>4
  <2>9. ASSUME NEW p \in Procs, Recheck(p) PROVE LockInv'
    <3>1. LockTypeOK'
      BY <2>9 DEF Recheck, LockTypeOK, Holding, Recovering
    <3>2. OwnerIsOnDisk'
      BY <2>9
        DEF Recheck, OwnerIsOnDisk, Owners, Holding, Recovering, LockTypeOK
    <3>3. RecoversTheDead'
      BY <2>9 DEF Recheck, RecoversTheDead, Recovering, Holding, LockTypeOK
    <3>4. FilesAreMinted'
      BY <2>9 DEF Recheck, FilesAreMinted, LockTypeOK
    <3> QED
      BY <3>1, <3>2, <3>3, <3>4
  <2>10. ASSUME NEW p \in Procs, UnlinkStale(p) PROVE LockInv'
    <3>1. LockTypeOK'
      BY <2>10 DEF UnlinkStale, LockTypeOK, Holding, Recovering
    <3>2. OwnerIsOnDisk'
      \* A lock removed as meant is a dead process's, so no owner's.
      <4> SUFFICES ASSUME NEW q \in Owners'
                   PROVE  /\ mine[q] # 0 /\ owner[mine[q]] = q
                          /\ stray'
        BY <2>10 DEF UnlinkStale, OwnerIsOnDisk
      <4>1. q \in Owners /\ q \in live /\ q # p
        BY <2>10 DEF UnlinkStale, Owners, Holding, LockTypeOK
      <4>2. owner[seen[p]] \notin live
        BY <2>10 DEF UnlinkStale, RecoversTheDead, Recovering
      <4>3. mine[q] # 0 /\ owner[mine[q]] = q /\ (stray \/ lock = mine[q])
        BY <4>1 DEF OwnerIsOnDisk
      <4>4. stray \/ lock \notin {0, seen[p]}
        BY <4>1, <4>2, <4>3
      <4> QED
        BY <2>10, <4>3, <4>4 DEF UnlinkStale
    <3>3. RecoversTheDead'
      BY <2>10
        DEF UnlinkStale, RecoversTheDead, Recovering, Holding, LockTypeOK
    <3>4. FilesAreMinted'
      BY <2>10 DEF UnlinkStale, FilesAreMinted, LockTypeOK
    <3> QED
      BY <3>1, <3>2, <3>3, <3>4
  <2>11. ASSUME NEW p \in Procs, ReadOwn(p) PROVE LockInv'
    <3>1. LockTypeOK'
      BY <2>11 DEF ReadOwn, LockTypeOK, Holding, Recovering
    <3>2. OwnerIsOnDisk'
      BY <2>11
        DEF ReadOwn, OwnerIsOnDisk, Owners, Holding, Recovering, LockTypeOK
    <3>3. RecoversTheDead'
      BY <2>11 DEF ReadOwn, RecoversTheDead, Recovering, Holding, LockTypeOK
    <3>4. FilesAreMinted'
      BY <2>11 DEF ReadOwn, FilesAreMinted, LockTypeOK
    <3> QED
      BY <3>1, <3>2, <3>3, <3>4
  <2>12. ASSUME NEW p \in Procs, Release(p) PROVE LockInv'
    <3>1. LockTypeOK'
      BY <2>12 DEF Release, LockTypeOK, Holding, Recovering
    <3>2. OwnerIsOnDisk'
      BY <2>12
        DEF Release, OwnerIsOnDisk, Owners, Holding, Recovering, LockTypeOK
    <3>3. RecoversTheDead'
      BY <2>12 DEF Release, RecoversTheDead, Recovering, Holding, LockTypeOK
    <3>4. FilesAreMinted'
      BY <2>12 DEF Release, FilesAreMinted, LockTypeOK
    <3> QED
      BY <3>1, <3>2, <3>3, <3>4
  <2>13. ASSUME NEW p \in Procs, Die(p) PROVE LockInv'
    <3>1. LockTypeOK'
      BY <2>13 DEF Die, LockTypeOK, Holding, Recovering
    <3>2. OwnerIsOnDisk'
      BY <2>13 DEF Die, OwnerIsOnDisk, Owners, Holding, Recovering, LockTypeOK
    <3>3. RecoversTheDead'
      BY <2>13 DEF Die, RecoversTheDead, Recovering, Holding, LockTypeOK
    <3>4. FilesAreMinted'
      BY <2>13 DEF Die, FilesAreMinted, LockTypeOK
    <3> QED
      BY <3>1, <3>2, <3>3, <3>4
  <2>14. ASSUME NEW i \in Inodes, Expire(i) PROVE LockInv'
    <3>1. LockTypeOK'
      BY <2>14 DEF Expire, LockTypeOK, Holding, Recovering
    <3>2. OwnerIsOnDisk'
      BY <2>14
        DEF Expire, OwnerIsOnDisk, Owners, Holding, Recovering, LockTypeOK
    <3>3. RecoversTheDead'
      BY <2>14 DEF Expire, RecoversTheDead, Recovering, Holding, LockTypeOK
    <3>4. FilesAreMinted'
      BY <2>14 DEF Expire, FilesAreMinted, LockTypeOK
    <3> QED
      BY <3>1, <3>2, <3>3, <3>4
  <2> QED
    BY <2>1, <2>2, <2>3, <2>4, <2>5, <2>6, <2>7, <2>8, <2>9, <2>10, <2>11,
       <2>12, <2>13, <2>14 DEF LockNext, Step, Acquire, Retry
<1> QED
  BY <1>1, <1>2, PTL DEF LockSpec

(* Files and processes keep their types. *)
THEOREM LockTypeCorrect == LockSpec => []LockTypeOK
<1>1. LockInv => LockTypeOK
  BY DEF LockInv
<1> QED
  BY <1>1, LockInvariant, PTL

(* Two owners need an unlink that hit another lock than it was meant for.  *)
THEOREM LockOneOwnerUnlessStray == LockSpec => []OneOwnerUnlessStray
<1>1. LockInv => OneOwnerUnlessStray
  BY DEF LockInv, OwnerIsOnDisk, OneOwnerUnlessStray, OneOwner
<1> QED
  BY <1>1, LockInvariant, PTL

(* A dead process's lock is recorded before it disappears. *)
THEOREM LockRecoveryIsAudited == LockSpec => RecoveryIsAudited
<1> DEFINE Audited == lock # 0 /\ lock' # lock /\ owner[lock] \notin live /\ ~stray'
                          => lock \in artifacts
<1>1. LockInv /\ [LockNext]_lockVars => [Audited]_lockVars
  <2> SUFFICES ASSUME LockInv, [LockNext]_lockVars PROVE Audited \/ UNCHANGED lockVars
    OBVIOUS
  <2>1. CASE UNCHANGED lock
    BY <2>1
  <2>2. ASSUME NEW p \in Procs, NEW here, NEW there, CreateLock(p, here, there)
        PROVE  Audited
    BY <2>2 DEF CreateLock
  <2>3. ASSUME NEW p \in Procs, UnlinkStale(p) PROVE Audited
    BY <2>3 DEF UnlinkStale, At, LockInv, RecoversTheDead
  <2>4. ASSUME NEW p \in Procs, Release(p) PROVE Audited
    BY <2>4 DEF Release, At, LockInv, OwnerIsOnDisk, Owners, Holding
  <2> QED
    BY <2>1, <2>2, <2>3, <2>4
    DEF LockNext, Step, lockVars, lockFiles, procs, Acquire, Retry, WriteLease,
        ReadLease,
        ProbeOwner, LinkQuarantine, Compare, WriteArtifact, Recheck, ReadOwn,
        Die, Expire
<1> QED
  BY <1>1, LockInvariant, PTL DEF LockSpec, RecoveryIsAudited

------------------------------------------------------------------------------
(* What the pieces on disk are when a job file says stage s. *)
Backing(s) ==
    CASE s = "NONE" -> {}
      [] s = "ARTIFACTS" -> Artifacts
      [] s = "RDP_OBSERVATION_BATCH" -> Artifacts \cup {"OBSERVATION_BATCH"}
      [] s = "RDP_MEMBER_BATCH" -> Artifacts \cup Records
      [] s = "MANIFEST" -> Pieces \ {"published"}
      [] OTHER -> Pieces

OpenIsBacked == \A b \in Batches : Backing(open[b]) \subseteq have[b]

(* Pieces the step relies on, beyond those of the stage in memory. *)
WrittenAt ==
    /\ step \in {"members", "save_artifacts"} => "observations.parquet" \in have[batch]
    /\ step = "save_artifacts" => "members.parquet" \in have[batch]
    /\ step = "save_rdp_obs" => "OBSERVATION_BATCH" \in have[batch]
    /\ step = "save_rdp_member" => "OBSERVATION_MEMBER_BATCH" \in have[batch]
    /\ step \in {"member_partition", "manifest", "save_manifest"}
          => "partition" \in have[batch]
    /\ step \in {"manifest", "save_manifest"} => "member_partition" \in have[batch]
    /\ step = "save_manifest" => "manifest" \in have[batch]
    /\ step \in {"save_marker", "schedule", "receipt", "unlink"}
          => "published" \in have[batch]
    /\ step \in {"receipt", "unlink"} => sched
    /\ step = "unlink" => batch \in receipt

Away == {"idle", "raised", "repair"}
Fresh == {"parquet", "members", "save_artifacts"}
Closing == {"schedule", "receipt", "unlink"}

(* The stage in memory is the one on disk, and fits the step.     *)
StageAt ==
    /\ step \notin Away => batch \in Batches
    /\ step \notin Away \cup Closing \cup {"enter"} =>
          stage = open[batch] /\ batch \notin receipt
    /\ step = "enter" => stage = IF batch \in receipt THEN "COMPLETE" ELSE open[batch]
    /\ step \in Fresh => stage = "NONE"
    /\ step = "verify" => stage \in {"ARTIFACTS", "RDP_OBSERVATION_BATCH",
                                   "RDP_MEMBER_BATCH", "MANIFEST"}
    /\ step \in {"append_obs", "save_rdp_obs"} => stage = "ARTIFACTS"
    /\ step \in {"append_member", "save_rdp_member"} => stage = "RDP_OBSERVATION_BATCH"
    /\ step = "verify_rdp" => stage \in {"RDP_MEMBER_BATCH", "MANIFEST"}
    /\ step \in {"partition", "member_partition", "manifest", "save_manifest"}
          => stage = "RDP_MEMBER_BATCH"
    /\ step \in {"marker", "save_marker"} => stage = "MANIFEST"
    /\ step \in Closing => open[batch] # "NONE" \/ batch \in receipt

(* A ticking process has every open job in hand, and starts a new one only *)
(* when it has resumed them all.                                           *)
InHand ==
    step \notin {"idle", "raised"} =>
        /\ \A b \in Batches : open[b] # "NONE" =>
              b \in repair \/ (b = batch /\ step # "repair")
        /\ step \notin Away /\ stage = "NONE" => repair = {}
        /\ step \notin Away => batch \notin repair
        /\ \A b \in repair : open[b] # "NONE"

PubInv ==
    /\ PanelTypeOK
    /\ OpenIsBacked
    /\ WrittenAt
    /\ StageAt
    /\ InHand
    /\ VisibleIsComplete
    /\ CompletedIsRecorded
    /\ NeverInconsistent

USE BatchAssumption

(* No batch, no file, no tick: the initial state is consistent. *)
LEMMA PubInvInit == PanelInit => PubInv
BY DEF PanelInit, PubInv, PanelTypeOK, OpenIsBacked, WrittenAt, StageAt, InHand,
       VisibleIsComplete, CompletedIsRecorded, NeverInconsistent, Backing,
       Away, Fresh, Closing, Stages, Pieces

(* Every write of the publisher, and every crash, keeps the invariant. *)
LEMMA PubInvStep == PubInv /\ [PanelNext]_panelVars => PubInv'
<1> SUFFICES ASSUME PubInv, [PanelNext]_panelVars PROVE PubInv'
  OBVIOUS
<1> USE DEF PubInv, PanelTypeOK, OpenIsBacked, WrittenAt, StageAt, InHand,
        VisibleIsComplete, CompletedIsRecorded, NeverInconsistent, Backing,
        Away, Fresh, Closing, Stages, Pieces, Artifacts, Records, panelFiles
<1>1. CASE ListOpenJobs  BY <1>1 DEF ListOpenJobs
<1>2. CASE ResumeJob  BY <1>2 DEF ResumeJob, LoadJob
<1>3. CASE PublishBatch  BY <1>3 DEF PublishBatch, LoadJob
<1>4. CASE EndTick  BY <1>4 DEF EndTick
<1>5. CASE EnterBatch
  <2>1. CASE "published" \notin have[batch]
    <3>1. stage \notin {"MARKER", "COMPLETE"}
      BY <1>5, <2>1 DEF EnterBatch
    <3>2. stage = open[batch] /\ batch \notin receipt
      BY <1>5, <3>1 DEF EnterBatch
    <3>3. QED
      BY <1>5, <2>1, <3>1, <3>2 DEF EnterBatch, PanelGoto, Resume
  <2>2. CASE "published" \in have[batch]
    BY <1>5, <2>2 DEF EnterBatch, PanelGoto
  <2>3. QED
    BY <2>1, <2>2
<1>6. CASE WriteParquet  BY <1>6 DEF WriteParquet, Put
<1>7. CASE WriteMembers  BY <1>7 DEF WriteMembers, Put
<1>8. CASE SaveArtifacts  BY <1>8 DEF SaveArtifacts, SaveStage
<1>9. CASE VerifyArtifacts  BY <1>9 DEF VerifyArtifacts, PanelGoto
<1>10. CASE AppendObs  BY <1>10 DEF AppendObs, Put
<1>11. CASE SaveRdpObs  BY <1>11 DEF SaveRdpObs, SaveStage
<1>12. CASE AppendMember  BY <1>12 DEF AppendMember, Put
<1>13. CASE SaveRdpMember  BY <1>13 DEF SaveRdpMember, SaveStage
<1>14. CASE VerifyRecords  BY <1>14 DEF VerifyRecords, PanelGoto
<1>15. CASE PublishPartition  BY <1>15 DEF PublishPartition, Put
<1>16. CASE PublishMemberPartition  BY <1>16 DEF PublishMemberPartition, Put
<1>17. CASE PublishManifest  BY <1>17 DEF PublishManifest, Put
<1>18. CASE SaveManifest  BY <1>18 DEF SaveManifest, SaveStage
<1>19. CASE PublishMarker  BY <1>19 DEF PublishMarker, Put
<1>20. CASE SaveMarker  BY <1>20 DEF SaveMarker, SaveStage
<1>21. CASE PersistSchedule  BY <1>21 DEF PersistSchedule
<1>22. CASE WriteReceipt  BY <1>22 DEF WriteReceipt, Proven
<1>23. CASE UnlinkOpen  BY <1>23 DEF UnlinkOpen
<1>24. CASE PanelCrash  BY <1>24 DEF PanelCrash
<1>25. CASE UNCHANGED panelVars  BY <1>25 DEF panelVars
<1>26. QED
  BY <1>1, <1>2, <1>3, <1>4, <1>5, <1>6, <1>7, <1>8, <1>9, <1>10, <1>11,
     <1>12, <1>13, <1>14, <1>15, <1>16, <1>17, <1>18, <1>19, <1>20, <1>21,
     <1>22, <1>23, <1>24, <1>25 DEF PanelNext, PublishStep

(* PubInv is an inductive invariant of the publisher. *)
THEOREM PublicationInvariant == PanelSpec => []PubInv
BY PubInvInit, PubInvStep, PTL DEF PanelSpec

(* The variables of the publisher, its files and its markers stay in their *)
(* types in every interleaving of crashes and repairs.                     *)
THEOREM PublicationTypeCorrect == PanelSpec => []PanelTypeOK
<1>1. PubInv => PanelTypeOK
  BY DEF PubInv
<1>2. QED
  BY <1>1, PublicationInvariant, PTL

(* publish_observation_batch never shows readers a batch with a piece      *)
(* missing: the .published marker comes after all of them.                 *)
THEOREM PublicationVisibleIsComplete == PanelSpec => []VisibleIsComplete
<1>1. PubInv => VisibleIsComplete
  BY DEF PubInv
<1>2. QED
  BY <1>1, PublicationInvariant, PTL

(* complete_publication_job writes a receipt only for a visible batch      *)
(* whose schedule is in the RDP.                                           *)
THEOREM PublicationCompletedIsRecorded == PanelSpec => []CompletedIsRecorded
<1>1. PubInv => CompletedIsRecorded
  BY DEF PubInv
<1>2. QED
  BY <1>1, PublicationInvariant, PTL

(* Wherever a crash interrupts the publisher, the next tick can resume the *)
(* job: none of the publisher's consistency errors is ever raised.         *)
THEOREM PublicationNeverInconsistent == PanelSpec => []NeverInconsistent
<1>1. PubInv => NeverInconsistent
  BY DEF PubInv
<1>2. QED
  BY <1>1, PublicationInvariant, PTL

(* Every step of the publisher is a step of PanelBatches or none. *)
LEMMA PanelRefinementStep == PubInv /\ [PanelNext]_panelVars => [PB!Next]_(PB!vars)
<1> SUFFICES ASSUME PubInv, [PanelNext]_panelVars PROVE [PB!Next]_(PB!vars)
  OBVIOUS
<1> USE DEF PubInv, PanelTypeOK, StageAt, Away, Fresh, Closing, PB!vars
<1>1. CASE SaveArtifacts
  <2>1. \A b \in Batches : open[b] = "NONE"
    BY <1>1 DEF SaveArtifacts, InHand
  <2>2. PICK b \in Batches : b = batch
    BY <1>1 DEF SaveArtifacts
  <2>3. PB!Accept(b)
    BY <1>1, <2>1, <2>2 DEF SaveArtifacts, SaveStage, PB!Accept
  <2>4. QED
    BY <2>3 DEF PB!Next
<1>2. CASE PublishMarker
  <2>1. CASE "published" \in have[batch]
    BY <1>2, <2>1 DEF PublishMarker, Put
  <2>2. CASE "published" \notin have[batch]
    <3>1. PICK b \in Batches : b = batch
      BY <1>2 DEF PublishMarker
    <3>2. PB!Show(b)
      BY <1>2, <2>2, <3>1 DEF PublishMarker, Put, PB!Show
    <3>3. QED
      BY <3>2 DEF PB!Next
  <2>3. QED
    BY <2>1, <2>2
<1>3. CASE UnlinkOpen
  <2>1. CASE open[batch] = "NONE"
    BY <1>3, <2>1 DEF UnlinkOpen
  <2>2. CASE open[batch] # "NONE"
    <3>1. PICK b \in Batches : b = batch
      BY <1>3 DEF UnlinkOpen
    <3>2. PB!Finish(b)
      BY <1>3, <2>2, <3>1 DEF UnlinkOpen, PB!Finish, WrittenAt
    <3>3. QED
      BY <3>2 DEF PB!Next
  <2>3. QED
    BY <2>1, <2>2
<1>4. CASE WriteReceipt
  BY <1>4 DEF WriteReceipt, WrittenAt
<1>5. CASE SaveRdpObs \/ SaveRdpMember \/ SaveManifest \/ SaveMarker
  BY <1>5 DEF SaveRdpObs, SaveRdpMember, SaveManifest, SaveMarker, SaveStage
<1>6. CASE \/ WriteParquet \/ WriteMembers \/ AppendObs \/ AppendMember
           \/ PublishPartition \/ PublishMemberPartition \/ PublishManifest
  BY <1>6 DEF WriteParquet, WriteMembers, AppendObs, AppendMember,
     PublishPartition, PublishMemberPartition, PublishManifest, Put
<1>7. CASE \/ ListOpenJobs \/ ResumeJob \/ PublishBatch \/ EndTick \/ PanelCrash
           \/ EnterBatch \/ VerifyArtifacts \/ VerifyRecords
           \/ PersistSchedule \/ UNCHANGED panelVars
  BY <1>7 DEF ListOpenJobs, ResumeJob, PublishBatch, EndTick, PanelCrash,
     EnterBatch, VerifyArtifacts, VerifyRecords, PersistSchedule, PanelGoto,
     panelFiles, panelVars
<1>8. QED
  BY <1>1, <1>2, <1>3, <1>4, <1>5, <1>6, <1>7 DEF PanelNext, PublishStep

(* The staged, crash-interrupted publication implements the atomic one of  *)
(* PanelBatches: batches are accepted one at a time, shown once and done.  *)
THEOREM PublicationImplementsPanelBatches == PanelSpec => ImplementsPanelBatches
<1>1. PanelInit => PB!Init
  BY DEF PanelInit, PB!Init
<1>2. QED
  BY <1>1, PanelRefinementStep, PublicationInvariant, PTL
     DEF PanelSpec, ImplementsPanelBatches, PB!Spec
==============================================================================
