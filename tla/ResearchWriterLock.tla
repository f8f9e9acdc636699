------------------------ MODULE ResearchWriterLock -------------------------
(***************************************************************************)
(* The writer lock of the research store (research_store.py): a lease file *)
(* created with O_EXCL, and the recovery of one whose owner died.  One     *)
(* action per system call that other processes can get in between of.      *)
(*                                                                         *)
(* All processes run on one host, so that a pid probe answers ALIVE or     *)
(* DEAD; a lease from another host, a symbolic link or an UNKNOWN probe    *)
(* only ever refuses.  A lease may expire at any time after it is written, *)
(* also under a live owner.                                                *)
(***************************************************************************)
EXTENDS Naturals, FiniteSets

CONSTANTS
    Procs,      \* processes that open the store
    NoProc,
    MaxInodes,  \* bound on the lock files ever created
    MaxDeaths   \* bound on the processes that die

Inodes == 1 .. MaxInodes

ASSUME LockAssumption ==
    NoProc \notin Procs /\ MaxInodes \in Nat /\ MaxDeaths \in Nat

VARIABLES
    \* the file system
    lock,       \* inode at locks/research-writer.lock, 0: none
    quar,       \* inode at locks/recovery/reclaimed-<token>.lock, 0: none
    artifacts,  \* tokens with a recovery artifact
    written,    \* inodes whose lease bytes have been written
    expired,    \* leases past their expiry
    \* the processes
    owner,      \* who created an inode: pid and token of its lease
    live, lockPc,
    mine,       \* the inode a process created
    seen,       \* the lease it is recovering
    claimed,    \* whether it made the quarantine link itself
    \* history
    minted,     \* lock files created so far
    stray       \* some unlink hit a lock other than the one it was for

lockFiles == <<lock, quar, artifacts, written, expired>>
procs == <<owner, live, lockPc, mine, seen, claimed>>
lockVars == <<lockFiles, procs, minted, stray>>

Holding == {"created", "own", "releasing"}
Recovering == {"link", "compare", "artifact", "gone", "recheck",
               "unlink"}

LockInit ==
    /\ lock = 0 /\ quar = [i \in Inodes |-> 0] /\ artifacts = {}
    /\ written = {} /\ expired = {}
    /\ owner = [i \in Inodes |-> NoProc] /\ live = Procs
    /\ lockPc = [p \in Procs |-> "idle"]
    /\ mine = [p \in Procs |-> 0] /\ seen = [p \in Procs |-> 0]
    /\ claimed = [p \in Procs |-> FALSE]
    /\ minted = 0 /\ stray = FALSE

At(p, here) == p \in live /\ lockPc[p] = here
Goto(p, there) == lockPc' = [lockPc EXCEPT ![p] = there]

----------------------------------------------------------------------------
(* os.open(O_CREAT | O_EXCL): the first attempt and the one retry differ   *)
(* in what follows when the file exists.                                   *)
CreateLock(p, here, there) ==
    /\ At(p, here)
    /\ IF lock = 0
       THEN /\ minted < MaxInodes
            /\ minted' = minted + 1
            /\ lock' = minted + 1
            /\ owner' = [owner EXCEPT ![minted + 1] = p]
            /\ mine' = [mine EXCEPT ![p] = minted + 1]
            /\ Goto(p, "created")
       ELSE Goto(p, there) /\ UNCHANGED <<minted, lock, owner, mine>>
    /\ UNCHANGED <<quar, artifacts, written, expired, live, seen, claimed, stray>>

Acquire(p) == CreateLock(p, "idle", "stale")
Retry(p) == CreateLock(p, "retry", "idle")

WriteLease(p) ==
    /\ At(p, "created")
    /\ written' = written \cup {mine[p]}
    /\ Goto(p, "own")
    /\ UNCHANGED <<lock, quar, artifacts, expired, owner, live, mine, seen,
                   claimed, minted, stray>>

----------------------------------------------------------------------------
(* _attempt_stale_writer_lease_recovery: an unwritten file is taken for a  *)
(* live owner between create and write, WRITER_BUSY.                       *)
ReadLease(p) ==
    /\ At(p, "stale")
    /\ \/ lock = 0 /\ Goto(p, "retry") /\ UNCHANGED seen
       \/ lock # 0 /\ lock \notin written /\ Goto(p, "idle") /\ UNCHANGED seen
       \/ /\ lock \in written
          /\ seen' = [seen EXCEPT ![p] = lock]
          /\ Goto(p, "probe")
    /\ UNCHANGED <<lockFiles, owner, live, mine, claimed, minted, stray>>

(* Mutant of ProbeOwner: expiry alone makes a lease stale. *)
BugProbeOwner(p) ==
    /\ At(p, "probe")
    /\ Goto(p, IF seen[p] \in expired THEN "link" ELSE "idle")
    /\ UNCHANGED <<lockFiles, owner, live, mine, seen, claimed, minted, stray>>

ProbeOwner(p) ==
    /\ At(p, "probe")
    /\ Goto(p, IF seen[p] \in expired /\ owner[seen[p]] \notin live
               THEN "link" ELSE "idle")
    /\ UNCHANGED <<lockFiles, owner, live, mine, seen, claimed, minted, stray>>

(* Mutant of LinkQuarantine: an existing link is always a race. *)
BugLinkQuarantine(p) ==
    /\ At(p, "link")
    /\ \/ /\ lock = 0 \/ quar[seen[p]] # 0
          /\ Goto(p, "retry")
          /\ UNCHANGED <<quar, claimed>>
       \/ /\ lock # 0 /\ quar[seen[p]] = 0
          /\ quar' = [quar EXCEPT ![seen[p]] = lock]
          /\ claimed' = [claimed EXCEPT ![p] = TRUE]
          /\ Goto(p, "compare")
    /\ UNCHANGED <<lock, artifacts, written, expired, owner, live, mine, seen,
                   minted, stray>>

(* os.link to the quarantine name.  An existing link with the bytes of     *)
(* this lease is what a recovery that died left behind.                    *)
LinkQuarantine(p) ==
    /\ At(p, "link")
    /\ \/ lock = 0 /\ Goto(p, "retry") /\ UNCHANGED <<quar, claimed>>
       \/ /\ lock # 0 /\ quar[seen[p]] # 0
          /\ Goto(p, IF quar[seen[p]] = seen[p] THEN "compare" ELSE "retry")
          /\ claimed' = [claimed EXCEPT ![p] = FALSE]
          /\ UNCHANGED quar
       \/ /\ lock # 0 /\ quar[seen[p]] = 0
          /\ quar' = [quar EXCEPT ![seen[p]] = lock]
          /\ claimed' = [claimed EXCEPT ![p] = TRUE]
          /\ Goto(p, "compare")
    /\ UNCHANGED <<lock, artifacts, written, expired, owner, live, mine, seen,
                   minted, stray>>

(* Is the quarantined file the lease that was read, and still the lock?    *)
(* A vanished quarantine is WRITER_LEASE_RECOVERY_FAILED, a different file *)
(* WRITER_LEASE_RECOVERY_RACE, after dropping a link of one's own.         *)
Compare(p) ==
    /\ At(p, "compare")
    /\ \/ quar[seen[p]] = 0 /\ Goto(p, "idle") /\ UNCHANGED quar
       \/ /\ quar[seen[p]] = seen[p] /\ lock \in {0, seen[p]}
          /\ Goto(p, IF lock = 0 THEN "gone" ELSE "artifact")
          /\ UNCHANGED quar
       \/ /\ quar[seen[p]] # 0
          /\ quar[seen[p]] # seen[p] \/ lock \notin {0, seen[p]}
          /\ Goto(p, "retry")
          /\ quar' = IF claimed[p] THEN [quar EXCEPT ![seen[p]] = 0] ELSE quar
    /\ UNCHANGED <<lock, artifacts, written, expired, owner, live, mine, seen,
                   claimed, minted, stray>>

(* _write_writer_lease_recovery_artifact, create-only. *)
WriteArtifact(p) ==
    /\ At(p, "artifact") \/ At(p, "gone")
    /\ artifacts' = artifacts \cup {seen[p]}
    /\ Goto(p, IF lockPc[p] = "gone" THEN "retry" ELSE "recheck")
    /\ UNCHANGED <<lock, quar, written, expired, owner, live, mine, seen,
                   claimed, minted, stray>>

(* stat of both names: same inode? *)
Recheck(p) ==
    /\ At(p, "recheck")
    /\ Goto(p, IF lock # 0 /\ lock = quar[seen[p]] THEN "unlink" ELSE "retry")
    /\ UNCHANGED <<lockFiles, owner, live, mine, seen, claimed, minted, stray>>

(* unlink of the name, whatever file it names by now. *)
UnlinkStale(p) ==
    /\ At(p, "unlink")
    /\ stray' = (stray \/ lock \notin {0, seen[p]})
    /\ lock' = 0
    /\ Goto(p, "retry")
    /\ UNCHANGED <<quar, artifacts, written, expired, owner, live, mine, seen,
                   claimed, minted>>

----------------------------------------------------------------------------
(* The end of the critical section: the token is read back, then the name  *)
(* is unlinked.                                                            *)
ReadOwn(p) ==
    /\ At(p, "own")
    /\ Goto(p, IF lock = mine[p] THEN "releasing" ELSE "idle")
    /\ UNCHANGED <<lockFiles, owner, live, mine, seen, claimed, minted, stray>>

Release(p) ==
    /\ At(p, "releasing")
    /\ stray' = (stray \/ lock \notin {0, mine[p]})
    /\ lock' = 0
    /\ Goto(p, "idle")
    /\ UNCHANGED <<quar, artifacts, written, expired, owner, live, mine, seen,
                   claimed, minted>>

Expire(i) ==
    /\ i \in written \ expired
    /\ expired' = expired \cup {i}
    /\ UNCHANGED <<lock, quar, artifacts, written, procs, minted, stray>>

Die(p) ==
    /\ p \in live /\ Cardinality(Procs \ live) < MaxDeaths
    /\ live' = live \ {p}
    /\ UNCHANGED <<lockFiles, owner, lockPc, mine, seen, claimed, minted, stray>>

Step(p) ==
    \/ Acquire(p) \/ Retry(p) \/ WriteLease(p)
    \/ ReadLease(p) \/ ProbeOwner(p) \/ LinkQuarantine(p) \/ Compare(p)
    \/ WriteArtifact(p) \/ Recheck(p) \/ UnlinkStale(p)
    \/ ReadOwn(p) \/ Release(p)

LockNext ==
    \/ \E p \in Procs : Step(p) \/ Die(p)
    \/ \E i \in Inodes : Expire(i)

LockSpec == LockInit /\ [][LockNext]_lockVars

(* Writers come back (the timer, the operator), a process that runs goes   *)
(* on, and leases expire.                                                  *)
LockFairSpec ==
    /\ LockSpec
    /\ \A p \in Procs : WF_lockVars(Step(p))
    /\ \A i \in Inodes : WF_lockVars(Expire(i))

----------------------------------------------------------------------------
(* Every variable keeps to its values. *)
LockTypeOK ==
    /\ lock \in {0} \cup Inodes /\ minted \in {0} \cup Inodes
    /\ quar \in [Inodes -> {0} \cup Inodes]
    /\ artifacts \subseteq Inodes /\ written \subseteq Inodes
    /\ expired \subseteq Inodes
    /\ owner \in [Inodes -> Procs \cup {NoProc}] /\ live \subseteq Procs
    /\ lockPc \in [Procs -> Holding \cup Recovering
                        \cup {"idle", "stale", "probe", "retry"}]
    /\ mine \in [Procs -> {0} \cup Inodes] /\ seen \in [Procs -> {0} \cup Inodes]
    /\ claimed \in [Procs -> BOOLEAN] /\ stray \in BOOLEAN
    /\ \A p \in Procs : lockPc[p] \in Recovering \cup {"probe"} => seen[p] # 0

Owners == {p \in live : lockPc[p] \in Holding}

(* "At most one process may successfully own the research writer lease."   *)
(* The recheck before the unlink does not make the two one step, and a     *)
(* second recovery of the same dead lease can remove the winner's lock.    *)
OneOwner == \A p, q \in Owners : p = q

(* That unlink is the only way to two owners: expiry under a live owner,   *)
(* death at any point of a recovery and quarantine links left behind are   *)
(* all harmless.                                                           *)
OneOwnerUnlessStray == stray \/ OneOwner

(* The lock of a dead process disappears only after its recovery artifact  *)
(* is on disk, also when the recovery that linked it died.                 *)
RecoveryIsAudited ==
    [][lock # 0 /\ lock' # lock /\ owner[lock] \notin live /\ ~stray'
           => lock \in artifacts]_lockVars

(* The written lease of a dead process is reclaimed by whoever is left.    *)
DeadLeaseIsReclaimed ==
    \A i \in Inodes :
        (lock = i /\ i \in written /\ owner[i] \notin live) ~> (lock # i)

(* A process that dies after creating the lock does not leave the write    *)
(* path stuck.  It does if it dies before it wrote the lease.              *)
DeadOwnerIsReclaimed ==
    \A i \in Inodes : (lock = i /\ owner[i] \notin live) ~> (lock # i)
============================================================================
