------------------------- MODULE PanelPublication -------------------------
(***************************************************************************)
(* publish_observation_batch and repair_open_publication_jobs              *)
(* (observation_panel_publisher.py, observation_publication_jobs.py): a    *)
(* batch is published in stages, each of which is durable before the open  *)
(* job is rewritten with the next stage name.  A crash, or an exception    *)
(* that leaves the tick, may come between any two writes; the next tick    *)
(* resumes every open job from its stage before it publishes anything.     *)
(*                                                                         *)
(* One activation of one schedule; the writer lease makes the tick the     *)
(* only publisher (module ScheduleLease).  Every file is written to a      *)
(* temporary name and renamed, so a write is one step.                     *)
(***************************************************************************)
EXTENDS Naturals

CONSTANTS
    Batches,    \* panels, by content_sha256
    NoBatch,    \* no panel
    MaxPanelCrashes  \* bound on crashes

ASSUME BatchAssumption == NoBatch \notin Batches /\ MaxPanelCrashes \in Nat

VARIABLES
    \* durable: the data root
    have,     \* pieces of every batch that are on disk or in the RDP
    open,     \* stage in the open job file of every batch; NONE is no file
    receipt,  \* batches with a compact receipt in completed/
    sched,    \* is the OBSERVATION_SCHEDULE record in the RDP
    \* volatile: the running tick
    step,     \* where the tick is
    repair,   \* open jobs it listed and has not resumed
    batch,    \* batch being published
    stage,    \* job["stage"] in memory
    \* environment
    panelCrashes

panelFiles == <<have, open, receipt, sched>>
panelVars == <<panelFiles, step, repair, batch, stage, panelCrashes>>

Pieces == {"observations.parquet", "members.parquet",
           "OBSERVATION_BATCH", "OBSERVATION_MEMBER_BATCH",
           "partition", "member_partition", "manifest", "published"}
Stages == {"NONE", "ARTIFACTS", "RDP_OBSERVATION_BATCH",
           "RDP_MEMBER_BATCH", "MANIFEST", "MARKER", "COMPLETE"}

Artifacts == {"observations.parquet", "members.parquet"}
Records == {"OBSERVATION_BATCH", "OBSERVATION_MEMBER_BATCH"}

(* publication_artifacts_proven: what a job needs to leave open/. *)
Proven(b) == Artifacts \cup {"manifest", "published"} \subseteq have[b]

PanelInit ==
    /\ have = [b \in Batches |-> {}]
    /\ open = [b \in Batches |-> "NONE"]
    /\ receipt = {} /\ sched = FALSE
    /\ step = "idle" /\ repair = {} /\ batch = NoBatch /\ stage = "NONE"
    /\ panelCrashes = 0

----------------------------------------------------------------------------
(* Mutant of ListOpenJobs: a tick does not look for open jobs. *)
BugListOpenJobs ==
    /\ step \in {"idle", "raised"}
    /\ repair' = {}
    /\ step' = "repair"
    /\ batch' = NoBatch /\ stage' = "NONE"
    /\ UNCHANGED <<panelFiles, panelCrashes>>

(* A tick starts: iter_open_job_paths. *)
ListOpenJobs ==
    /\ step \in {"idle", "raised"}
    /\ repair' = {b \in Batches : open[b] # "NONE"}
    /\ step' = "repair"
    /\ batch' = NoBatch /\ stage' = "NONE"
    /\ UNCHANGED <<panelFiles, panelCrashes>>

(* load_job_by_content: the receipt, else the open job, else nothing. *)
LoadJob(b) ==
    /\ batch' = b
    /\ stage' = IF b \in receipt THEN "COMPLETE" ELSE open[b]
    /\ step' = "enter"

ResumeJob ==
    /\ step = "repair"
    /\ \E b \in repair : LoadJob(b) /\ repair' = repair \ {b}
    /\ UNCHANGED <<panelFiles, panelCrashes>>

(* The tick's own rows, or an outbox batch that may be offered again. *)
PublishBatch ==
    /\ step = "repair" /\ repair = {}
    /\ \E b \in Batches : LoadJob(b)
    /\ UNCHANGED <<panelFiles, repair, panelCrashes>>

EndTick ==
    /\ step = "repair" /\ repair = {}
    /\ step' = "idle" /\ batch' = NoBatch /\ stage' = "NONE"
    /\ UNCHANGED <<panelFiles, repair, panelCrashes>>

----------------------------------------------------------------------------
PanelGoto(where) ==
    step' = where /\ UNCHANGED <<panelFiles, repair, batch, stage, panelCrashes>>

(* Where a batch goes on from the stage of its job. *)
Resume == IF stage = "NONE" THEN "parquet" ELSE "verify"

(* The .published marker decides: go on, or replay to the completion of    *)
(* the job.                                                                *)
EnterBatch ==
    /\ step = "enter"
    /\ \/ "published" \notin have[batch] /\ PanelGoto(Resume)
       \/ "published" \in have[batch]
          /\ PanelGoto(IF ~(Records \subseteq have[batch]) THEN "raised"
                  ELSE IF stage = "NONE" THEN "repair" ELSE "schedule")

(* _publish_immutable_bytes and ResearchStore.append: put if absent. *)
Put(piece, next) ==
    /\ have' = [have EXCEPT ![batch] = @ \cup {piece}]
    /\ step' = next
    /\ UNCHANGED <<open, receipt, sched, repair, batch, stage, panelCrashes>>

(* save_open_job: the stage in memory and on disk. *)
SaveStage(s, next) ==
    /\ stage' = s
    /\ open' = [open EXCEPT ![batch] = s]
    /\ step' = next
    /\ UNCHANGED <<have, receipt, sched, repair, batch, panelCrashes>>

WriteParquet == step = "parquet" /\ Put("observations.parquet", "members")
WriteMembers == step = "members" /\ Put("members.parquet", "save_artifacts")
SaveArtifacts == step = "save_artifacts" /\ SaveStage("ARTIFACTS", "verify")

(* Both artifacts must be there with the job's hashes, whatever the stage. *)
VerifyArtifacts ==
    /\ step = "verify"
    /\ PanelGoto(IF ~(Artifacts \subseteq have[batch]) THEN "raised"
            ELSE CASE stage = "ARTIFACTS" -> "append_obs"
                   [] stage = "RDP_OBSERVATION_BATCH" -> "append_member"
                   [] OTHER -> "verify_rdp")

AppendObs == step = "append_obs" /\ Put("OBSERVATION_BATCH", "save_rdp_obs")
SaveRdpObs ==
    step = "save_rdp_obs" /\ SaveStage("RDP_OBSERVATION_BATCH", "append_member")
AppendMember ==
    step = "append_member" /\ Put("OBSERVATION_MEMBER_BATCH", "save_rdp_member")
SaveRdpMember ==
    step = "save_rdp_member" /\ SaveStage("RDP_MEMBER_BATCH", "verify_rdp")

(* Both records are in the RDP, or the batch is PUBLICATION_INCOMPLETE. *)
VerifyRecords ==
    /\ step = "verify_rdp"
    /\ PanelGoto(IF ~(Records \subseteq have[batch]) THEN "raised"
            ELSE CASE stage = "RDP_MEMBER_BATCH" -> "partition"
                   [] stage = "MANIFEST" -> "marker"
                   [] OTHER -> "repair")

PublishPartition == step = "partition" /\ Put("partition", "member_partition")
(* Mutant of PublishMemberPartition: the dataset manifest is left out. *)
BugPublishMemberPartition ==
    step = "member_partition" /\ Put("member_partition", "save_manifest")

PublishMemberPartition ==
    step = "member_partition" /\ Put("member_partition", "manifest")
PublishManifest == step = "manifest" /\ Put("manifest", "save_manifest")
SaveManifest == step = "save_manifest" /\ SaveStage("MANIFEST", "marker")
PublishMarker == step = "marker" /\ Put("published", "save_marker")
SaveMarker == step = "save_marker" /\ SaveStage("MARKER", "schedule")

(* persist_observation_schedule. *)
PersistSchedule ==
    /\ step = "schedule"
    /\ sched' = TRUE
    /\ step' = "receipt"
    /\ UNCHANGED <<have, open, receipt, repair, batch, stage, panelCrashes>>

(* Mutant of WriteReceipt: an existing receipt ends the completion. *)
BugWriteReceipt ==
    /\ step = "receipt"
    /\ receipt' = IF Proven(batch) THEN receipt \cup {batch} ELSE receipt
    /\ step' = IF batch \in receipt THEN "repair"
             ELSE IF Proven(batch) THEN "unlink" ELSE "raised"
    /\ UNCHANGED <<have, open, sched, repair, batch, stage, panelCrashes>>

(* complete_publication_job: the compact receipt, then the open file goes. *)
WriteReceipt ==
    /\ step = "receipt"
    /\ receipt' = IF Proven(batch) THEN receipt \cup {batch} ELSE receipt
    /\ step' = IF batch \in receipt \/ Proven(batch) THEN "unlink" ELSE "raised"
    /\ UNCHANGED <<have, open, sched, repair, batch, stage, panelCrashes>>

UnlinkOpen ==
    /\ step = "unlink"
    /\ open' = [open EXCEPT ![batch] = "NONE"]
    /\ step' = "repair"
    /\ UNCHANGED <<have, receipt, sched, repair, batch, stage, panelCrashes>>

PanelCrash ==
    /\ step # "idle" /\ panelCrashes < MaxPanelCrashes
    /\ panelCrashes' = panelCrashes + 1
    /\ step' = "idle" /\ repair' = {} /\ batch' = NoBatch /\ stage' = "NONE"
    /\ UNCHANGED panelFiles

PublishStep ==
    \/ EnterBatch \/ WriteParquet \/ WriteMembers \/ SaveArtifacts
    \/ VerifyArtifacts \/ AppendObs \/ SaveRdpObs \/ AppendMember
    \/ SaveRdpMember \/ VerifyRecords \/ PublishPartition
    \/ PublishMemberPartition \/ PublishManifest \/ SaveManifest
    \/ PublishMarker \/ SaveMarker \/ PersistSchedule \/ WriteReceipt
    \/ UnlinkOpen

PanelNext == ListOpenJobs \/ ResumeJob \/ PublishBatch \/ EndTick \/ PublishStep
        \/ PanelCrash

PanelSpec == PanelInit /\ [][PanelNext]_panelVars

(* The timer starts ticks again and again, and a tick runs to its end.     *)
PanelFairSpec ==
    /\ PanelSpec
    /\ WF_panelVars(ListOpenJobs) /\ WF_panelVars(ResumeJob)
    /\ WF_panelVars(PublishStep) /\ WF_panelVars(EndTick)

----------------------------------------------------------------------------
(* Every variable keeps to its values. *)
PanelTypeOK ==
    /\ have \in [Batches -> SUBSET Pieces]
    /\ open \in [Batches -> Stages \ {"COMPLETE"}]
    /\ receipt \subseteq Batches /\ sched \in BOOLEAN
    /\ step \in {"idle", "raised", "repair", "enter", "parquet", "members",
               "save_artifacts", "verify", "append_obs", "save_rdp_obs",
               "append_member", "save_rdp_member", "verify_rdp", "partition",
               "member_partition", "manifest", "save_manifest", "marker",
               "save_marker", "schedule", "receipt", "unlink"}
    /\ repair \subseteq Batches /\ batch \in Batches \cup {NoBatch}
    /\ stage \in Stages

(* A batch readers can see (its .published marker exists) is complete:     *)
(* rebuild_observation_panel_from_rdp finds its manifest, partitions,      *)
(* files and records, whenever it looks.                                   *)
VisibleIsComplete ==
    \A b \in Batches : "published" \in have[b] => have[b] = Pieces

(* A batch is only dropped from open/ when it is visible and its schedule  *)
(* is in the RDP.                                                          *)
CompletedIsRecorded ==
    \A b \in receipt : "published" \in have[b] /\ sched

(* No crash leaves a state in which the publisher refuses to go on:        *)
(* PUBLICATION_INCOMPLETE, CANONICAL_TARGET_CONFLICT and                   *)
(* PUBLICATION_NOT_PROVEN are never raised.                                *)
NeverInconsistent == step # "raised"

PB == INSTANCE PanelBatches WITH
        accepted <- {b \in Batches : open[b] # "NONE" \/ b \in receipt},
        visible <- {b \in Batches : "published" \in have[b]},
        done <- {b \in receipt : open[b] = "NONE"}

(* The staged publication implements PanelBatches: a batch is accepted     *)
(* when its first job file is saved, visible with its marker and done when *)
(* the job file is gone, one batch at a time, across crashes.              *)
ImplementsPanelBatches == PB!Spec

(* Every open job is eventually completed and unlinked. *)
EveryOpenJobCompletes ==
    \A b \in Batches : open[b] # "NONE" ~> (open[b] = "NONE" /\ b \in receipt)
============================================================================
