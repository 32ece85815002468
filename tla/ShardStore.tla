----------------------------- MODULE ShardStore -----------------------------
(***************************************************************************)
(* The storage path of one logical shard: its write-ahead log, its         *)
(* manifest-selected checkpoint, and the in-memory shard (an active        *)
(* segment and tombstones over an immutable generation) that readers see.  *)
(*                                                                         *)
(* Every mutation, checkpoint and snapshot installation runs under the     *)
(* engine's lock, so operations do not interleave with each other; but     *)
(* each is a sequence of durable steps, and the process may crash, or an   *)
(* I/O error may end the operation, between any two of them.  pc is the    *)
(* next step of the operation that holds the lock ("idle": none).          *)
(*                                                                         *)
(* The multi-segment manifest is represented by what recovery reads from   *)
(* it: the materialized view of its segment list, its MaxLSN and           *)
(* RecordCount, and the MaxLSN of its last segment.                        *)
(***************************************************************************)
EXTENDS ShardData

CONSTANTS
    SyncAlways,       \* wal.SyncAlways (TRUE) or wal.SyncAsync (FALSE)
    Mapped,           \* TRUE: flat index, checkpoints are installed from disk
    CheckpointEvery,  \* automatic checkpoint threshold, 0: disabled
    SnapshotSeqs,     \* sequences at which a leader may send a snapshot
    SnapshotViews,    \* and the views it may hold
    CrashPoints,      \* steps before which the process may crash
    FailPoints,       \* steps that may return an I/O error
    MaxLSN,           \* bound on log sequence numbers
    MaxCrashes,       \* bound on the number of crashes and closes
    Down              \* what is served while the shard is not open

Steps == {"idle", "apply", "applyReplica", "sync", "publish", "reset",
          "install", "snapReset", "snapInstall"}

ASSUME StoreAssumption ==
    /\ SyncAlways \in BOOLEAN
    /\ Mapped \in BOOLEAN
    /\ CheckpointEvery \in Nat
    /\ MaxLSN \in Nat \ {0}
    /\ MaxCrashes \in Nat
    /\ SnapshotSeqs \subseteq 1..MaxLSN
    /\ SnapshotViews \subseteq Views
    /\ CrashPoints \subseteq Steps
    /\ FailPoints \subseteq Steps
    /\ Down \notin Views

VARIABLES
    \* on disk
    walBase,        \* the file holds the records of LSNs walBase+1 .. walLast
    walLast,
    walOps,         \* mutation of every LSN in the file, Nop elsewhere
    synced,         \* records up to this LSN survive a crash
    manifest,
    \* in memory
    mode,           \* "open", "down", "replay" or "failed" (startup error)
    pc,
    nextLSN,
    checkpointLSN,
    mutations,      \* since the last checkpoint or restart
    digests,        \* walDigests: fingerprint (the mutation) per LSN, Nop: none
    active, tombstones, immutable,
    replayed,       \* LSN reached by recovery
    \* bookkeeping
    crashes,
    hist            \* view as of every LSN from the checkpoint on

disk   == <<walBase, walLast, walOps, synced>>
shard  == <<active, tombstones, immutable>>
memory == <<nextLSN, checkpointLSN, mutations, digests, replayed>>
vars   == <<disk, manifest, mode, pc, memory, shard, crashes, hist>>

LSNs == 1..MaxLSN
NoManifest == [format |-> 0, maxLSN |-> 0, view |-> Empty, count |-> 0,
               tip |-> 0, ordered |-> TRUE]
NoOps == [l \in LSNs |-> Nop]

\* LastLSN of the open log.
LastLSN == nextLSN - 1

\* Shard.Get/Records: active first, then tombstones hide the immutable base.
Live == [k \in Keys |-> IF active[k] # Missing THEN active[k]
                        ELSE IF k \in tombstones THEN Missing ELSE immutable[k]]

\* What LoadManifest and the record count check of loadSegments accept.
LoadManifestOK(m) == m.format = 3 => m.ordered /\ m.tip = m.maxLSN
LoadSegmentsOK(m) == LoadManifestOK(m) /\ m.count = Count(m.view)

Init ==
    /\ walBase = 0 /\ walLast = 0 /\ walOps = NoOps /\ synced = 0
    /\ manifest = NoManifest
    /\ mode = "open" /\ pc = "idle"
    /\ nextLSN = 1 /\ checkpointLSN = 0 /\ mutations = 0 /\ digests = NoOps
    /\ active = Empty /\ tombstones = {} /\ immutable = Empty
    /\ replayed = 0 /\ crashes = 0
    /\ hist = [l \in 0..MaxLSN |-> Empty]

Idle == mode = "open" /\ pc = "idle"
At(step) == mode = "open" /\ pc = step

-----------------------------------------------------------------------------
(* Mutations *)

\* Log.Append, and the view the mutation leads to.
AppendWal(op) ==
    /\ nextLSN <= MaxLSN
    /\ walOps' = [walOps EXCEPT ![nextLSN] = op]
    /\ walBase' = IF walBase = walLast THEN nextLSN - 1 ELSE walBase
    /\ walLast' = nextLSN
    /\ synced' = IF SyncAlways THEN nextLSN ELSE synced
    /\ nextLSN' = nextLSN + 1
    /\ hist' = [hist EXCEPT ![nextLSN] = Overlay(hist[nextLSN - 1], op)]

\* Upsert, BatchUpsert, BatchUpsertShardIdempotent without a key.
Upsert(op) ==
    /\ Idle /\ op \in Upserts
    /\ AppendWal(op)
    /\ pc' = "apply"
    /\ UNCHANGED <<manifest, mode, checkpointLSN, mutations, digests, replayed,
                   shard, crashes>>

\* Delete, DeleteShardWithSequence: the record must exist.
Delete(k) ==
    /\ Idle /\ Live[k] # Missing
    /\ AppendWal(DeleteOf(k))
    /\ pc' = "apply"
    /\ UNCHANGED <<manifest, mode, checkpointLSN, mutations, digests, replayed,
                   shard, crashes>>

\* ApplyReplicaBatch, ApplyReplicaDelete at exactly the next sequence.
ApplyReplica(seq, op) ==
    /\ Idle /\ seq = LastLSN + 1
    /\ AppendWal(op)
    /\ pc' = "applyReplica"
    /\ UNCHANGED <<manifest, mode, checkpointLSN, mutations, digests, replayed,
                   shard, crashes>>

\* Mutant: a retry is accepted without comparing fingerprints.
RetryUnchecked(seq, op) == IF digests[seq] = Nop THEN "compacted" ELSE "ok"

\* The answer to a replica mutation at a sequence the log is already past.
ReplicaRetry(seq, op) ==
    IF digests[seq] = Nop THEN "compacted"
    ELSE IF digests[seq] # op THEN "conflict" ELSE "ok"

\* Mutant: an upsert leaves the key's tombstone in place.
ApplyKeepingTombstones(op) ==
    /\ active' = [k \in Keys |-> IF op[k] = Keep THEN active[k] ELSE op[k]]
    /\ tombstones' = tombstones
                     \cup {k \in Keys : op[k] = Missing /\ immutable[k] # Missing}
    /\ UNCHANGED immutable

\* Shard.Upsert for every record, or Shard.Delete.
ApplyToShard(op) ==
    /\ active' = [k \in Keys |-> IF op[k] = Keep THEN active[k] ELSE op[k]]
    /\ tombstones' = (tombstones \ {k \in Keys : op[k] \in Values})
                     \cup {k \in Keys : op[k] = Missing /\ immutable[k] # Missing}
    /\ UNCHANGED immutable

\* The mutation becomes visible; a leader then checkpoints at the threshold.
Apply ==
    /\ At("apply")
    /\ ApplyToShard(walOps[LastLSN])
    /\ mutations' = mutations + Cardinality(Touched(walOps[LastLSN]))
    /\ pc' = IF CheckpointEvery > 0 /\ mutations' >= CheckpointEvery
             THEN "sync" ELSE "idle"
    /\ UNCHANGED <<disk, manifest, mode, nextLSN, checkpointLSN, digests,
                   replayed, crashes, hist>>

\* A follower keeps the fingerprint and never checkpoints by itself.
ApplyOnReplica ==
    /\ At("applyReplica")
    /\ ApplyToShard(walOps[LastLSN])
    /\ mutations' = mutations + Cardinality(Touched(walOps[LastLSN]))
    /\ digests' = [digests EXCEPT ![LastLSN] = walOps[LastLSN]]
    /\ pc' = "idle"
    /\ UNCHANGED <<disk, manifest, mode, nextLSN, checkpointLSN, replayed,
                   crashes, hist>>

-----------------------------------------------------------------------------
(* Checkpoint: checkpointShardLocked *)

\* Engine.Checkpoint on request.
Checkpoint ==
    /\ Idle
    /\ pc' = "sync"
    /\ UNCHANGED <<disk, manifest, mode, memory, shard, crashes, hist>>

NoDelta == active = Empty /\ tombstones = {}

\* Mutant: the checkpoint does not sync the log first.
CheckpointUnsynced ==
    /\ At("sync")
    /\ pc' = IF \/ LastLSN < checkpointLSN
                \/ ~LoadManifestOK(manifest)
                \/ manifest.format = 3 /\ LastLSN = manifest.maxLSN /\ NoDelta
             THEN "idle" ELSE "publish"
    /\ UNCHANGED <<disk, manifest, mode, memory, shard, crashes, hist>>

\* Sync the log; stop on a regressed LSN, an unreadable manifest, or when the
\* manifest already covers everything.
CheckpointSync ==
    /\ At("sync")
    /\ synced' = walLast
    /\ pc' = IF \/ LastLSN < checkpointLSN
                \/ ~LoadManifestOK(manifest)
                \/ manifest.format = 3 /\ LastLSN = manifest.maxLSN /\ NoDelta
             THEN "idle" ELSE "publish"
    /\ UNCHANGED <<walBase, walLast, walOps, manifest, mode, memory, shard,
                   crashes, hist>>

\* Mutant: the manifest advances without its delta segment.
ManifestWithoutDelta ==
    /\ At("publish")
    /\ manifest' = [manifest EXCEPT !.format = 3, !.maxLSN = LastLSN, !.tip = LastLSN,
                                    !.count = Count(Live)]
    /\ pc' = "reset"
    /\ UNCHANGED <<disk, mode, memory, shard, crashes, hist>>

\* Write the delta segment when there is a delta, then SaveManifest.
SaveManifest ==
    /\ At("publish")
    /\ LET writeDelta == manifest.format = 0 \/ ~NoDelta IN
       manifest' = [format |-> 3,
                    maxLSN |-> LastLSN,
                    view   |-> MergeSegment(manifest.view, active, tombstones),
                    count  |-> Count(Live),
                    tip    |-> IF writeDelta THEN LastLSN ELSE manifest.tip,
                    ordered |-> writeDelta /\ manifest.format # 0
                                  => manifest.tip < LastLSN]
    /\ pc' = "reset"
    /\ UNCHANGED <<disk, mode, memory, shard, crashes, hist>>

\* Log.Reset(manifest.MaxLSN + 1).
ResetWal ==
    /\ walBase' = manifest.maxLSN
    /\ walLast' = manifest.maxLSN
    /\ walOps' = NoOps
    /\ synced' = manifest.maxLSN
    /\ nextLSN' = manifest.maxLSN + 1
    /\ hist' = [l \in 0..MaxLSN |-> IF l < manifest.maxLSN THEN Empty ELSE hist[l]]

CheckpointReset ==
    /\ At("reset")
    /\ ResetWal
    /\ digests' = NoOps
    /\ pc' = "install"
    /\ UNCHANGED <<manifest, mode, checkpointLSN, mutations, replayed, shard,
                   crashes>>

\* Mutant: the old generation stays in place.
InstallNothing(base) ==
    /\ active' = Empty
    /\ tombstones' = {}
    /\ checkpointLSN' = manifest.maxLSN
    /\ mutations' = 0
    /\ pc' = "idle"
    /\ UNCHANGED immutable

\* Shard.InstallImmutable, and the counters of the new checkpoint.
InstallImmutable(base) ==
    /\ immutable' = base
    /\ active' = Empty
    /\ tombstones' = {}
    /\ checkpointLSN' = manifest.maxLSN
    /\ mutations' = 0
    /\ pc' = "idle"

\* A flat shard is mapped back from the manifest, others keep their records.
CheckpointInstall ==
    /\ At("install")
    /\ InstallImmutable(IF Mapped THEN manifest.view ELSE Live)
    /\ UNCHANGED <<disk, manifest, mode, nextLSN, digests, replayed, crashes, hist>>

-----------------------------------------------------------------------------
(* InstallReplicaSnapshot *)

SnapshotPublish(seq, view) ==
    /\ Idle /\ seq >= LastLSN
    /\ LoadManifestOK(manifest)
    /\ manifest' = [format |-> 2, maxLSN |-> seq, view |-> view,
                    count |-> Count(view), tip |-> seq, ordered |-> TRUE]
    /\ hist' = [hist EXCEPT ![seq] = view]
    /\ pc' = "snapReset"
    /\ UNCHANGED <<disk, mode, memory, shard, crashes>>

SnapshotReset ==
    /\ At("snapReset")
    /\ ResetWal
    /\ pc' = "snapInstall"
    /\ UNCHANGED <<manifest, mode, checkpointLSN, mutations, digests, replayed,
                   shard, crashes>>

SnapshotInstall ==
    /\ At("snapInstall")
    /\ InstallImmutable(manifest.view)
    /\ digests' = NoOps
    /\ UNCHANGED <<disk, manifest, mode, nextLSN, replayed, crashes, hist>>

-----------------------------------------------------------------------------
(* Errors, crashes and recovery *)

\* A step of a checkpoint or snapshot installation returns an I/O error: the
\* operation ends there and the lock is released.
OpError ==
    /\ mode = "open" /\ pc # "idle" /\ pc \in FailPoints
    /\ pc' = "idle"
    /\ UNCHANGED <<disk, manifest, mode, memory, shard, crashes, hist>>

\* The process loses its memory.
LoseMemory ==
    /\ mode' = "down" /\ pc' = "idle"
    /\ nextLSN' = 1 /\ checkpointLSN' = 0 /\ mutations' = 0 /\ digests' = NoOps
    /\ active' = Empty /\ tombstones' = {} /\ immutable' = Empty
    /\ replayed' = 0
    /\ crashes' = crashes + 1

\* The file keeps the records up to last; what comes after it is forgotten.
KeepWal(last) ==
    /\ walLast' = last
    /\ synced' = last
    /\ walOps' = [l \in LSNs |-> IF l <= last THEN walOps[l] ELSE Nop]
    /\ hist' = [l \in 0..MaxLSN |->
                  IF l <= last \/ l = manifest.maxLSN THEN hist[l] ELSE Empty]
    /\ UNCHANGED walBase

\* Mutant: recovery truncates synced records too.
CrashLosingSynced ==
    /\ mode \in {"open", "replay"} /\ pc \in CrashPoints
    /\ crashes < MaxCrashes
    /\ \E last \in walBase..walLast : KeepWal(last)
    /\ LoseMemory
    /\ UNCHANGED manifest

\* A crash keeps the synced records and any prefix of the unsynced ones; a
\* torn record is truncated by recoverFile and counts as lost.
Crash ==
    /\ mode \in {"open", "replay"} /\ pc \in CrashPoints
    /\ crashes < MaxCrashes
    /\ \E last \in synced..walLast : KeepWal(last)
    /\ LoseMemory
    /\ UNCHANGED manifest

\* Engine.Close: syncs the log.
Close ==
    /\ Idle /\ crashes < MaxCrashes
    /\ KeepWal(walLast)
    /\ LoseMemory
    /\ UNCHANGED manifest

\* OpenWithOptions: loadSegments installs the manifest's view.
Open ==
    /\ mode = "down"
    /\ IF LoadSegmentsOK(manifest)
         THEN /\ mode' = "replay"
              /\ immutable' = manifest.view
              /\ checkpointLSN' = manifest.maxLSN
              /\ replayed' = walBase
         ELSE /\ mode' = "failed"
              /\ UNCHANGED <<immutable, checkpointLSN, replayed>>
    /\ UNCHANGED <<disk, manifest, pc, nextLSN, mutations, digests, active,
                   tombstones, crashes, hist>>

\* Mutant: a record the checkpoint covers is not stepped over.
ReplayStuck ==
    /\ mode = "replay" /\ replayed < walLast
    /\ replayed + 1 > checkpointLSN
    /\ replayed' = replayed + 1
    /\ digests' = [digests EXCEPT ![replayed'] = walOps[replayed']]
    /\ ApplyToShard(walOps[replayed'])
    /\ UNCHANGED <<disk, manifest, mode, pc, nextLSN, checkpointLSN, mutations,
                   crashes, hist>>

\* recoverFile and the callback of openCollectionLogs, for the next record.
Replay ==
    /\ mode = "replay" /\ replayed < walLast
    /\ replayed' = replayed + 1
    /\ IF replayed' > checkpointLSN
         THEN /\ digests' = [digests EXCEPT ![replayed'] = walOps[replayed']]
              /\ ApplyToShard(walOps[replayed'])
         ELSE UNCHANGED <<digests, shard>>
    /\ UNCHANGED <<disk, manifest, mode, pc, nextLSN, checkpointLSN, mutations,
                   crashes, hist>>

\* The log is open: the next LSN follows the file, or the checkpoint when the
\* file is empty.
FinishReplay ==
    /\ mode = "replay" /\ replayed = walLast
    /\ nextLSN' = IF walLast = walBase THEN checkpointLSN + 1 ELSE walLast + 1
    /\ mode' = "open"
    /\ UNCHANGED <<disk, manifest, pc, checkpointLSN, mutations, digests,
                   replayed, shard, crashes, hist>>

Next ==
    \/ \E op \in Upserts : Upsert(op)
    \/ \E k \in Keys : Delete(k)
    \/ \E seq \in LSNs, op \in Ops : ApplyReplica(seq, op)
    \/ Apply
    \/ ApplyOnReplica
    \/ Checkpoint
    \/ CheckpointSync
    \/ SaveManifest
    \/ CheckpointReset
    \/ CheckpointInstall
    \/ \E seq \in SnapshotSeqs, view \in SnapshotViews : SnapshotPublish(seq, view)
    \/ SnapshotReset
    \/ SnapshotInstall
    \/ OpError
    \/ Crash
    \/ Close
    \/ Open
    \/ Replay
    \/ FinishReplay

Spec == Init /\ [][Next]_vars

\* The scheduler runs a startup that has begun to its end.
FairSpec == Spec /\ WF_vars(Open) /\ WF_vars(Replay) /\ WF_vars(FinishReplay)

-----------------------------------------------------------------------------
(* Properties *)

Manifests == [format : {0, 2, 3}, maxLSN : 0..MaxLSN, view : Views, count : Nat,
              tip : 0..MaxLSN, ordered : BOOLEAN]

\* Every variable of the shard, on disk and in memory, keeps its type.
TypeOK ==
    /\ walBase \in 0..MaxLSN /\ walLast \in 0..MaxLSN /\ synced \in 0..MaxLSN
    /\ walOps \in [LSNs -> Mutations]
    /\ manifest \in Manifests
    /\ mode \in {"open", "down", "replay", "failed"}
    /\ pc \in Steps
    /\ nextLSN \in 1..(MaxLSN + 1) /\ checkpointLSN \in 0..MaxLSN
    /\ mutations \in Nat
    /\ digests \in [LSNs -> Mutations]
    /\ active \in Views /\ tombstones \subseteq Keys /\ immutable \in Views
    /\ replayed \in 0..MaxLSN
    /\ crashes \in Nat
    /\ hist \in [0..MaxLSN -> Views]

\* The last LSN a restart would reach.
DiskLast == IF walLast > manifest.maxLSN THEN walLast ELSE manifest.maxLSN

\* At every instant, in the middle of a checkpoint or a snapshot installation
\* too, the files hold the whole state: the manifest is the view as of its
\* MaxLSN, the log continues it without a gap, and each later record leads
\* from one view to the next (engine.go checkpointShardLocked: manifest before
\* reset; wal.go recoverFile).
Recoverable ==
    /\ manifest.view = hist[manifest.maxLSN]
    /\ walBase < walLast => walBase <= manifest.maxLSN
    /\ \A l \in LSNs : manifest.maxLSN < l /\ l <= walLast
                        => hist[l] = Overlay(hist[l - 1], walOps[l])

\* Between operations the delta in memory (active records and tombstones) is
\* exactly what separates the published manifest from what readers see, so the
\* next checkpoint publishes what is served (shard.go CheckpointDelta,
\* Shard.Delete's rule for tombstones).
CheckpointComplete ==
    Idle => MergeSegment(manifest.view, active, tombstones) = Live

\* A replica mutation answered as already applied is the one the log holds at
\* that sequence (engine.go ApplyReplicaBatch and the fingerprints rebuilt by
\* openCollectionLogs).
RetriesHonest ==
    Idle => \A seq \in 1..LastLSN, op \in Ops :
              ReplicaRetry(seq, op) = "ok" => walOps[seq] = op

\* No step, crash or restart makes the shard forget a synced LSN or hand it
\* out again (wal.go Append/Reset/OpenWithOptions).
SyncedNeverRegresses == [][synced' >= synced]_vars

\* An open log continues after the checkpoint, so that what it appends is
\* replayed (engine.go InstallReplicaSnapshot: "resumes its WAL immediately
\* after the snapshot sequence").
ResumesAfterCheckpoint == Idle => nextLSN > manifest.maxLSN

\* A manifest written by the engine can be loaded again (segmentfile.go
\* LoadManifest, loadSegments' record count check).
RecoverySucceeds == mode # "failed"

\* A startup that has begun ends (openCollectionLogs replays the whole file).
RecoveryTerminates == mode = "down" ~> mode \in {"open", "failed"}

\* The inductive invariant behind the properties above, for the crash and error
\* points under which they hold.
SafeFaults ==
    /\ "snapReset" \notin CrashPoints
    /\ FailPoints \subseteq {"sync", "publish"}

\* The log file and the manifest: the log starts at or before the checkpoint and,
\* except between a snapshot's manifest and its reset, reaches it durably.
DiskInv ==
    /\ walBase <= manifest.maxLSN
    /\ walBase <= walLast /\ synced <= walLast
    /\ SyncAlways => synced = walLast
    /\ pc = "snapReset" => walLast <= manifest.maxLSN
    /\ pc # "snapReset" => manifest.maxLSN <= synced
    /\ mode # "open" => pc = "idle"

\* A key with an active record has no tombstone.
DeltaInv == \A k \in tombstones : active[k] = Missing

\* What memory holds relative to the files, step by step.
MemoryInv ==
    /\ mode = "open" => nextLSN = walLast + 1
    /\ mode = "open" /\ pc \in {"idle", "sync", "publish"}
         => immutable = manifest.view /\ Live = hist[walLast]
    /\ mode = "open" /\ pc = "publish" => synced = walLast
    /\ mode = "open" /\ pc \in {"apply", "applyReplica"}
         => /\ immutable = manifest.view
            /\ walLast > manifest.maxLSN
            /\ Live = hist[walLast - 1]
    /\ mode = "open" /\ pc \in {"reset", "install"}
         => walLast = manifest.maxLSN /\ Live = hist[walLast]
    /\ mode = "open" /\ pc = "snapInstall" => walLast = manifest.maxLSN
    /\ mode = "down" => active = Empty /\ tombstones = {}
    /\ mode = "replay"
         => /\ immutable = manifest.view
            /\ checkpointLSN = manifest.maxLSN
            /\ walBase <= replayed /\ replayed <= walLast
            /\ Live = hist[IF replayed > manifest.maxLSN THEN replayed
                           ELSE manifest.maxLSN]

StoreInv == TypeOK /\ Recoverable /\ DiskInv /\ DeltaInv /\ MemoryInv

\* The shard implements the abstract durable shard: the durable view is the one
\* a restart would reach, the served view is what readers see.
Durable == INSTANCE DurableShard WITH
    kv     <- hist[DiskLast],
    served <- IF mode = "open" THEN Live ELSE Down
DurableSpec == Durable!Spec
=============================================================================
