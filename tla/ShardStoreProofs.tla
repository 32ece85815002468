-------------------------- MODULE ShardStoreProofs --------------------------
(***************************************************************************)
(* Proofs about ShardStore, for every set of keys and values, every bound  *)
(* and both WAL modes.                                                     *)
(***************************************************************************)
EXTENDS ShardStore, FiniteSetTheorems, TLAPS

USE DataAssumption, StoreAssumption

-----------------------------------------------------------------------------
(* The data *)

\* A mutation leads from a view to a view.
LEMMA OverlayType ==
    ASSUME NEW v \in Views, NEW m \in Mutations
    PROVE  Overlay(v, m) \in Views
BY DEF Overlay, Views, Mutations

\* Every operation is a mutation.
LEMMA OpsAreMutations == Ops \subseteq Mutations
BY DEF Ops, Upserts, Deletes, DeleteOf, Mutations

\* The number of keys a mutation touches, and of records a view holds, is a
\* natural number.
LEMMA CountsAreNat ==
    /\ \A m : Cardinality(Touched(m)) \in Nat
    /\ \A v : Count(v) \in Nat
<1>1. ASSUME NEW m PROVE Cardinality(Touched(m)) \in Nat
  <2>1. Touched(m) \subseteq Keys
    BY DEF Touched
  <2>2. IsFiniteSet(Touched(m))
    BY <2>1, FS_Subset
  <2> QED BY <2>2, FS_CardinalityType
<1>2. ASSUME NEW v PROVE Count(v) \in Nat
  <2>1. IsFiniteSet({k \in Keys : v[k] # Missing})
    BY FS_Subset
  <2> QED BY <2>1, FS_CardinalityType DEF Count
<1> QED BY <1>1, <1>2

\* The empty view and the empty mutation are well typed.
LEMMA Constants == Empty \in Views /\ Nop \in Mutations /\ NoOps \in [LSNs -> Mutations]
BY DEF Empty, Views, Nop, Mutations, NoOps

-----------------------------------------------------------------------------
(* The shard in memory *)

\* Applying a mutation to the shard changes what readers see by exactly that
\* mutation and keeps tombstones apart from active records.
LEMMA ApplyLive ==
    ASSUME active \in Views, immutable \in Views, tombstones \subseteq Keys,
           DeltaInv, NEW op \in Mutations, ApplyToShard(op)
    PROVE  /\ Live' = Overlay(Live, op)
           /\ DeltaInv'
           /\ active' \in Views /\ immutable' \in Views /\ tombstones' \subseteq Keys
           /\ immutable' = immutable
<1>1. active' \in Views /\ tombstones' \subseteq Keys /\ immutable' = immutable
  BY DEF ApplyToShard, Views, Mutations
<1>2. DeltaInv'
  BY DEF ApplyToShard, Views, Mutations, DeltaInv
<1>3. ASSUME NEW k \in Keys PROVE Live'[k] = Overlay(Live, op)[k]
  BY DEF ApplyToShard, Views, Mutations, DeltaInv, Live, Overlay
<1> QED BY <1>1, <1>2, <1>3 DEF Live, Overlay

\* What readers see is a view.
LEMMA LiveType ==
    ASSUME active \in Views, immutable \in Views
    PROVE  Live \in Views
BY DEF Live, Views

\* With the base of the manifest in memory, the delta merged into the manifest
\* is what readers see.
LEMMA MergeIsLive ==
    ASSUME active \in Views, immutable \in Views, tombstones \subseteq Keys,
           DeltaInv, immutable = manifest.view
    PROVE  MergeSegment(manifest.view, active, tombstones) = Live
BY DEF MergeSegment, Live, DeltaInv, Views

\* A freshly installed base is what readers see.
LEMMA InstalledIsLive ==
    ASSUME NEW base \in Views, active' = Empty, tombstones' = {}, immutable' = base
    PROVE  Live' = base /\ DeltaInv'
BY DEF Live, Empty, Views, DeltaInv
-----------------------------------------------------------------------------
(* Type correctness, whatever crashes and I/O errors happen *)

\* A mutation being applied has its record in the log, and only an open shard
\* has an operation in progress.
TypeInv ==
    /\ TypeOK
    /\ mode # "open" => pc = "idle"
    /\ pc \in {"apply", "applyReplica"} => nextLSN >= 2

\* Appending keeps the types.
LEMMA AppendTypes ==
    ASSUME TypeInv, NEW op \in Mutations, AppendWal(op)
    PROVE  /\ walBase' \in 0..MaxLSN /\ walLast' \in 0..MaxLSN /\ synced' \in 0..MaxLSN
           /\ walOps' \in [LSNs -> Mutations]
           /\ nextLSN' \in 2..(MaxLSN + 1)
           /\ hist' \in [0..MaxLSN -> Views]
<1>1. nextLSN \in LSNs /\ nextLSN - 1 \in 0..MaxLSN
  BY DEF TypeInv, TypeOK, AppendWal, LSNs
<1>2. Overlay(hist[nextLSN - 1], op) \in Views
  BY <1>1, OverlayType DEF TypeInv, TypeOK
<1>3. hist' \in [0..MaxLSN -> Views]
  BY <1>1, <1>2 DEF TypeInv, TypeOK, AppendWal, LSNs
<1>4. walOps' \in [LSNs -> Mutations]
  BY <1>1 DEF TypeInv, TypeOK, AppendWal
<1> QED BY <1>1, <1>3, <1>4 DEF TypeInv, TypeOK, AppendWal, LSNs

\* Resetting the log keeps the types.
LEMMA ResetTypes ==
    ASSUME TypeInv, ResetWal
    PROVE  /\ walBase' \in 0..MaxLSN /\ walLast' \in 0..MaxLSN /\ synced' \in 0..MaxLSN
           /\ walOps' \in [LSNs -> Mutations]
           /\ nextLSN' \in 1..(MaxLSN + 1)
           /\ hist' \in [0..MaxLSN -> Views]
BY Constants DEF TypeInv, TypeOK, ResetWal, Manifests

\* Truncating the log and losing the memory keeps the types.
LEMMA StopTypes ==
    ASSUME TypeInv, NEW last \in 0..MaxLSN, KeepWal(last), LoseMemory,
           UNCHANGED manifest
    PROVE  TypeInv'
<1>1. walOps' \in [LSNs -> Mutations] /\ hist' \in [0..MaxLSN -> Views]
  BY Constants DEF TypeInv, TypeOK, KeepWal
<1> QED BY <1>1, Constants DEF TypeInv, TypeOK, KeepWal, LoseMemory, Steps

\* Type correctness is inductive.
LEMMA TypeStep == TypeInv /\ [Next]_vars => TypeInv'
<1> SUFFICES ASSUME TypeInv, [Next]_vars PROVE TypeInv'
  OBVIOUS
<1> USE DEF TypeInv
<1>1. ASSUME NEW op \in Upserts, Upsert(op) PROVE TypeInv'
  <2>1. op \in Mutations
    BY OpsAreMutations DEF Ops
  <2> QED BY <1>1, <2>1, AppendTypes DEF Upsert, Idle, TypeOK, shard, Steps
<1>2. ASSUME NEW k \in Keys, Delete(k) PROVE TypeInv'
  <2>1. DeleteOf(k) \in Mutations
    BY OpsAreMutations DEF Ops, Deletes
  <2> QED BY <1>2, <2>1, AppendTypes DEF Delete, Idle, TypeOK, shard, Steps
<1>3. ASSUME NEW seq \in LSNs, NEW op \in Ops, ApplyReplica(seq, op) PROVE TypeInv'
  <2>1. op \in Mutations
    BY OpsAreMutations
  <2> QED BY <1>3, <2>1, AppendTypes DEF ApplyReplica, Idle, TypeOK, shard, Steps
<1>4. CASE Apply \/ ApplyOnReplica
  <2>1. LastLSN \in LSNs
    BY <1>4 DEF Apply, ApplyOnReplica, At, TypeOK, LastLSN, LSNs
  <2>2. walOps[LastLSN] \in Mutations
    BY <2>1 DEF TypeOK
  <2>3. active' \in Views /\ tombstones' \subseteq Keys /\ immutable' \in Views
    BY <1>4, <2>2 DEF Apply, ApplyOnReplica, ApplyToShard, TypeOK, Views, Mutations
  <2>4. mutations' \in Nat
    BY <1>4, CountsAreNat DEF Apply, ApplyOnReplica, TypeOK
  <2>5. digests' \in [LSNs -> Mutations]
    BY <1>4, <2>1, <2>2 DEF Apply, ApplyOnReplica, TypeOK
  <2> QED BY <1>4, <2>3, <2>4, <2>5 DEF Apply, ApplyOnReplica, At, TypeOK, disk, Steps
<1>5. CASE Checkpoint \/ CheckpointSync \/ OpError
  BY <1>5 DEF Checkpoint, CheckpointSync, OpError, Idle, At, TypeOK, disk, memory, shard,
              Steps
<1>6. CASE SaveManifest
  <2>1. Live \in Views
    BY LiveType DEF TypeOK
  <2>2. MergeSegment(manifest.view, active, tombstones) \in Views
    BY DEF MergeSegment, TypeOK, Manifests, Views
  <2>3. LastLSN \in 0..MaxLSN
    BY DEF TypeOK, LastLSN
  <2>4. manifest' \in Manifests
    BY <1>6, <2>2, <2>3, CountsAreNat DEF SaveManifest, TypeOK, Manifests
  <2> QED BY <1>6, <2>4 DEF SaveManifest, At, TypeOK, disk, memory, shard, Steps
<1>7. CASE CheckpointReset \/ SnapshotReset
  BY <1>7, ResetTypes, Constants
     DEF CheckpointReset, SnapshotReset, At, TypeOK, shard, Steps
<1>8. CASE CheckpointInstall \/ SnapshotInstall
  <2>1. Live \in Views /\ manifest.view \in Views /\ manifest.maxLSN \in 0..MaxLSN
    BY LiveType DEF TypeOK, Manifests
  <2> QED BY <1>8, <2>1, Constants
     DEF CheckpointInstall, SnapshotInstall, InstallImmutable, At, TypeOK, disk, Steps
<1>9. ASSUME NEW seq \in SnapshotSeqs, NEW view \in SnapshotViews,
             SnapshotPublish(seq, view)
      PROVE  TypeInv'
  <2>1. seq \in 1..MaxLSN /\ view \in Views
    OBVIOUS
  <2>2. manifest' \in Manifests
    BY <1>9, <2>1, CountsAreNat DEF SnapshotPublish, Manifests
  <2>3. hist' \in [0..MaxLSN -> Views]
    BY <1>9, <2>1 DEF SnapshotPublish, TypeOK
  <2> QED BY <1>9, <2>2, <2>3 DEF SnapshotPublish, Idle, TypeOK, disk, memory, shard, Steps
<1>10. CASE Crash
  <2>1. PICK last \in synced..walLast : KeepWal(last)
    BY <1>10 DEF Crash
  <2>2. last \in 0..MaxLSN
    BY <2>1 DEF TypeOK
  <2> QED BY <1>10, <2>1, <2>2, StopTypes DEF Crash
<1>11. CASE Close
  BY <1>11, StopTypes DEF Close, TypeOK
<1>12. CASE Open
  BY <1>12 DEF Open, TypeOK, Manifests, disk
<1>13. CASE Replay
  <2>1. replayed' \in LSNs
    BY <1>13 DEF Replay, TypeOK, LSNs
  <2>2. walOps[replayed'] \in Mutations
    BY <2>1 DEF TypeOK
  <2>3. active' \in Views /\ tombstones' \subseteq Keys /\ immutable' \in Views
    BY <1>13, <2>2 DEF Replay, ApplyToShard, TypeOK, Views, Mutations, shard
  <2>4. digests' \in [LSNs -> Mutations]
    BY <1>13, <2>1, <2>2 DEF Replay, TypeOK
  <2> QED BY <1>13, <2>1, <2>3, <2>4 DEF Replay, TypeOK, disk, LSNs
<1>14. CASE FinishReplay
  BY <1>14 DEF FinishReplay, TypeOK, disk, shard
<1>15. CASE UNCHANGED vars
  BY <1>15 DEF vars, TypeOK, disk, memory, shard
<1> QED BY <1>1, <1>2, <1>3, <1>4, <1>5, <1>6, <1>7, <1>8, <1>9, <1>10, <1>11,
           <1>12, <1>13, <1>14, <1>15 DEF Next

\* Every variable of the shard keeps its type.
THEOREM TypeCorrect == Spec => []TypeOK
<1>1. Init => TypeInv
  BY Constants DEF Init, TypeInv, TypeOK, NoManifest, Manifests, Steps
<1>2. TypeInv => TypeOK
  BY DEF TypeInv
<1> QED BY <1>1, <1>2, TypeStep, PTL DEF Spec

-----------------------------------------------------------------------------
(* The inductive invariant, when no crash or error separates a published     *)
(* manifest from what follows it                                             *)

\* The three parts of the invariant beyond the types.
Inv == Recoverable /\ DiskInv /\ DeltaInv /\ MemoryInv

\* The invariant gives the strengthened type invariant.
LEMMA StoreTypes == StoreInv => TypeInv
BY DEF StoreInv, TypeInv, TypeOK, DiskInv, MemoryInv, Manifests

\* Appending to the log of an idle shard: the new record leads from what is
\* served to the new durable view.
LEMMA AppendStep ==
    ASSUME StoreInv, Idle, NEW op \in Mutations, AppendWal(op),
           pc' \in {"apply", "applyReplica"}, UNCHANGED <<manifest, mode, shard>>
    PROVE  Inv'
<1> USE DEF StoreInv
<1>1. /\ nextLSN = walLast + 1 /\ nextLSN \in LSNs /\ nextLSN - 1 = walLast
      /\ walLast \in 0..MaxLSN /\ manifest.maxLSN \in 0..MaxLSN
      /\ walBase \in 0..MaxLSN /\ synced \in 0..MaxLSN
      /\ manifest.maxLSN <= synced /\ synced <= walLast /\ walBase <= manifest.maxLSN
      /\ immutable = manifest.view /\ Live = hist[walLast]
  BY DEF Idle, AppendWal, MemoryInv, DiskInv, TypeOK, Manifests, LSNs
<1>2. /\ walLast' = walLast + 1 /\ nextLSN' = walLast + 2
      /\ walBase' \in {walBase, walLast}
      /\ walBase = walLast => walBase' = walLast
      /\ walBase # walLast => walBase' = walBase
      /\ synced' \in {synced, walLast + 1}
      /\ SyncAlways => synced' = walLast + 1
  BY <1>1 DEF AppendWal
<1>3. /\ \A l \in 0..MaxLSN : l # walLast + 1 => hist'[l] = hist[l]
      /\ hist'[walLast + 1] = Overlay(hist[walLast], op)
      /\ \A l \in LSNs : l # walLast + 1 => walOps'[l] = walOps[l]
      /\ walOps'[walLast + 1] = op
  BY <1>1 DEF AppendWal, TypeOK, LSNs
<1>4. Recoverable'
  <2>1. manifest'.view = hist'[manifest'.maxLSN]
    BY <1>1, <1>3 DEF Recoverable
  <2>2. walBase' <= manifest'.maxLSN
    BY <1>1, <1>2 DEF TypeOK
  <2>3. ASSUME NEW l \in LSNs, manifest.maxLSN < l, l <= walLast'
        PROVE  hist'[l] = Overlay(hist'[l - 1], walOps'[l])
    <3>1. CASE l = walLast + 1
      BY <3>1, <1>1, <1>3
    <3>2. CASE l # walLast + 1
      <4>1. /\ l <= walLast /\ l - 1 \in 0..MaxLSN /\ l \in 0..MaxLSN
            /\ l - 1 # walLast + 1
        BY <3>2, <2>3, <1>1, <1>2 DEF LSNs
      <4> QED BY <3>2, <4>1, <2>3, <1>3 DEF Recoverable
    <3> QED BY <3>1, <3>2
  <2> QED BY <2>1, <2>2, <2>3 DEF Recoverable
<1>5. DiskInv'
  BY <1>1, <1>2 DEF DiskInv, Idle
<1>6. DeltaInv' /\ Live' = Live
  BY DEF DeltaInv, Live, shard
<1>7. MemoryInv'
  BY <1>1, <1>2, <1>3, <1>6 DEF MemoryInv, Idle, shard
<1> QED BY <1>4, <1>5, <1>6, <1>7 DEF Inv

\* Applying the appended mutation serves the durable view.
LEMMA ApplyStep ==
    ASSUME StoreInv, TypeOK', mode = "open", pc \in {"apply", "applyReplica"},
           ApplyToShard(walOps[LastLSN]), pc' \in {"idle", "sync"},
           UNCHANGED <<disk, manifest, mode, nextLSN, hist>>
    PROVE  Inv'
<1> USE DEF StoreInv
<1>1. /\ LastLSN = walLast /\ walLast \in LSNs /\ manifest.maxLSN < walLast
      /\ immutable = manifest.view /\ Live = hist[walLast - 1]
      /\ manifest.maxLSN <= synced
  BY SMTT(60) DEF MemoryInv, DiskInv, LastLSN, LSNs, TypeOK, Manifests
<1>2. walOps[walLast] \in Mutations
  BY <1>1 DEF TypeOK
<1>3. hist[walLast] = Overlay(hist[walLast - 1], walOps[walLast])
  BY <1>1 DEF Recoverable, TypeOK
<1>4. Live' = hist[walLast] /\ DeltaInv' /\ immutable' = immutable
  BY <1>1, <1>2, <1>3, ApplyLive DEF TypeOK
<1>5. Recoverable' /\ DiskInv'
  BY <1>1 DEF Recoverable, DiskInv, disk
<1>6. MemoryInv'
  BY <1>1, <1>4 DEF MemoryInv, disk
<1> QED BY <1>4, <1>5, <1>6 DEF Inv

\* Resetting the log at a published manifest.
LEMMA ResetStep ==
    ASSUME StoreInv, mode = "open", ResetWal, UNCHANGED <<manifest, mode, shard>>,
           \/ pc = "reset" /\ pc' = "install"
           \/ pc = "snapReset" /\ pc' = "snapInstall"
    PROVE  Inv'
<1> USE DEF StoreInv
<1>1. manifest.maxLSN \in 0..MaxLSN
  BY DEF TypeOK, Manifests
<1>2. hist'[manifest.maxLSN] = hist[manifest.maxLSN]
  BY <1>1 DEF ResetWal
<1>3. Recoverable'
  BY <1>1, <1>2 DEF Recoverable, ResetWal, LSNs
<1>4. DiskInv'
  BY <1>1 DEF DiskInv, ResetWal
<1>5. DeltaInv' /\ Live' = Live
  BY DEF DeltaInv, Live, shard
<1>6. MemoryInv'
  BY <1>1, <1>2, <1>5 DEF MemoryInv, ResetWal, shard
<1> QED BY <1>3, <1>4, <1>5, <1>6 DEF Inv

\* Installing the manifest's view as the shard's only generation.
LEMMA InstallStep ==
    ASSUME StoreInv, mode = "open", pc \in {"install", "snapInstall"},
           InstallImmutable(manifest.view),
           UNCHANGED <<disk, manifest, mode, nextLSN, hist>>
    PROVE  Inv'
<1> USE DEF StoreInv
<1>1. manifest.view \in Views /\ manifest.maxLSN = walLast
  BY DEF TypeOK, Manifests, MemoryInv
<1>2. Live' = manifest.view /\ DeltaInv'
  BY <1>1, InstalledIsLive DEF InstallImmutable
<1>3. Recoverable' /\ DiskInv'
  BY DEF Recoverable, DiskInv, disk, InstallImmutable
<1>4. MemoryInv'
  BY <1>1, <1>2 DEF MemoryInv, InstallImmutable, disk, Recoverable
<1> QED BY <1>2, <1>3, <1>4 DEF Inv

\* Stopping keeps every record up to the checkpoint.
LEMMA StopStep ==
    ASSUME StoreInv, pc # "snapReset", NEW last \in synced..walLast, KeepWal(last),
           LoseMemory, UNCHANGED manifest
    PROVE  Inv'
<1> USE DEF StoreInv
<1>1. /\ last \in 0..MaxLSN /\ manifest.maxLSN \in 0..MaxLSN
      /\ manifest.maxLSN <= last /\ last <= walLast /\ walBase <= manifest.maxLSN
      /\ walBase \in 0..MaxLSN
  BY DEF TypeOK, Manifests, DiskInv
<1>2. /\ \A l \in 0..MaxLSN : l <= last => hist'[l] = hist[l]
      /\ \A l \in LSNs : l <= last => walOps'[l] = walOps[l]
  BY DEF KeepWal
<1>3. Recoverable'
  <2>1. ASSUME NEW l \in LSNs, manifest.maxLSN < l, l <= last
        PROVE  hist'[l] = Overlay(hist'[l - 1], walOps'[l])
    <3>1. l \in 0..MaxLSN /\ l - 1 \in 0..MaxLSN /\ l <= walLast /\ l - 1 <= last
      BY <1>1, <2>1 DEF LSNs, TypeOK
    <3> QED BY <2>1, <3>1, <1>2 DEF Recoverable
  <2> QED BY <1>1, <1>2, <2>1 DEF Recoverable, KeepWal
<1>4. DiskInv'
  BY <1>1 DEF DiskInv, KeepWal, LoseMemory, TypeOK
<1>5. DeltaInv' /\ MemoryInv'
  BY DEF DeltaInv, MemoryInv, LoseMemory
<1> QED BY <1>3, <1>4, <1>5 DEF Inv

\* The steps of startup.
LEMMA RecoveryStep ==
    ASSUME StoreInv, Open \/ Replay \/ FinishReplay
    PROVE  Inv'
<1> USE DEF StoreInv
<1>1. CASE Open
  <2>1. mode = "down" /\ active = Empty /\ tombstones = {} /\ pc = "idle"
    BY <1>1 DEF Open, MemoryInv, DiskInv
  <2>2. Recoverable' /\ DiskInv'
    BY <1>1, <2>1 DEF Open, Recoverable, DiskInv, disk
  <2>3. DeltaInv'
    BY <1>1, <2>1 DEF Open, DeltaInv
  <2>4. CASE LoadSegmentsOK(manifest)
    <3>1. Live' = manifest.view
      BY <1>1, <2>1, <2>4, InstalledIsLive DEF Open, TypeOK, Manifests
    <3>2. /\ ~(walBase > manifest.maxLSN) /\ walBase <= walLast
          /\ walBase \in 0..MaxLSN /\ manifest.view = hist[manifest.maxLSN]
      BY DEF DiskInv, TypeOK, Manifests, Recoverable
    <3>3. /\ mode' = "replay" /\ immutable' = manifest.view
          /\ checkpointLSN' = manifest.maxLSN /\ replayed' = walBase
          /\ UNCHANGED <<walBase, walLast, manifest, hist>>
      BY <1>1, <2>4 DEF Open, disk
    <3>4. MemoryInv'
      BY <3>1, <3>2, <3>3 DEF MemoryInv
    <3> QED BY <2>2, <2>3, <3>4 DEF Inv
  <2>5. CASE ~LoadSegmentsOK(manifest)
    BY <1>1, <2>1, <2>2, <2>3, <2>5 DEF Open, MemoryInv, Inv
  <2> QED BY <2>4, <2>5
<1>2. CASE Replay
  <2>1. /\ mode = "replay" /\ pc = "idle" /\ replayed < walLast
        /\ immutable = manifest.view /\ checkpointLSN = manifest.maxLSN
        /\ replayed' = replayed + 1 /\ replayed' \in LSNs
        /\ walBase <= replayed /\ manifest.maxLSN \in 0..MaxLSN
        /\ walLast \in 0..MaxLSN /\ walBase \in 0..MaxLSN
        /\ replayed \in 0..MaxLSN
    BY <1>2 DEF Replay, MemoryInv, DiskInv, TypeOK, LSNs, Manifests
  <2>2. Recoverable' /\ DiskInv'
    BY <1>2 DEF Replay, Recoverable, DiskInv, disk
  <2>3. CASE replayed' > checkpointLSN
    <3>1. walOps[replayed'] \in Mutations
      BY <2>1 DEF TypeOK
    <3>2. Live = hist[replayed]
      BY <2>1, <2>3 DEF MemoryInv, LSNs
    <3>3. hist[replayed'] = Overlay(hist[replayed], walOps[replayed'])
      BY <2>1, <2>3 DEF Recoverable, LSNs
    <3>4. Live' = hist[replayed'] /\ DeltaInv' /\ immutable' = immutable
      BY <1>2, <2>3, <3>1, <3>2, <3>3, ApplyLive DEF Replay, TypeOK
    <3>5. MemoryInv'
      BY <1>2, <2>1, <2>3, <3>4 DEF Replay, MemoryInv, disk, LSNs
    <3> QED BY <2>2, <3>4, <3>5 DEF Inv
  <2>4. CASE ~(replayed' > checkpointLSN)
    <3>1. Live' = Live /\ DeltaInv' /\ immutable' = immutable
      BY <1>2, <2>4 DEF Replay, Live, DeltaInv, shard
    <3>2. MemoryInv'
      BY <1>2, <2>1, <2>4, <3>1 DEF Replay, MemoryInv, disk, LSNs
    <3> QED BY <2>2, <3>1, <3>2 DEF Inv
  <2> QED BY <2>3, <2>4
<1>3. CASE FinishReplay
  <2>1. /\ mode = "replay" /\ pc = "idle" /\ replayed = walLast
        /\ manifest.maxLSN <= walLast /\ walBase <= manifest.maxLSN
        /\ checkpointLSN = manifest.maxLSN
    BY <1>3 DEF FinishReplay, MemoryInv, DiskInv, TypeOK, Manifests
  <2>2. Recoverable' /\ DiskInv'
    BY <1>3, <2>1 DEF FinishReplay, Recoverable, DiskInv, disk
  <2>3. Live' = Live /\ DeltaInv'
    BY <1>3 DEF FinishReplay, Live, DeltaInv, shard
  <2>4. nextLSN' = walLast + 1 /\ Live = hist[walLast]
    BY <1>3, <2>1 DEF FinishReplay, MemoryInv, TypeOK, Manifests
  <2>5. MemoryInv'
    BY <1>3, <2>1, <2>3, <2>4 DEF FinishReplay, MemoryInv, disk, shard
  <2> QED BY <2>2, <2>3, <2>5 DEF Inv
<1> QED BY <1>1, <1>2, <1>3

\* The invariant is inductive.
LEMMA StoreStep ==
    ASSUME SafeFaults
    PROVE  StoreInv /\ [Next]_vars => StoreInv'
<1> SUFFICES ASSUME StoreInv, [Next]_vars PROVE Inv'
  BY StoreTypes, TypeStep DEF StoreInv, Inv, TypeInv
<1>0. TypeOK /\ TypeOK'
  BY StoreTypes, TypeStep DEF TypeInv
<1>1. ASSUME NEW op \in Upserts, Upsert(op) PROVE Inv'
  BY <1>1, AppendStep, OpsAreMutations DEF Upsert, Ops
<1>2. ASSUME NEW k \in Keys, Delete(k) PROVE Inv'
  BY <1>2, AppendStep, OpsAreMutations DEF Delete, Ops, Deletes
<1>3. ASSUME NEW seq \in LSNs, NEW op \in Ops, ApplyReplica(seq, op) PROVE Inv'
  BY <1>3, AppendStep, OpsAreMutations DEF ApplyReplica
<1>4. CASE Apply \/ ApplyOnReplica
  BY <1>0, <1>4, ApplyStep DEF Apply, ApplyOnReplica, At
<1>5. CASE Checkpoint \/ CheckpointSync \/ OpError
  <2>1. Live' = Live /\ DeltaInv'
    BY <1>5 DEF Checkpoint, CheckpointSync, OpError, shard, Live, DeltaInv, StoreInv
  <2>2. /\ mode = "open" /\ mode' = "open"
        /\ pc \in {"idle", "sync", "publish"} /\ pc' \in {"idle", "sync", "publish"}
        /\ pc' = "publish" => synced' = walLast'
        /\ synced' \in {synced, walLast}
        /\ walBase' = walBase /\ walLast' = walLast /\ walOps' = walOps
        /\ UNCHANGED <<manifest, nextLSN, immutable, hist>>
    BY <1>5 DEF Checkpoint, CheckpointSync, OpError, Idle, At, SafeFaults, disk,
                memory, shard
  <2>3. Recoverable'
    BY <2>2 DEF Recoverable, StoreInv
  <2>4. DiskInv'
    BY <1>0, <2>2 DEF DiskInv, StoreInv, TypeOK, Manifests
  <2>5. MemoryInv'
    BY <2>1, <2>2 DEF MemoryInv, StoreInv
  <2> QED BY <2>1, <2>3, <2>4, <2>5 DEF Inv
<1>6. CASE SaveManifest
  <2>1. /\ mode = "open" /\ LastLSN = walLast /\ synced = walLast
        /\ immutable = manifest.view /\ Live = hist[walLast] /\ walBase <= walLast
    BY <1>0, <1>6 DEF SaveManifest, At, StoreInv, MemoryInv, DiskInv, LastLSN, TypeOK
  <2>2. manifest'.maxLSN = walLast /\ manifest'.view = hist[walLast]
    BY <1>0, <1>6, <2>1, MergeIsLive DEF SaveManifest, StoreInv, TypeOK
  <2>3. Live' = Live /\ DeltaInv'
    BY <1>6 DEF SaveManifest, shard, Live, DeltaInv, StoreInv
  <2>4. Recoverable' /\ DiskInv'
    BY <1>0, <1>6, <2>1, <2>2 DEF SaveManifest, Recoverable, DiskInv, disk, TypeOK, LSNs
  <2>5. MemoryInv'
    BY <1>6, <2>1, <2>2, <2>3
       DEF SaveManifest, MemoryInv, StoreInv, disk, memory
  <2> QED BY <2>3, <2>4, <2>5 DEF Inv
<1>7. CASE CheckpointReset \/ SnapshotReset
  BY <1>7, ResetStep DEF CheckpointReset, SnapshotReset, At
<1>8. CASE CheckpointInstall
  <2>1. mode = "open" /\ pc = "install" /\ Live = manifest.view
    BY <1>8 DEF CheckpointInstall, At, StoreInv, MemoryInv, Recoverable
  <2> QED BY <1>8, <2>1, InstallStep DEF CheckpointInstall
<1>9. CASE SnapshotInstall
  BY <1>9, InstallStep DEF SnapshotInstall, At
<1>10. ASSUME NEW seq \in SnapshotSeqs, NEW view \in SnapshotViews,
              SnapshotPublish(seq, view)
       PROVE  Inv'
  <2>1. /\ mode = "open" /\ pc = "idle" /\ seq \in LSNs /\ walLast <= seq
        /\ nextLSN = walLast + 1
        /\ walBase <= walLast /\ synced <= walLast /\ (SyncAlways => synced = walLast)
    BY <1>0, <1>10 DEF SnapshotPublish, Idle, StoreInv, MemoryInv, DiskInv, LastLSN,
                       LSNs, TypeOK
  <2>2. manifest'.maxLSN = seq /\ manifest'.view = view /\ hist'[seq] = view
    BY <1>0, <1>10, <2>1 DEF SnapshotPublish, TypeOK, LSNs
  <2>3. Recoverable' /\ DiskInv'
    BY <1>0, <1>10, <2>1, <2>2 DEF SnapshotPublish, Recoverable, DiskInv, disk, TypeOK,
                                   LSNs
  <2>4. DeltaInv' /\ MemoryInv'
    BY <1>10, <2>1 DEF SnapshotPublish, DeltaInv, MemoryInv, StoreInv, disk, memory,
                       shard
  <2> QED BY <2>3, <2>4 DEF Inv
<1>11. CASE Crash
  <2>1. PICK last \in synced..walLast : KeepWal(last)
    BY <1>11 DEF Crash
  <2> QED BY <1>11, <2>1, StopStep DEF Crash, SafeFaults
<1>12. CASE Close
  <2>1. walLast \in synced..walLast
    BY <1>0 DEF StoreInv, DiskInv, TypeOK
  <2> QED BY <1>12, <2>1, StopStep DEF Close, Idle
<1>13. CASE Open \/ Replay \/ FinishReplay
  BY <1>13, RecoveryStep
<1>14. CASE UNCHANGED vars
  BY <1>14 DEF vars, disk, memory, shard, StoreInv, Inv, Recoverable, DiskInv, DeltaInv,
              MemoryInv, Live
<1> QED BY <1>1, <1>2, <1>3, <1>4, <1>5, <1>6, <1>7, <1>8, <1>9, <1>10, <1>11,
           <1>12, <1>13, <1>14 DEF Next

\* A new shard satisfies the invariant.
LEMMA StoreInit == Init => StoreInv
<1> SUFFICES ASSUME Init PROVE StoreInv
  OBVIOUS
<1>1. TypeOK
  BY Constants DEF Init, TypeOK, NoManifest, Manifests, Steps
<1>2. Live = Empty
  BY DEF Init, Live, Empty
<1> QED BY <1>1, <1>2 DEF Init, StoreInv, Recoverable, DiskInv, DeltaInv, MemoryInv,
                          NoManifest, LSNs, TypeOK

\* Files and memory stay in step through every operation, crash and restart.
THEOREM StoreCorrect ==
    ASSUME SafeFaults
    PROVE  Spec => []StoreInv
BY StoreInit, StoreStep, PTL DEF Spec

\* The manifest and the log always hold the whole state of the shard.
THEOREM AlwaysRecoverable ==
    ASSUME SafeFaults
    PROVE  Spec => []Recoverable
<1>1. StoreInv => Recoverable
  BY DEF StoreInv
<1> QED BY <1>1, StoreCorrect, PTL

\* A checkpoint taken between any two operations would publish what is served.
THEOREM CheckpointsComplete ==
    ASSUME SafeFaults
    PROVE  Spec => []CheckpointComplete
<1>1. StoreInv => CheckpointComplete
  BY MergeIsLive DEF StoreInv, CheckpointComplete, MemoryInv, Idle, TypeOK
<1> QED BY <1>1, StoreCorrect, PTL

\* An open log always continues after the checkpoint.
THEOREM LogResumes ==
    ASSUME SafeFaults
    PROVE  Spec => []ResumesAfterCheckpoint
<1>1. StoreInv => ResumesAfterCheckpoint
  BY DEF StoreInv, ResumesAfterCheckpoint, MemoryInv, DiskInv, Idle, TypeOK, Manifests
<1> QED BY <1>1, StoreCorrect, PTL

\* The fingerprints in memory are of records the log holds, except in the middle of
\* a snapshot's installation, whose reset empties the log before them; beyond its
\* last record the log holds nothing, so an append meets no old fingerprint.
DigestInv ==
    /\ \A l \in LSNs : l > walLast => walOps[l] = Nop
    /\ pc # "snapInstall" => \A l \in LSNs : digests[l] \in {Nop, walOps[l]}

\* Every step keeps the fingerprints true.
LEMMA DigestStep ==
    ASSUME SafeFaults, StoreInv, DigestInv, [Next]_vars
    PROVE  DigestInv'
<1>1. /\ TypeOK /\ (mode = "open" => nextLSN = walLast + 1) /\ (mode # "open" => pc = "idle")
      /\ walLast \in Nat /\ \A l \in LSNs : l \in Nat /\ NoOps[l] = Nop
  BY DEF StoreInv, MemoryInv, DiskInv, TypeOK, LSNs, NoOps
<1>2. ASSUME NEW op, Idle, AppendWal(op), UNCHANGED digests PROVE DigestInv'
  <2>1. /\ nextLSN \in LSNs /\ nextLSN = walLast + 1 /\ walLast' = nextLSN /\ digests[nextLSN] = Nop
        /\ walOps' = [walOps EXCEPT ![nextLSN] = op] /\ pc = "idle"
    BY <1>1, <1>2, StoreAssumption DEF AppendWal, Idle, LSNs, TypeOK, DigestInv
  <2>2. ASSUME NEW l \in LSNs, l > walLast' PROVE walOps'[l] = Nop
    <3>1. l > walLast /\ l # nextLSN
      BY <1>1, <2>1, <2>2
    <3>2. walOps'[l] = walOps[l]
      BY <1>1, <2>1, <3>1 DEF TypeOK
    <3> QED BY <3>1, <3>2 DEF DigestInv
  <2>3. \A l \in LSNs : digests'[l] \in {Nop, walOps'[l]}
    BY <1>1, <1>2, <2>1 DEF TypeOK, DigestInv
  <2> QED BY <2>2, <2>3 DEF DigestInv
<1>3. ASSUME UNCHANGED <<walOps, walLast, digests>>, pc # "snapInstall" \/ pc' = "snapInstall"
      PROVE  DigestInv'
  BY <1>3 DEF DigestInv
<1>4. ASSUME NEW last \in synced..walLast, KeepWal(last), digests' = NoOps PROVE DigestInv'
  <2>1. walLast' = last /\ walOps' = [l \in LSNs |-> IF l <= last THEN walOps[l] ELSE Nop]
    BY <1>4 DEF KeepWal
  <2>2. last \in Nat
    BY <1>4 DEF StoreInv, TypeOK
  <2> QED BY <1>1, <1>4, <2>1, <2>2 DEF DigestInv
<1>5. CASE \E op \in Upserts : Upsert(op)
  BY <1>2, <1>5 DEF Upsert
<1>6. CASE \E k \in Keys : Delete(k)
  BY <1>2, <1>6 DEF Delete
<1>7. CASE \E seq \in LSNs, op \in Ops : ApplyReplica(seq, op)
  BY <1>2, <1>7 DEF ApplyReplica
<1>8. CASE Apply \/ Checkpoint \/ CheckpointSync \/ SaveManifest \/ CheckpointInstall
  BY <1>3, <1>8 DEF Apply, Checkpoint, CheckpointSync, SaveManifest, CheckpointInstall,
     InstallImmutable, At, Idle, disk, memory
<1>9. CASE ApplyOnReplica
  <2>1. /\ digests' = [digests EXCEPT ![LastLSN] = walOps[LastLSN]] /\ UNCHANGED <<walOps, walLast>>
        /\ pc = "applyReplica"
    BY <1>9 DEF ApplyOnReplica, At, disk
  <2> QED BY <1>1, <2>1 DEF DigestInv, TypeOK
<1>10. CASE CheckpointReset
  BY <1>1, <1>10 DEF CheckpointReset, ResetWal, DigestInv
<1>11. CASE \E seq \in SnapshotSeqs, view \in SnapshotViews : SnapshotPublish(seq, view)
  BY <1>3, <1>11 DEF SnapshotPublish, Idle, disk, memory
<1>12. CASE SnapshotReset
  BY <1>1, <1>12 DEF SnapshotReset, ResetWal, DigestInv
<1>13. CASE SnapshotInstall
  BY <1>1, <1>13 DEF SnapshotInstall, disk, DigestInv
<1>14. CASE OpError
  <2>1. pc # "snapInstall"
    BY <1>14 DEF OpError, SafeFaults
  <2> QED BY <1>3, <1>14, <2>1 DEF OpError, disk, memory
<1>15. CASE Crash
  BY <1>4, <1>15 DEF Crash, LoseMemory
<1>16. CASE Close
  <2>1. walLast \in synced..walLast
    BY DEF StoreInv, TypeOK, DiskInv
  <2> QED BY <1>4, <1>16, <2>1 DEF Close, LoseMemory
<1>17. CASE Open \/ FinishReplay
  BY <1>1, <1>3, <1>17 DEF Open, FinishReplay, disk
<1>18. CASE Replay
  <2>1. /\ UNCHANGED <<walOps, walLast, pc>>
        /\ digests' = digests \/ digests' = [digests EXCEPT ![replayed'] = walOps[replayed']]
    BY <1>18 DEF Replay, disk
  <2> QED BY <1>1, <2>1 DEF DigestInv, TypeOK
<1>19. CASE UNCHANGED vars
  BY <1>3, <1>19 DEF vars, disk, memory
<1> QED BY <1>5, <1>6, <1>7, <1>8, <1>9, <1>10, <1>11, <1>12, <1>13, <1>14, <1>15, <1>16, <1>17,
           <1>18, <1>19 DEF Next

\* A follower never takes another mutation for a repetition of the one it holds,
\* through checkpoints, snapshots, crashes and replays (ApplyReplicaBatch,
\* openCollectionLogs).
THEOREM RetriesAnswered ==
    ASSUME SafeFaults
    PROVE  Spec => []RetriesHonest
<1>1. Init => DigestInv
  BY DEF Init, DigestInv, NoOps
<1>2. StoreInv /\ DigestInv => RetriesHonest
  <2> SUFFICES ASSUME StoreInv, DigestInv, Idle, NEW seq \in 1..LastLSN, NEW op \in Ops,
                      ReplicaRetry(seq, op) = "ok"
               PROVE  walOps[seq] = op
    BY DEF RetriesHonest
  <2>1. seq \in LSNs /\ pc # "snapInstall"
    BY StoreAssumption DEF StoreInv, TypeOK, LastLSN, LSNs, Idle
  <2>2. digests[seq] # Nop /\ digests[seq] = op
    BY DEF ReplicaRetry
  <2> QED BY <2>1, <2>2 DEF DigestInv
<1> QED BY <1>1, <1>2, StoreCorrect, DigestStep, PTL DEF Spec

\* No step forgets a synced record.
THEOREM SyncedIsDurable ==
    ASSUME SafeFaults
    PROVE  Spec => SyncedNeverRegresses
<1>1. StoreInv /\ [Next]_vars => [synced' >= synced]_vars
  <2> SUFFICES ASSUME StoreInv, Next PROVE synced' >= synced
    BY DEF vars
  <2>1. synced \in Nat /\ walLast \in Nat /\ synced <= walLast
    BY DEF StoreInv, TypeOK, DiskInv
  <2>2. manifest.maxLSN \in Nat /\ (At("reset") \/ At("snapReset") => synced <= manifest.maxLSN)
    BY <2>1 DEF StoreInv, MemoryInv, DiskInv, At, TypeOK, Manifests
  <2>3. Idle => nextLSN = walLast + 1
    BY DEF StoreInv, MemoryInv, Idle
  <2> QED BY <2>1, <2>2, <2>3
      DEF Next, Upsert, Delete, ApplyReplica, AppendWal, Apply, ApplyOnReplica,
          Checkpoint, CheckpointSync, SaveManifest, CheckpointReset, SnapshotReset,
          ResetWal, CheckpointInstall, SnapshotPublish, SnapshotInstall, OpError,
          Crash, Close, KeepWal, Open, Replay, FinishReplay, disk
<1> QED BY <1>1, StoreCorrect, PTL DEF Spec, SyncedNeverRegresses

-----------------------------------------------------------------------------
(* ShardStore implements DurableShard *)

DurableKV == hist[DiskLast]
DurableServed == IF mode = "open" THEN Live ELSE Down

\* The abstract specification computes on the same data.
LEMMA DurableData ==
    /\ Durable!Views = Views /\ Durable!Empty = Empty /\ Durable!Ops = Ops
    /\ \A v, m : Durable!Overlay(v, m) = Overlay(v, m)
<1>1. Durable!Views = Views /\ Durable!Empty = Empty
  BY DEF Durable!Views, Views, Durable!Empty, Empty
<1>2. Durable!Mutations = Mutations /\ \A m : Durable!Touched(m) = Touched(m)
  BY DEF Durable!Mutations, Mutations, Durable!Touched, Touched
<1>3. Durable!Upserts = Upserts
  BY <1>2 DEF Durable!Upserts, Upserts
<1>4. Durable!Deletes = Deletes
  BY DEF Durable!Deletes, Deletes, Durable!DeleteOf, DeleteOf
<1>5. \A v, m : Durable!Overlay(v, m) = Overlay(v, m)
  BY DEF Durable!Overlay, Overlay
<1> QED BY <1>1, <1>3, <1>4, <1>5 DEF Durable!Ops, Ops

\* The abstract state in terms of the files and the memory.
DurableMap ==
    /\ pc # "snapReset" => DiskLast = walLast
    /\ pc = "snapReset" => DiskLast = manifest.maxLSN
    /\ mode = "open" => DurableServed = Live /\ DurableServed # Down
    /\ mode # "open" => DurableServed = Down
    /\ DurableKV \in Views

\* The invariant gives the abstract state.
LEMMA DurableState == StoreInv => DurableMap
<1> SUFFICES ASSUME StoreInv PROVE DurableMap
  OBVIOUS
<1>1. TypeOK /\ DiskInv
  BY DEF StoreInv
<1>2. /\ pc # "snapReset" => DiskLast = walLast
      /\ pc = "snapReset" => DiskLast = manifest.maxLSN
  BY <1>1 DEF DiskLast, DiskInv, TypeOK, Manifests
<1>3. DiskLast \in 0..MaxLSN
  BY <1>1 DEF DiskLast, TypeOK, Manifests
<1>4. Live \in Views
  BY <1>1, LiveType DEF TypeOK
<1> QED BY <1>1, <1>2, <1>3, <1>4 DEF DurableMap, DurableKV, DurableServed, TypeOK

\* And so it does after every step.
LEMMA DurableStateNext == StoreInv' => DurableMap'
BY DurableState, PTL

\* Appending to the log commits.
LEMMA AppendCommits ==
    ASSUME StoreInv, StoreInv', Idle, NEW op \in Ops, AppendWal(op),
           pc' \in {"apply", "applyReplica"}, UNCHANGED <<mode, shard>>
    PROVE  Durable!Commit
<1>1. /\ mode = "open" /\ nextLSN = walLast + 1 /\ Live = hist[walLast]
      /\ nextLSN \in LSNs /\ walLast \in Nat
  BY DEF StoreInv, Idle, MemoryInv, AppendWal, TypeOK, LSNs
<1>2. DurableServed = DurableKV /\ DurableKV = hist[walLast]
  BY <1>1, DurableState DEF Idle, DurableKV, DurableMap
<1>3. DiskLast' = walLast + 1
  BY <1>1, DurableStateNext DEF AppendWal, DurableMap
<1>4. hist'[walLast + 1] = Overlay(hist[walLast], op)
  BY <1>1 DEF AppendWal, StoreInv, TypeOK, LSNs
<1>5. DurableKV' = Overlay(DurableKV, op)
  BY <1>2, <1>3, <1>4 DEF DurableKV
<1>6. DurableServed' = DurableServed
  BY DEF DurableServed, Live, shard
<1> QED BY <1>2, <1>5, <1>6, DurableData DEF Durable!Commit, DurableKV, DurableServed

\* A stop keeps the durable view, or, with an unsynced log, some view.
LEMMA StopStops ==
    ASSUME StoreInv, StoreInv', pc # "snapReset",
           NEW last \in synced..walLast, KeepWal(last), LoseMemory, UNCHANGED manifest
    PROVE  Durable!Stop
<1>1. DurableServed' = Down
  BY DurableStateNext DEF LoseMemory, DurableMap
<1>2. DurableKV' \in Views
  BY DurableStateNext DEF DurableMap
<1>3. ASSUME SyncAlways PROVE DurableKV' = DurableKV
  <2>1. last = walLast /\ walLast \in 0..MaxLSN
    BY <1>3 DEF StoreInv, DiskInv, TypeOK
  <2>2. DiskLast = walLast /\ DiskLast' = walLast
    BY <2>1, DurableState, DurableStateNext DEF KeepWal, LoseMemory, DurableMap
  <2>3. hist'[walLast] = hist[walLast]
    BY <2>1 DEF KeepWal
  <2> QED BY <2>2, <2>3 DEF DurableKV
<1> QED BY <1>1, <1>2, <1>3, DurableData DEF Durable!Stop, DurableKV, DurableServed

\* Every step of the shard store is a step of the durable shard, or changes
\* neither the durable nor the served view.
LEMMA DurableStep ==
    ASSUME SafeFaults, StoreInv, StoreInv', [Next]_vars
    PROVE  [Durable!Next]_(Durable!vars)
<1> DEFINE Stutter == DurableKV' = DurableKV /\ DurableServed' = DurableServed
<1>0. Stutter => [Durable!Next]_(Durable!vars)
  BY DEF Durable!vars, DurableKV, DurableServed
<1>a. TypeOK /\ TypeOK' /\ DurableMap /\ DurableMap'
  BY DurableState, DurableStateNext DEF StoreInv
<1>1. CASE (\E op \in Upserts : Upsert(op)) \/ (\E k \in Keys : Delete(k))
           \/ (\E seq \in LSNs, op \in Ops : ApplyReplica(seq, op))
  <2>1. \E op \in Ops : Idle /\ AppendWal(op) /\ pc' \in {"apply", "applyReplica"}
                        /\ UNCHANGED <<mode, shard>>
    BY <1>1 DEF Upsert, Delete, ApplyReplica, Ops, Deletes
  <2> QED BY <2>1, AppendCommits DEF Durable!Next
<1>2. CASE Apply \/ ApplyOnReplica
  <2>1. mode = "open" /\ mode' = "open" /\ pc' # "snapReset" /\ pc # "snapReset"
        /\ walLast' = walLast /\ hist' = hist
    BY <1>2 DEF Apply, ApplyOnReplica, At, disk
  <2>2. Live' = hist'[walLast']
    <3>1. CASE pc' \in {"idle", "sync", "publish"}
      BY <2>1, <3>1 DEF StoreInv, MemoryInv
    <3> QED BY <1>2, <3>1 DEF Apply, ApplyOnReplica
  <2>3. DurableKV' = DurableKV /\ DurableServed' = DurableKV /\ DurableServed # Down
    BY <1>a, <2>1, <2>2 DEF DurableMap, DurableKV
  <2> QED BY <2>3 DEF Durable!Next, Durable!Publish, DurableKV, DurableServed
<1>3. CASE Checkpoint \/ CheckpointSync \/ OpError
  <2>1. /\ UNCHANGED <<walLast, manifest, hist, mode, shard>>
    BY <1>3 DEF Checkpoint, CheckpointSync, OpError, disk
  <2>2. Stutter
    BY <2>1 DEF DurableKV, DurableServed, DiskLast, Live, shard
  <2> QED BY <1>0, <2>2
<1>4. CASE SaveManifest
  <2>1. UNCHANGED <<walLast, hist, mode, shard>> /\ pc # "snapReset" /\ pc' # "snapReset"
    BY <1>4 DEF SaveManifest, At, disk
  <2>2. Stutter
    BY <1>a, <2>1 DEF DurableMap, DurableKV, DurableServed, Live, shard
  <2> QED BY <1>0, <2>2
<1>5. CASE CheckpointReset \/ SnapshotReset
  <2>1. /\ UNCHANGED <<manifest, mode, shard>> /\ pc' # "snapReset"
        /\ walLast' = manifest.maxLSN /\ hist'[manifest.maxLSN] = hist[manifest.maxLSN]
    BY <1>5, <1>a, SMTT(60) DEF CheckpointReset, SnapshotReset, ResetWal, TypeOK, Manifests
  <2>2. DiskLast = manifest.maxLSN
    BY <1>5, <1>a DEF CheckpointReset, SnapshotReset, At, StoreInv, MemoryInv, DurableMap
  <2>3. Stutter
    BY <1>a, <2>1, <2>2 DEF DurableMap, DurableKV, DurableServed, Live, shard
  <2> QED BY <1>0, <2>3
<1>6. CASE CheckpointInstall \/ SnapshotInstall
  <2>1. /\ mode = "open" /\ mode' = "open" /\ pc \in {"install", "snapInstall"}
        /\ pc' = "idle" /\ walLast' = walLast /\ hist' = hist
    BY <1>6 DEF CheckpointInstall, SnapshotInstall, InstallImmutable, At, disk
  <2>2. Live' = hist'[walLast']
    BY <2>1 DEF StoreInv, MemoryInv
  <2>3. DurableKV' = DurableKV /\ DurableServed' = DurableKV /\ DurableServed # Down
    BY <1>a, <2>1, <2>2 DEF DurableMap, DurableKV
  <2> QED BY <2>3 DEF Durable!Next, Durable!Publish, DurableKV, DurableServed
<1>7. ASSUME NEW seq \in SnapshotSeqs, NEW view \in SnapshotViews,
             SnapshotPublish(seq, view)
      PROVE  Durable!Next
  <2>1. mode = "open" /\ pc = "idle" /\ Live = hist[walLast]
    BY <1>7 DEF SnapshotPublish, Idle, StoreInv, MemoryInv
  <2>2. DurableServed = DurableKV
    BY <1>a, <2>1 DEF DurableMap, DurableKV
  <2>3. DiskLast' = seq /\ hist'[seq] = view
    BY <1>7, <1>a DEF SnapshotPublish, DurableMap, TypeOK
  <2>4. DurableServed' = DurableServed
    BY <1>7 DEF SnapshotPublish, DurableServed, Live, shard
  <2> QED BY <2>2, <2>3, <2>4
          DEF Durable!Next, Durable!Replace, DurableKV, DurableServed
<1>8. CASE Crash
  <2>1. PICK last \in synced..walLast : KeepWal(last)
    BY <1>8 DEF Crash
  <2> QED BY <1>8, <2>1, StopStops DEF Crash, SafeFaults, Durable!Next
<1>9. CASE Close
  <2>1. walLast \in synced..walLast
    BY <1>a DEF StoreInv, DiskInv, TypeOK
  <2> QED BY <1>9, <2>1, StopStops DEF Close, Idle, Durable!Next
<1>10. CASE Open \/ Replay
  <2>1. mode # "open" /\ mode' # "open" /\ UNCHANGED <<walLast, manifest, hist>>
    BY <1>10 DEF Open, Replay, disk
  <2>2. Stutter
    BY <1>a, <2>1 DEF DurableMap, DurableKV, DiskLast
  <2> QED BY <1>0, <2>2
<1>11. CASE FinishReplay
  <2>1. /\ mode = "replay" /\ mode' = "open" /\ UNCHANGED <<walLast, hist>>
        /\ pc = "idle" /\ pc' = "idle"
    BY <1>11 DEF FinishReplay, disk, StoreInv, DiskInv
  <2>2. Live' = hist'[walLast']
    BY <2>1 DEF StoreInv, MemoryInv
  <2>3. DurableServed = Down /\ DurableKV' = DurableKV /\ DurableServed' = DurableKV
    BY <1>a, <2>1, <2>2 DEF DurableMap, DurableKV
  <2> QED BY <2>3 DEF Durable!Next, Durable!Start, DurableKV, DurableServed
<1>12. CASE UNCHANGED vars
  <2>1. Stutter
    BY <1>12 DEF vars, disk, shard, DurableKV, DurableServed, DiskLast, Live
  <2> QED BY <1>0, <2>1
<1> QED BY <1>1, <1>2, <1>3, <1>4, <1>5, <1>6, <1>7, <1>8, <1>9, <1>10, <1>11,
           <1>12 DEF Next

\* The shard store implements the durable shard: one durable view, changed by one
\* mutation at a time, served again after every restart.
THEOREM ImplementsDurable ==
    ASSUME SafeFaults
    PROVE  Spec => DurableSpec
<1>1. Init => Durable!Init
  <2> SUFFICES ASSUME Init PROVE Durable!Init
    OBVIOUS
  <2>1. Live = Empty /\ hist[DiskLast] = Empty
    BY DEF Init, Live, Empty, DiskLast, NoManifest
  <2> QED BY <2>1, DurableData DEF Init, Durable!Init
<1>2. StoreInv /\ StoreInv' /\ [Next]_vars => [Durable!Next]_(Durable!vars)
  BY DurableStep
<1> QED BY <1>1, <1>2, StoreCorrect, PTL DEF Spec, DurableSpec, Durable!Spec
=============================================================================
