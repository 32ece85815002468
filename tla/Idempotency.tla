----------------------------- MODULE Idempotency -----------------------------
(***************************************************************************)
(* BatchUpsertShardIdempotent: a batch with an Idempotency-Key is reserved *)
(* in the shard's ledger file with its prepared record versions, appended  *)
(* to the WAL, and then marked completed in the ledger.  The engine's lock *)
(* is held throughout, but the process may crash, or a write may fail,     *)
(* between the steps; the client then retries with the same key.           *)
(*                                                                         *)
(* The WAL is synced on every append, and wal stands for it together with  *)
(* the checkpoint it continues: the batches applied, in order.             *)
(***************************************************************************)
EXTENDS Naturals, Sequences

CONSTANTS
    Keys,           \* idempotency keys
    Batches,        \* request contents (their digests)
    NoKey,          \* a batch sent without a key
    NoEntry,
    CrashPoints,    \* steps before which the process may crash
    IOErrors,       \* TRUE: a write to the ledger or the WAL may fail
    MaxWal, MaxVersion  \* bounds

ASSUME IdempotencyAssumption ==
    /\ NoKey \notin Keys
    /\ NoEntry \notin [batch : Batches, version : 1..MaxVersion, completed : BOOLEAN,
                     sequence : 0..MaxWal]
    /\ CrashPoints \subseteq {"idle", "append", "complete"}
    /\ IOErrors \in BOOLEAN
    /\ {MaxWal, MaxVersion} \subseteq Nat

VARIABLES
    ledger,     \* e.idempotency of the shard
    file,       \* the ledger file
    wal,
    version,    \* Collection.version
    pc, key,    \* the step and the key of the operation holding the lock
    answers,    \* history: successful answers
    started     \* history: length of wal when the process last started

vars == <<ledger, file, wal, version, pc, key, answers, started>>

Init ==
    /\ ledger = [k \in Keys |-> NoEntry]
    /\ file = ledger
    /\ wal = <<>>
    /\ version = 0
    /\ pc = "idle" /\ key = NoKey
    /\ answers = {} /\ started = 0

Applied(k, batch, v) == [key |-> k, batch |-> batch, version |-> v]
Reservation(batch, v) == [batch |-> batch, version |-> v, completed |-> FALSE, sequence |-> 0]
Completion(entry, seq) == [entry EXCEPT !.completed = TRUE, !.sequence = seq]
AnswerTo(k, entry) == [key |-> k, batch |-> entry.batch, version |-> entry.version,
                       sequence |-> entry.sequence]

\* A batch without a key: PrepareUpsert, append, apply.
PlainUpsert(batch) ==
    /\ pc = "idle" /\ version < MaxVersion /\ Len(wal) < MaxWal
    /\ version' = version + 1
    /\ wal' = Append(wal, Applied(NoKey, batch, version'))
    /\ UNCHANGED <<ledger, file, pc, key, answers, started>>

\* An unknown key: prepare the records and persist the reservation.
Reserve(k, batch) ==
    /\ pc = "idle" /\ ledger[k] = NoEntry /\ version < MaxVersion
    /\ version' = version + 1
    /\ ledger' = [ledger EXCEPT ![k] = Reservation(batch, version')]
    /\ file' = ledger'
    /\ pc' = "append" /\ key' = k
    /\ UNCHANGED <<wal, answers, started>>

\* The reservation cannot be persisted: the key is forgotten, in memory; the
\* file may have been replaced before the error.
ReserveFails(k, batch) ==
    /\ IOErrors
    /\ pc = "idle" /\ ledger[k] = NoEntry /\ version < MaxVersion
    /\ version' = version + 1
    /\ file' \in {file, [ledger EXCEPT ![k] = Reservation(batch, version')]}
    /\ UNCHANGED <<ledger, wal, pc, key, answers, started>>

\* Mutant: a retry of a completed batch is appended again.
RetryAppends(k, batch) ==
    /\ pc = "idle" /\ ledger[k] # NoEntry /\ ledger[k].batch = batch
    /\ pc' = "append" /\ key' = k
    /\ UNCHANGED <<ledger, file, wal, version, answers, started>>

\* A known key with the same digest: the retained answer, or the reserved batch.
Retry(k, batch) ==
    /\ pc = "idle" /\ ledger[k] # NoEntry /\ ledger[k].batch = batch
    /\ IF ledger[k].completed
         THEN answers' = answers \cup {AnswerTo(k, ledger[k])} /\ UNCHANGED <<pc, key>>
         ELSE pc' = "append" /\ key' = k /\ UNCHANGED answers
    /\ UNCHANGED <<ledger, file, wal, version, started>>

\* Mutant: a retry prepares new versions instead of the reserved ones.
AppendNewVersion ==
    /\ pc = "append" /\ Len(wal) < MaxWal
    /\ wal' = Append(wal, Applied(key, ledger[key].batch, version + 1))
    /\ version' = version + 1
    /\ pc' = "complete"
    /\ UNCHANGED <<ledger, file, key, answers, started>>

\* commitReservedBatchLocked: append, then Restore the reserved records (which
\* PrepareUpsert has validated: Restore does not fail).
AppendReserved ==
    /\ pc = "append" /\ Len(wal) < MaxWal
    /\ wal' = Append(wal, Applied(key, ledger[key].batch, ledger[key].version))
    /\ version' = IF ledger[key].version > version THEN ledger[key].version ELSE version
    /\ pc' = "complete"
    /\ UNCHANGED <<ledger, file, key, answers, started>>

\* Log.Append fails and rolls back: the key stays reserved.
AppendFails ==
    /\ IOErrors /\ pc = "append"
    /\ pc' = "idle" /\ key' = NoKey
    /\ UNCHANGED <<ledger, file, wal, version, answers, started>>

\* The entry is completed and persisted, the client is answered.
Complete ==
    /\ pc = "complete"
    /\ ledger' = [ledger EXCEPT ![key] = Completion(@, Len(wal))]
    /\ file' = ledger'
    /\ answers' = answers \cup {AnswerTo(key, ledger'[key])}
    /\ pc' = "idle" /\ key' = NoKey
    /\ UNCHANGED <<wal, version, started>>

\* Mutant: a completion that was not persisted is taken back in memory.
CompleteRollsBack ==
    /\ IOErrors /\ pc = "complete"
    /\ file' \in {file, [ledger EXCEPT ![key] = Completion(@, Len(wal))]}
    /\ pc' = "idle" /\ key' = NoKey
    /\ UNCHANGED <<ledger, wal, version, answers, started>>

\* The completion cannot be persisted: it stays in memory.  A checkpoint that
\* fails afterwards ends the same way, with the file replaced.
CompleteFails ==
    /\ IOErrors /\ pc = "complete"
    /\ ledger' = [ledger EXCEPT ![key] = Completion(@, Len(wal))]
    /\ file' \in {file, ledger'}
    /\ pc' = "idle" /\ key' = NoKey
    /\ UNCHANGED <<wal, version, answers, started>>

\* The counters recovery may arrive at: the highest version among the records it
\* restores, which a checkpoint may have left without the latest ones (overwritten
\* by a late retry, or deleted).
RecoveredVersions == {0} \cup {wal[i].version : i \in DOMAIN wal}

\* Crash and reopen: initializeIdempotency reads the file, recovery restores the
\* version counter from the records.
Restart ==
    /\ pc \in CrashPoints
    /\ ledger' = file
    /\ version' \in RecoveredVersions
    /\ pc' = "idle" /\ key' = NoKey
    /\ started' = Len(wal)
    /\ UNCHANGED <<file, wal, answers>>

Next ==
    \/ \E batch \in Batches : PlainUpsert(batch)
    \/ \E k \in Keys, batch \in Batches :
         Reserve(k, batch) \/ ReserveFails(k, batch) \/ Retry(k, batch)
    \/ AppendReserved \/ AppendFails \/ Complete \/ CompleteFails \/ Restart

Spec == Init /\ [][Next]_vars

-----------------------------------------------------------------------------
(* Properties *)

Entries == [batch : Batches, version : 1..MaxVersion, completed : BOOLEAN,
            sequence : 0..MaxWal]
Ledgers == [Keys -> Entries \cup {NoEntry}]

\* Every variable keeps its type, and an append has a reservation to append.
TypeOK ==
    /\ ledger \in Ledgers /\ file \in Ledgers
    /\ wal \in Seq([key : Keys \cup {NoKey}, batch : Batches, version : 1..MaxVersion])
    /\ Len(wal) <= MaxWal
    /\ version \in 0..MaxVersion /\ started \in 0..Len(wal)
    /\ pc \in {"idle", "append", "complete"}
    /\ pc # "idle" => key \in Keys /\ ledger[key] # NoEntry
    /\ answers \subseteq [key : Keys, batch : Batches, version : 1..MaxVersion,
                          sequence : 1..MaxWal]

\* What the ledger file records as completed is final: no crash, failed write or
\* retry changes it, and every later answer repeats it (engine.go
\* BatchUpsertShardIdempotent: "A retry with the same canonical request returns
\* the originally prepared record versions").
CompletedIsFinal ==
    [][\A k \in Keys : file[k] # NoEntry /\ file[k].completed =>
         /\ file'[k] = file[k]
         /\ \A a \in answers' \ answers : a.key = k => a = AnswerTo(k, file[k])]_vars

\* An answer tells the truth about the log: that sequence holds that batch with
\* those versions (idempotency.go commitReservedBatchLocked).
AnswersInWal ==
    \A a \in answers : /\ a.sequence <= Len(wal)
                       /\ wal[a.sequence] = Applied(a.key, a.batch, a.version)

\* Between two starts of the process the batch of a key enters the log at most
\* once, whatever writes fail (idempotency.go commitReservedBatchLocked).
OncePerStart ==
    \A i, j \in started + 1..Len(wal) :
        wal[i].key = wal[j].key /\ wal[i].key # NoKey => i = j

\* A completed entry describes what the log holds at its sequence.
EntryTrue(k, entry) ==
    entry # NoEntry /\ entry.completed =>
        /\ entry.sequence \in 1..Len(wal)
        /\ wal[entry.sequence] = Applied(k, entry.batch, entry.version)

\* The step the operation in progress is at: its key is reserved and not yet
\* completed, and once appended its batch ends the log.
StepTrue ==
    pc # "idle" =>
        /\ ~ledger[key].completed
        /\ pc = "complete" =>
             /\ Len(wal) > started
             /\ wal[Len(wal)] = Applied(key, ledger[key].batch, ledger[key].version)

\* What the ledger knows of a key: completed entries are true, what the file
\* completed is what memory answers, and a key this process has appended is
\* completed in memory or about to be.
KeyTrue(k) ==
    /\ EntryTrue(k, ledger[k]) /\ EntryTrue(k, file[k])
    /\ file[k] # NoEntry /\ file[k].completed => ledger[k] = file[k]
    /\ \A i \in started + 1..Len(wal) : wal[i].key = k =>
         /\ ledger[k] # NoEntry
         /\ ledger[k].completed \/ (pc = "complete" /\ key = k /\ i = Len(wal))

\* The inductive invariant behind the properties (idempotency.go
\* commitReservedBatchLocked).
LedgerInv ==
    /\ TypeOK
    /\ AnswersInWal
    /\ OncePerStart
    /\ StepTrue
    /\ \A k \in Keys : KeyTrue(k)
=============================================================================
