-------------------------- MODULE IdempotencyProofs --------------------------
(***************************************************************************)
(* Theorems about Idempotency, for any keys, batches, crash points, and    *)
(* whether or not writes fail.                                             *)
(***************************************************************************)
EXTENDS Idempotency, TLAPS

Records == [key : Keys \cup {NoKey}, batch : Batches, version : 1..MaxVersion]
Answers == [key : Keys, batch : Batches, version : 1..MaxVersion, sequence : 1..MaxWal]

\* The empty ledger and log satisfy the invariant (initializeIdempotency finds no
\* file).
LEMMA InitLedger == Init => LedgerInv
<1> SUFFICES ASSUME Init PROVE LedgerInv
  OBVIOUS
<1> USE IdempotencyAssumption DEF Init
<1>1. TypeOK
  BY DEF TypeOK, Ledgers
<1>2. AnswersInWal /\ OncePerStart /\ StepTrue
  BY DEF AnswersInWal, OncePerStart, StepTrue
<1>3. \A k \in Keys : KeyTrue(k)
  <2> TAKE k \in Keys
  <2>1. ledger[k] = NoEntry /\ file[k] = NoEntry
    OBVIOUS
  <2>2. EntryTrue(k, ledger[k]) /\ EntryTrue(k, file[k])
    BY <2>1 DEF EntryTrue
  <2>3. started + 1..Len(wal) = {}
    OBVIOUS
  <2> QED BY <2>1, <2>2, <2>3 DEF KeyTrue
<1> QED BY <1>1, <1>2, <1>3 DEF LedgerInv

\* Appending keeps everything the log already says.
LEMMA AppendKeeps ==
    ASSUME wal \in Seq(Records), NEW r \in Records
    PROVE  /\ Append(wal, r) \in Seq(Records)
           /\ Len(Append(wal, r)) = Len(wal) + 1
           /\ Append(wal, r)[Len(wal) + 1] = r
           /\ \A i \in 1..Len(wal) : Append(wal, r)[i] = wal[i]
  OBVIOUS

\* A batch without a key leaves ledger and file as they are.
LEMMA PlainStep ==
    ASSUME LedgerInv, NEW batch \in Batches, PlainUpsert(batch)
    PROVE  LedgerInv'
<1> DEFINE r == Applied(NoKey, batch, version')
<1> USE IdempotencyAssumption
<1>1. TypeOK /\ r \in Records /\ wal \in Seq(Records) /\ wal' = Append(wal, r)
      /\ version' \in 1..MaxVersion /\ Len(wal) < MaxWal
  BY DEF LedgerInv, TypeOK, PlainUpsert, Records, Applied
<1>2. /\ wal' \in Seq(Records) /\ Len(wal') = Len(wal) + 1
      /\ wal'[Len(wal) + 1] = r
      /\ \A i \in 1..Len(wal) : wal'[i] = wal[i]
  BY <1>1, AppendKeeps
<1>3. Len(wal) \in Nat /\ started \in 0..Len(wal) /\ r.key = NoKey /\ NoKey \notin Keys
  BY <1>1 DEF TypeOK, Applied
<1>4. TypeOK'
  <2>1. ledger' \in Ledgers /\ file' \in Ledgers
    BY <1>1 DEF TypeOK, PlainUpsert
  <2>2. wal' \in Seq(Records) /\ Len(wal') <= MaxWal /\ started' \in 0..Len(wal')
    BY <1>1, <1>2, <1>3 DEF PlainUpsert
  <2>3. version' \in 0..MaxVersion
    BY <1>1
  <2>4. /\ pc' \in {"idle", "append", "complete"}
        /\ pc' # "idle" => key' \in Keys /\ ledger'[key'] # NoEntry
    BY <1>1 DEF PlainUpsert
  <2>5. answers' \subseteq Answers
    BY <1>1 DEF TypeOK, PlainUpsert, Answers
  <2> QED BY <2>1, <2>2, <2>3, <2>4, <2>5 DEF TypeOK, Records, Answers
<1>5. AnswersInWal'
  <2> SUFFICES ASSUME NEW a \in answers
               PROVE  a.sequence <= Len(wal') /\ wal'[a.sequence] = Applied(a.key, a.batch, a.version)
    BY DEF AnswersInWal, PlainUpsert, Applied
  <2>1. a.sequence \in 1..Len(wal) /\ wal[a.sequence] = Applied(a.key, a.batch, a.version)
    BY <1>3, a \in Answers DEF LedgerInv, TypeOK, AnswersInWal, Answers
  <2> QED BY <2>1, <1>2, <1>3
<1>6. OncePerStart'
  BY <1>2, <1>3 DEF LedgerInv, OncePerStart, PlainUpsert
<1>7. StepTrue'
  BY DEF StepTrue, PlainUpsert
<1>8. \A k \in Keys : KeyTrue(k)'
  <2> TAKE k \in Keys
  <2>1. KeyTrue(k)
    BY DEF LedgerInv
  <2>2. EntryTrue(k, ledger[k])' /\ EntryTrue(k, file[k])'
    BY <2>1, <1>2, <1>3 DEF KeyTrue, EntryTrue, PlainUpsert, Applied
  <2>3. pc # "complete"
    BY DEF PlainUpsert
  <2> QED BY <2>1, <2>2, <2>3, <1>2, <1>3 DEF KeyTrue, PlainUpsert
<1> QED BY <1>4, <1>5, <1>6, <1>7, <1>8 DEF LedgerInv

\* Entries of a typed ledger that are not NoEntry are typed records.
LEMMA EntryFields ==
    ASSUME NEW L \in Ledgers, NEW k \in Keys, L[k] # NoEntry
    PROVE  /\ L[k] \in Entries
           /\ L[k].batch \in Batches /\ L[k].version \in 1..MaxVersion
           /\ L[k].completed \in BOOLEAN /\ L[k].sequence \in 0..MaxWal
  BY DEF Ledgers, Entries

\* A reservation is an entry that is not completed.
LEMMA ReservationFields ==
    ASSUME NEW batch \in Batches, NEW v \in 1..MaxVersion
    PROVE  /\ Reservation(batch, v) \in Entries
           /\ Reservation(batch, v) # NoEntry
           /\ ~Reservation(batch, v).completed
<1>1. Reservation(batch, v) \in Entries
  BY IdempotencyAssumption DEF Reservation, Entries
<1>2. NoEntry \notin Entries
  BY IdempotencyAssumption DEF Entries
<1> QED BY <1>1, <1>2 DEF Reservation

\* A completion keeps the reserved batch and versions.
LEMMA CompletionFields ==
    ASSUME NEW e \in Entries, NEW n \in 0..MaxWal
    PROVE  /\ Completion(e, n) \in Entries
           /\ Completion(e, n) # NoEntry
           /\ Completion(e, n).completed
           /\ Completion(e, n).sequence = n
           /\ Completion(e, n).batch = e.batch
           /\ Completion(e, n).version = e.version
<1>1. Completion(e, n) \in Entries
  BY DEF Completion, Entries
<1>2. NoEntry \notin Entries
  BY IdempotencyAssumption DEF Entries
<1> QED BY <1>1, <1>2 DEF Completion, Entries

\* A reservation, persisted or not, is about a key nothing was appended for.
LEMMA ReserveStep ==
    ASSUME LedgerInv, NEW k \in Keys, NEW batch \in Batches, Reserve(k, batch)
    PROVE  LedgerInv'
<1> DEFINE e == Reservation(batch, version')
<1> USE IdempotencyAssumption
<1>1. TypeOK /\ version' \in 1..MaxVersion
  BY DEF LedgerInv, TypeOK, Reserve
<1>2. e \in Entries /\ e # NoEntry /\ ~e.completed
  BY <1>1, ReservationFields
<1>3. /\ ledger' \in Ledgers /\ ledger'[k] = e
      /\ \A j \in Keys : j # k => ledger'[j] = ledger[j]
  BY <1>1, <1>2 DEF TypeOK, Ledgers, Reserve
<1>4. TypeOK'
  BY <1>1, <1>2, <1>3 DEF TypeOK, Reserve
<1>5. AnswersInWal' /\ OncePerStart'
  BY DEF LedgerInv, AnswersInWal, OncePerStart, Reserve
<1>6. StepTrue'
  BY <1>2, <1>3 DEF StepTrue, Reserve
<1>7. \A j \in Keys : KeyTrue(j)'
  <2> TAKE j \in Keys
  <2>1. KeyTrue(j) /\ pc = "idle" /\ ledger[k] = NoEntry /\ file' = ledger'
        /\ wal' = wal /\ started' = started
    BY DEF LedgerInv, Reserve
  <2>2. CASE j = k
    BY <2>1, <2>2, <1>2, <1>3 DEF KeyTrue, EntryTrue
  <2>3. CASE j # k
    BY <2>1, <2>3, <1>3 DEF KeyTrue, EntryTrue
  <2> QED BY <2>2, <2>3
<1> QED BY <1>4, <1>5, <1>6, <1>7 DEF LedgerInv

\* When it could not be persisted the file may hold it, but no completion is lost.
LEMMA ReserveFailsStep ==
    ASSUME LedgerInv, NEW k \in Keys, NEW batch \in Batches, ReserveFails(k, batch)
    PROVE  LedgerInv'
<1> DEFINE e == Reservation(batch, version')
           L == [ledger EXCEPT ![k] = e]
<1> USE IdempotencyAssumption
<1>1. TypeOK /\ version' \in 1..MaxVersion
  BY DEF LedgerInv, TypeOK, ReserveFails
<1>2. e \in Entries /\ e # NoEntry /\ ~e.completed
  BY <1>1, ReservationFields
<1>3. /\ L \in Ledgers /\ L[k] = e
      /\ \A j \in Keys : j # k => L[j] = ledger[j]
  BY <1>1, <1>2 DEF TypeOK, Ledgers
<1>4. TypeOK'
  BY <1>1, <1>3 DEF TypeOK, ReserveFails
<1>5. AnswersInWal' /\ OncePerStart' /\ StepTrue'
  BY DEF LedgerInv, AnswersInWal, OncePerStart, StepTrue, ReserveFails
<1>6. \A j \in Keys : KeyTrue(j)'
  <2> TAKE j \in Keys
  <2>1. KeyTrue(j) /\ ledger' = ledger /\ wal' = wal /\ started' = started
        /\ pc' = pc /\ key' = key /\ (file' = file \/ file' = L)
    BY DEF LedgerInv, ReserveFails
  <2>2. CASE file' = file
    BY <2>1, <2>2 DEF KeyTrue, EntryTrue
  <2>3. CASE file' = L /\ j = k
    BY <2>1, <2>3, <1>2, <1>3 DEF KeyTrue, EntryTrue
  <2>4. CASE file' = L /\ j # k
    BY <2>1, <2>4, <1>3 DEF KeyTrue, EntryTrue
  <2> QED BY <2>1, <2>2, <2>3, <2>4
<1> QED BY <1>4, <1>5, <1>6 DEF LedgerInv

\* A retry answers from a completed entry, which is true, or starts the append of
\* one that is not completed.
LEMMA RetryStep ==
    ASSUME LedgerInv, NEW k \in Keys, NEW batch \in Batches, Retry(k, batch)
    PROVE  LedgerInv'
<1> USE IdempotencyAssumption
<1>1. TypeOK /\ KeyTrue(k) /\ pc = "idle" /\ ledger[k] # NoEntry
      /\ ledger' = ledger /\ file' = file /\ wal' = wal /\ version' = version
      /\ started' = started
  BY DEF LedgerInv, Retry
<1>2. /\ ledger[k].batch \in Batches /\ ledger[k].version \in 1..MaxVersion
      /\ ledger[k].completed \in BOOLEAN
  BY <1>1, EntryFields DEF TypeOK
<1>3. \A j \in Keys : KeyTrue(j)'
  <2> TAKE j \in Keys
  <2>1. KeyTrue(j)
    BY DEF LedgerInv
  <2> QED BY <2>1, <1>1 DEF KeyTrue, EntryTrue
<1>4. OncePerStart'
  BY <1>1 DEF LedgerInv, OncePerStart
<1>5. CASE ledger[k].completed
  <2> DEFINE a == AnswerTo(k, ledger[k])
  <2>1. answers' = answers \cup {a} /\ pc' = pc /\ key' = key
    BY <1>5 DEF Retry
  <2>2. ledger[k].sequence \in 1..Len(wal)
        /\ wal[ledger[k].sequence] = Applied(k, ledger[k].batch, ledger[k].version)
    BY <1>1, <1>5 DEF KeyTrue, EntryTrue
  <2>3. ledger[k].sequence \in 1..MaxWal
    BY <1>1, <2>2 DEF TypeOK
  <2>4. a \in Answers
    BY <1>2, <2>3 DEF AnswerTo, Answers
  <2>5. TypeOK'
    BY <1>1, <2>1, <2>4 DEF TypeOK, Answers
  <2>6. /\ a.key = k /\ a.batch = ledger[k].batch /\ a.version = ledger[k].version
        /\ a.sequence = ledger[k].sequence
    BY DEF AnswerTo
  <2>7. AnswersInWal'
    <3> SUFFICES ASSUME NEW b \in answers'
                 PROVE  b.sequence <= Len(wal) /\ wal[b.sequence] = Applied(b.key, b.batch, b.version)
      BY <1>1 DEF AnswersInWal, Applied
    <3>1. CASE b \in answers
      BY <3>1 DEF LedgerInv, AnswersInWal
    <3>2. CASE b = a
      <4>1. a.sequence <= Len(wal)
        BY <1>1, <2>2, <2>6 DEF TypeOK
      <4> QED BY <3>2, <4>1, <2>2, <2>6
    <3> QED BY <2>1, <3>1, <3>2
  <2>8. StepTrue'
    BY <1>1, <2>1 DEF StepTrue
  <2> QED BY <1>3, <1>4, <2>5, <2>7, <2>8 DEF LedgerInv
<1>6. CASE ~ledger[k].completed
  <2>1. pc' = "append" /\ key' = k /\ answers' = answers
    BY <1>6 DEF Retry
  <2>2. TypeOK'
    BY <1>1, <2>1 DEF TypeOK
  <2>3. AnswersInWal'
    BY <1>1, <2>1 DEF LedgerInv, AnswersInWal
  <2>4. StepTrue'
    BY <1>1, <1>6, <2>1 DEF StepTrue
  <2> QED BY <1>3, <1>4, <2>2, <2>3, <2>4 DEF LedgerInv
<1> QED BY <1>5, <1>6

\* The append of a reserved batch is the first of its key since the start: had
\* there been another, the entry would be completed.
LEMMA AppendReservedStep ==
    ASSUME LedgerInv, AppendReserved
    PROVE  LedgerInv'
<1> DEFINE e == ledger[key]
           r == Applied(key, e.batch, e.version)
<1> USE IdempotencyAssumption
<1>1. /\ TypeOK /\ pc = "append" /\ pc' = "complete" /\ key \in Keys /\ e # NoEntry
      /\ ledger' = ledger /\ file' = file /\ key' = key /\ answers' = answers
      /\ started' = started /\ wal' = Append(wal, r) /\ Len(wal) < MaxWal
  BY DEF LedgerInv, TypeOK, AppendReserved
<1>2. e.batch \in Batches /\ e.version \in 1..MaxVersion
  BY <1>1, EntryFields DEF TypeOK
<1>3. r \in Records /\ wal \in Seq(Records)
  BY <1>1, <1>2 DEF TypeOK, Records, Applied
<1>4. /\ wal' \in Seq(Records) /\ Len(wal') = Len(wal) + 1
      /\ wal'[Len(wal) + 1] = r
      /\ \A i \in 1..Len(wal) : wal'[i] = wal[i]
  BY <1>1, <1>3, AppendKeeps
<1>5. Len(wal) \in Nat /\ started \in 0..Len(wal) /\ r.key = key
  BY <1>1 DEF TypeOK, Applied
<1>6. ~e.completed
  BY <1>1 DEF LedgerInv, StepTrue
<1>7. \A i \in started + 1..Len(wal) : wal[i].key # key
  BY <1>1, <1>6 DEF LedgerInv, KeyTrue
<1>8. TypeOK'
  <2>1. version' \in 0..MaxVersion
    BY <1>1, <1>2 DEF TypeOK, AppendReserved
  <2>2. Len(wal') <= MaxWal /\ started' \in 0..Len(wal')
    BY <1>1, <1>4, <1>5
  <2> QED BY <1>1, <1>4, <2>1, <2>2 DEF TypeOK, Records
<1>9. AnswersInWal'
  <2> SUFFICES ASSUME NEW a \in answers
               PROVE  a.sequence <= Len(wal') /\ wal'[a.sequence] = Applied(a.key, a.batch, a.version)
    BY <1>1 DEF AnswersInWal, Applied
  <2>1. a.sequence \in 1..Len(wal) /\ wal[a.sequence] = Applied(a.key, a.batch, a.version)
    BY <1>1, <1>5, a \in Answers DEF LedgerInv, TypeOK, AnswersInWal, Answers
  <2> QED BY <2>1, <1>4, <1>5
<1>10. OncePerStart'
  <2> SUFFICES ASSUME NEW i \in started + 1..Len(wal'), NEW j \in started + 1..Len(wal'),
                      wal'[i].key = wal'[j].key, wal'[i].key # NoKey
               PROVE  i = j
    BY <1>1 DEF OncePerStart
  <2>1. CASE i \in started + 1..Len(wal) /\ j \in started + 1..Len(wal)
    BY <2>1, <1>4, <1>5 DEF LedgerInv, OncePerStart
  <2>2. CASE i = Len(wal) + 1 \/ j = Len(wal) + 1
    BY <2>2, <1>4, <1>5, <1>7
  <2> QED BY <2>1, <2>2, <1>4, <1>5
<1>11. StepTrue'
  BY <1>1, <1>4, <1>5, <1>6 DEF StepTrue, Applied
<1>12. \A j \in Keys : KeyTrue(j)'
  <2> TAKE j \in Keys
  <2>1. KeyTrue(j)
    BY DEF LedgerInv
  <2>2. EntryTrue(j, ledger[j])' /\ EntryTrue(j, file[j])'
    BY <2>1, <1>1, <1>4, <1>5 DEF KeyTrue, EntryTrue, Applied
  <2>3. ASSUME NEW i \in started + 1..Len(wal'), wal'[i].key = j
        PROVE  /\ ledger[j] # NoEntry
               /\ ledger[j].completed \/ (key = j /\ i = Len(wal'))
    <3>1. CASE i \in started + 1..Len(wal)
      BY <3>1, <2>1, <2>3, <1>1, <1>4, <1>5 DEF KeyTrue
    <3>2. CASE i = Len(wal) + 1
      BY <3>2, <2>3, <1>1, <1>4, <1>5
    <3> QED BY <3>1, <3>2, <1>4, <1>5
  <2> QED BY <2>1, <2>2, <2>3, <1>1 DEF KeyTrue
<1> QED BY <1>8, <1>9, <1>10, <1>11, <1>12 DEF LedgerInv

\* An append that failed leaves the key reserved.
LEMMA AppendFailsStep ==
    ASSUME LedgerInv, AppendFails
    PROVE  LedgerInv'
<1>1. TypeOK'
  BY DEF LedgerInv, TypeOK, AppendFails
<1>2. AnswersInWal' /\ OncePerStart' /\ StepTrue'
  BY DEF LedgerInv, AnswersInWal, OncePerStart, StepTrue, AppendFails
<1>3. \A k \in Keys : KeyTrue(k)'
  BY DEF LedgerInv, KeyTrue, EntryTrue, AppendFails
<1> QED BY <1>1, <1>2, <1>3 DEF LedgerInv

\* The entry completed after the append is true, wherever it is written.
LEMMA CompletionTrue ==
    ASSUME LedgerInv, pc = "complete",
           NEW L, L = [ledger EXCEPT ![key] = Completion(@, Len(wal))]
    PROVE  /\ key \in Keys /\ L \in Ledgers /\ L[key] # NoEntry /\ L[key].completed
           /\ L[key].sequence = Len(wal) /\ Len(wal) \in 1..MaxWal
           /\ L[key].batch \in Batches /\ L[key].version \in 1..MaxVersion
           /\ wal[Len(wal)] = Applied(key, L[key].batch, L[key].version)
           /\ \A j \in Keys : j # key => L[j] = ledger[j]
           /\ \A j \in Keys : EntryTrue(j, L[j])
<1> USE IdempotencyAssumption
<1>1. TypeOK /\ key \in Keys /\ ledger[key] # NoEntry /\ ledger \in Ledgers
  BY DEF LedgerInv, TypeOK
<1>2. /\ ledger[key] \in Entries /\ ledger[key].batch \in Batches
      /\ ledger[key].version \in 1..MaxVersion
  BY <1>1, EntryFields
<1>3. Len(wal) \in 1..MaxWal
      /\ wal[Len(wal)] = Applied(key, ledger[key].batch, ledger[key].version)
  BY <1>1 DEF LedgerInv, TypeOK, StepTrue
<1>4. /\ L[key] = Completion(ledger[key], Len(wal))
      /\ \A j \in Keys : j # key => L[j] = ledger[j]
  BY <1>1 DEF Ledgers
<1>5. /\ L[key] \in Entries /\ L[key] # NoEntry /\ L[key].completed
      /\ L[key].sequence = Len(wal)
      /\ L[key].batch = ledger[key].batch /\ L[key].version = ledger[key].version
  BY <1>2, <1>3, <1>4, CompletionFields
<1>6. L \in Ledgers
  BY <1>1, <1>4, <1>5 DEF Ledgers
<1>7. \A j \in Keys : EntryTrue(j, L[j])
  <2> TAKE j \in Keys
  <2>1. CASE j = key
    BY <2>1, <1>3, <1>5 DEF EntryTrue
  <2>2. CASE j # key
    BY <2>2, <1>4 DEF LedgerInv, KeyTrue
  <2> QED BY <2>1, <2>2
<1> QED BY <1>1, <1>2, <1>3, <1>4, <1>5, <1>6, <1>7

\* A completion ends the operation: what was appended for its key is now completed
\* in memory, and in the file if the write reached it.
LEMMA CompleteSteps ==
    ASSUME LedgerInv, Complete \/ CompleteFails
    PROVE  LedgerInv'
<1> DEFINE L == [ledger EXCEPT ![key] = Completion(@, Len(wal))]
           a == AnswerTo(key, L[key])
<1> USE IdempotencyAssumption
<1>1. /\ pc = "complete" /\ pc' = "idle" /\ ledger' = L /\ file' \in {file, L}
      /\ wal' = wal /\ version' = version /\ started' = started
      /\ answers' \in {answers, answers \cup {a}}
  BY DEF Complete, CompleteFails
<1>2. /\ key \in Keys /\ L \in Ledgers /\ L[key] # NoEntry /\ L[key].completed
      /\ L[key].sequence = Len(wal) /\ Len(wal) \in 1..MaxWal
      /\ L[key].batch \in Batches /\ L[key].version \in 1..MaxVersion
      /\ wal[Len(wal)] = Applied(key, L[key].batch, L[key].version)
      /\ \A j \in Keys : j # key => L[j] = ledger[j]
      /\ \A j \in Keys : EntryTrue(j, L[j])
  BY <1>1, CompletionTrue
<1>3. /\ a \in Answers /\ a.key = key /\ a.batch = L[key].batch
      /\ a.version = L[key].version /\ a.sequence = Len(wal)
  BY <1>2 DEF AnswerTo, Answers
<1>4. TypeOK'
  <2>1. answers' \subseteq Answers
    BY <1>1, <1>3 DEF LedgerInv, TypeOK, Answers
  <2> QED BY <1>1, <1>2, <2>1 DEF LedgerInv, TypeOK, Answers
<1>5. AnswersInWal'
  <2> SUFFICES ASSUME NEW b \in answers'
               PROVE  b.sequence <= Len(wal) /\ wal[b.sequence] = Applied(b.key, b.batch, b.version)
    BY <1>1 DEF AnswersInWal, Applied
  <2>1. CASE b \in answers
    BY <2>1 DEF LedgerInv, AnswersInWal
  <2>2. CASE b = a
    BY <2>2, <1>2, <1>3
  <2> QED BY <1>1, <2>1, <2>2
<1>6. OncePerStart' /\ StepTrue'
  BY <1>1 DEF LedgerInv, OncePerStart, StepTrue
<1>7. \A j \in Keys : KeyTrue(j)'
  <2> TAKE j \in Keys
  <2>1. KeyTrue(j) /\ KeyTrue(key) /\ ~ledger[key].completed
    BY <1>1, <1>2 DEF LedgerInv, StepTrue
  <2>2. EntryTrue(j, ledger[j])' /\ EntryTrue(j, file[j])'
    <3>1. EntryTrue(j, L[j]) /\ EntryTrue(j, file[j])
      BY <1>2, <2>1 DEF KeyTrue
    <3> QED BY <3>1, <1>1 DEF EntryTrue, Applied
  <2>3. file'[j] # NoEntry /\ file'[j].completed => ledger'[j] = file'[j]
    <3>1. CASE file' = L
      BY <3>1, <1>1
    <3>2. CASE file' = file /\ j = key
      BY <3>2, <1>1, <2>1 DEF KeyTrue
    <3>3. CASE file' = file /\ j # key
      BY <3>3, <1>1, <1>2, <2>1 DEF KeyTrue
    <3> QED BY <1>1, <3>1, <3>2, <3>3
  <2>4. \A i \in started + 1..Len(wal) : wal[i].key = j => L[j] # NoEntry /\ L[j].completed
    <3>1. CASE j = key
      BY <3>1, <1>2
    <3>2. CASE j # key
      BY <3>2, <1>2, <2>1 DEF KeyTrue
    <3> QED BY <3>1, <3>2
  <2> QED BY <1>1, <2>2, <2>3, <2>4 DEF KeyTrue
<1> QED BY <1>4, <1>5, <1>6, <1>7 DEF LedgerInv

\* A restart takes the ledger from the file, and nothing was appended since.
LEMMA RestartStep ==
    ASSUME LedgerInv, Restart
    PROVE  LedgerInv'
<1> USE IdempotencyAssumption
<1>1. /\ TypeOK /\ ledger' = file /\ file' = file /\ wal' = wal /\ answers' = answers
      /\ pc' = "idle" /\ started' = Len(wal) /\ Len(wal) \in Nat
      /\ version' \in 0..MaxVersion
  <2>1. TypeOK /\ wal \in Seq(Records)
    BY DEF LedgerInv, TypeOK, Records
  <2>2. \A i \in DOMAIN wal : wal[i] \in Records
    BY <2>1
  <2>3. \A i \in DOMAIN wal : wal[i].version \in 1..MaxVersion
    BY <2>2 DEF Records
  <2>4. RecoveredVersions \subseteq 0..MaxVersion
    BY <2>3 DEF RecoveredVersions
  <2> QED BY <2>1, <2>4 DEF TypeOK, Restart
<1>2. TypeOK'
  BY <1>1 DEF TypeOK
<1>3. started' + 1..Len(wal') = {}
  BY <1>1
<1>4. AnswersInWal' /\ StepTrue'
  BY <1>1 DEF LedgerInv, AnswersInWal, StepTrue
<1>5. OncePerStart'
  BY <1>3 DEF OncePerStart
<1>6. \A k \in Keys : KeyTrue(k)'
  <2> TAKE k \in Keys
  <2>1. EntryTrue(k, file[k])
    BY DEF LedgerInv, KeyTrue
  <2>2. EntryTrue(k, ledger[k])' /\ EntryTrue(k, file[k])'
    BY <2>1, <1>1 DEF EntryTrue, Applied
  <2> QED BY <1>1, <1>3, <2>2 DEF KeyTrue
<1> QED BY <1>2, <1>4, <1>5, <1>6 DEF LedgerInv

\* Every step of the ledger, and stuttering, keeps the invariant.
LEMMA LedgerStep == LedgerInv /\ [Next]_vars => LedgerInv'
<1> SUFFICES ASSUME LedgerInv, [Next]_vars PROVE LedgerInv'
  OBVIOUS
<1>1. CASE Next
  <2>1. CASE \E batch \in Batches : PlainUpsert(batch)
    BY <2>1, PlainStep
  <2>2. CASE \E k \in Keys, batch \in Batches :
               Reserve(k, batch) \/ ReserveFails(k, batch) \/ Retry(k, batch)
    BY <2>2, ReserveStep, ReserveFailsStep, RetryStep
  <2>3. CASE AppendReserved \/ AppendFails
    BY <2>3, AppendReservedStep, AppendFailsStep
  <2>4. CASE Complete \/ CompleteFails
    BY <2>4, CompleteSteps
  <2>5. CASE Restart
    BY <2>5, RestartStep
  <2> QED BY <1>1, <2>1, <2>2, <2>3, <2>4, <2>5 DEF Next
<1>2. CASE UNCHANGED vars
  BY <1>2 DEF vars, LedgerInv, TypeOK, AnswersInWal, OncePerStart, StepTrue, KeyTrue, EntryTrue
<1> QED BY <1>1, <1>2

\* The ledger's invariant holds for any keys, batches, crash points and write
\* errors (BatchUpsertShardIdempotent and commitReservedBatchLocked).
THEOREM LedgerCorrect == Spec => []LedgerInv
<1> QED BY InitLedger, LedgerStep, PTL DEF Spec

\* Between two starts a keyed batch enters the log at most once, whatever fails
\* (commitReservedBatchLocked).
THEOREM AppendedOncePerStart == Spec => []OncePerStart
<1>1. LedgerInv => OncePerStart
  BY DEF LedgerInv
<1> QED BY <1>1, LedgerCorrect, PTL

\* Every answer describes what the log holds at the sequence it names
\* (commitReservedBatchLocked).
THEOREM AnswersTrue == Spec => []AnswersInWal
<1>1. LedgerInv => AnswersInWal
  BY DEF LedgerInv
<1> QED BY <1>1, LedgerCorrect, PTL

\* One step never changes what the file records as completed, nor answers its key
\* in another way.
LEMMA FinalStep ==
    ASSUME LedgerInv, [Next]_vars, NEW k \in Keys, file[k] # NoEntry, file[k].completed
    PROVE  /\ file'[k] = file[k]
           /\ \A a \in answers' \ answers : a.key = k => a = AnswerTo(k, file[k])
<1> USE IdempotencyAssumption
<1>1. ledger[k] = file[k] /\ ledger \in Ledgers
  BY DEF LedgerInv, KeyTrue, TypeOK
<1>2. ASSUME NEW batch \in Batches, PlainUpsert(batch)
      PROVE  file' = file /\ answers' = answers
  BY <1>2 DEF PlainUpsert
<1>3. ASSUME NEW j \in Keys, NEW batch \in Batches,
             Reserve(j, batch) \/ ReserveFails(j, batch)
      PROVE  file'[k] = file[k] /\ answers' = answers
  <2>1. j # k
    BY <1>1, <1>3 DEF Reserve, ReserveFails
  <2> QED BY <1>1, <1>3, <2>1 DEF Reserve, ReserveFails, Ledgers
<1>4. ASSUME NEW j \in Keys, NEW batch \in Batches, Retry(j, batch)
      PROVE  file' = file /\ \A a \in answers' \ answers : a = AnswerTo(j, ledger[j])
  BY <1>4 DEF Retry
<1>5. ASSUME AppendReserved \/ AppendFails \/ Restart \/ UNCHANGED vars
      PROVE  file' = file /\ answers' = answers
  BY <1>5 DEF AppendReserved, AppendFails, Restart, vars
<1>6. ASSUME Complete \/ CompleteFails
      PROVE  /\ file'[k] = file[k]
             /\ \A a \in answers' \ answers : a.key # k
  <2>1. pc = "complete" /\ key \in Keys /\ key # k
    BY <1>1, <1>6 DEF LedgerInv, TypeOK, StepTrue, Complete, CompleteFails
  <2>2. [ledger EXCEPT ![key] = Completion(@, Len(wal))][k] = file[k]
    BY <1>1, <2>1 DEF Ledgers
  <2>3. \A e : AnswerTo(key, e).key = key
    BY DEF AnswerTo
  <2> QED BY <1>6, <2>1, <2>2, <2>3 DEF Complete, CompleteFails
<1>7. \A j, e : AnswerTo(j, e).key = j
  BY DEF AnswerTo
<1> QED BY <1>1, <1>2, <1>3, <1>4, <1>5, <1>6, <1>7 DEF Next

\* What the ledger file records as completed is final (initializeIdempotency reads
\* it back, and every retry is answered from it).
THEOREM CompletionsFinal == Spec => CompletedIsFinal
<1>1. LedgerInv /\ [Next]_vars =>
        [\A k \in Keys : file[k] # NoEntry /\ file[k].completed =>
           /\ file'[k] = file[k]
           /\ \A a \in answers' \ answers : a.key = k => a = AnswerTo(k, file[k])]_vars
  BY FinalStep
<1> QED BY <1>1, LedgerCorrect, PTL DEF Spec, CompletedIsFinal
=============================================================================
