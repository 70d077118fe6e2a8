----------------------------- MODULE LlmCallLog -----------------------------
(***************************************************************************)
(* The log of LLM calls (src/src/llm/sql.py), for one model: a call is     *)
(* recorded in memory and queued; a flush writes the queue to sqlite in    *)
(* one transaction; and whoever first evaluates the model merges the rows  *)
(* on disk into the window of recent calls kept in memory.                 *)
(*                                                                         *)
(* All of it shares one aiosqlite connection, so a load reads the rows of  *)
(* a transaction in progress.  The connection runs its jobs one by one in  *)
(* the order of the requests; a task has one job in it at a time and asks  *)
(* for its next when the answer comes.  One step serves the first job and  *)
(* goes on with its task up to its next request.                           *)
(***************************************************************************)
EXTENDS Naturals, Sequences, FiniteSets, SequencesExt

CONSTANTS
    Calls,       \* calls of the model, each recorded once
    Readers,     \* tasks that ask for the recent calls: hooks and commands
    Flusher,     \* the task that holds _flush_lock
    Cap,         \* _CACHE_MAX
    MaxFaults    \* bound on failing jobs and restarts

ASSUME LogAssumption ==
    /\ Cap \in Nat \ {0}
    /\ MaxFaults \in Nat
    /\ Flusher \notin Readers

VARIABLES
    rows,        \* the table as the connection sees it; a row's id is its place
    durable,     \* how many of the rows are committed
    queue,       \* tasks whose jobs wait in the connection, first to last
    pending,     \* _pending_insert
    batch,       \* what the flush in progress took from it
    phase,       \* the flush's next job: "off" when there is no flush
    dbId,        \* dbId[c]: the db_id of c's record in memory, 0 for None
    cache,       \* _recent_cache: entries, oldest first
    loaded,      \* the model is in _disk_cached
    reader,      \* reader[r]: r's next job of _load_recent_from_db, or "idle"
    snap,        \* snap[r]: the rows r's query has found
    log,         \* history: the calls recorded, without those a crash lost
    faults       \* jobs that failed and restarts so far

diskVars   == <<rows, durable>>
flushVars  == <<pending, batch, phase, dbId>>
cacheVars  == <<cache, loaded>>
readerVars == <<reader, snap>>
vars == <<diskVars, queue, flushVars, cacheVars, readerVars, log, faults>>

Phases == {"off", "insert", "commit", "rollback"}

\* An entry of the cache is the record itself (id 0: its db_id is dbId[call])
\* or a copy made from the row of that id.
Entries == [call : Calls, id : Nat]

DbId(e) == IF e.id = 0 THEN dbId[e.call] ELSE e.id

\* The last n members of s, like s[-n:] and deque(maxlen=n).
LastOf(s, n) == IF Len(s) <= n THEN s ELSE SubSeq(s, Len(s) - n + 1, Len(s))

CallsIn(s) == {s[i].call : i \in DOMAIN s}

Committed == SubSeq(rows, 1, durable)

\* Calls are stamped with the clock when they are recorded.
Time(c) == CHOOSE i \in DOMAIN log : log[i] = c

LogTypeOK ==
    /\ rows \in Seq(Calls)
    /\ durable \in Nat
    /\ pending \in Seq(Calls)
    /\ batch \in Seq(Calls)
    /\ phase \in Phases
    /\ dbId \in [Calls -> Nat]
    /\ log \in Seq(Calls)

TypeOK ==
    /\ LogTypeOK
    /\ queue \in Seq(Readers \cup {Flusher})
    /\ cache \in Seq(Entries)
    /\ loaded \in BOOLEAN
    /\ reader \in [Readers -> {"idle", "select", "fetch", "close"}]
    /\ snap \in [Readers -> Seq(Entries)]
    /\ faults \in Nat

Init ==
    /\ rows = <<>> /\ durable = 0
    /\ queue = <<>>
    /\ pending = <<>> /\ batch = <<>>
    /\ phase = "off"
    /\ dbId = [c \in Calls |-> 0]
    /\ cache = <<>> /\ loaded = FALSE
    /\ reader = [r \in Readers |-> "idle"]
    /\ snap = [r \in Readers |-> <<>>]
    /\ log = <<>>
    /\ faults = 0

----------------------------------------------------------------------------
(* The connection's jobs.                                                  *)

Asks(t) == queue' = Append(queue, t)

\* The first job is t's, and t asks for no other one or for its next one.
ServesLast(t) == queue # <<>> /\ Head(queue) = t /\ queue' = Tail(queue)
Serves(t) == queue # <<>> /\ Head(queue) = t /\ queue' = Append(Tail(queue), t)

Fault == faults < MaxFaults /\ faults' = faults + 1

----------------------------------------------------------------------------
(* Recording and flushing.                                                 *)

\* record_call never waits.
RecordCall(c) ==
    /\ c \notin ToSet(log)
    /\ cache' = LastOf(Append(cache, [call |-> c, id |-> 0]), Cap)
    /\ pending' = Append(pending, c)
    /\ log' = Append(log, c)
    /\ UNCHANGED <<diskVars, queue, batch, phase, dbId, loaded, readerVars, faults>>

\* flush_pending under _flush_lock, from the timer or from the status command.
FlushBegins ==
    /\ phase = "off"
    /\ pending # <<>>
    /\ batch' = pending
    /\ pending' = <<>>
    /\ phase' = "insert"
    /\ Asks(Flusher)
    /\ UNCHANGED <<diskVars, dbId, cacheVars, readerVars, log, faults>>

\* Faulty variant: db_id is filled in as soon as the row is inserted.
InsertFillsId ==
    /\ phase = "insert"
    /\ Serves(Flusher)
    /\ rows' = Append(rows, batch[Len(rows) - durable + 1])
    /\ phase' = IF Len(rows') - durable = Len(batch) THEN "commit" ELSE "insert"
    /\ dbId' = [dbId EXCEPT ![batch[Len(rows) - durable + 1]] = Len(rows')]
    /\ UNCHANGED <<durable, pending, batch, cacheVars, readerVars, log, faults>>

Insert ==
    /\ phase = "insert"
    /\ Serves(Flusher)
    /\ rows' = Append(rows, batch[Len(rows) - durable + 1])
    /\ phase' = IF Len(rows') - durable = Len(batch) THEN "commit" ELSE "insert"
    /\ UNCHANGED <<durable, pending, batch, dbId, cacheVars, readerVars, log, faults>>

\* The db_id of the batch is known to its records from here on.
Commit ==
    /\ phase = "commit"
    /\ ServesLast(Flusher)
    /\ durable' = Len(rows)
    /\ dbId' = [c \in Calls |-> IF \E i \in durable + 1 .. Len(rows) : rows[i] = c
                                THEN CHOOSE i \in durable + 1 .. Len(rows) : rows[i] = c
                                ELSE dbId[c]]
    /\ batch' = <<>>
    /\ phase' = "off"
    /\ UNCHANGED <<rows, pending, cacheVars, readerVars, log, faults>>

\* An insert or the commit raises; the handler asks for a rollback.
FlushFails ==
    /\ phase \in {"insert", "commit"}
    /\ Serves(Flusher)
    /\ Fault
    /\ phase' = "rollback"
    /\ UNCHANGED <<diskVars, pending, batch, dbId, cacheVars, readerVars, log>>

\* Faulty variant: A failed batch is queued behind what was recorded meanwhile.
RollbackRequeuesLast ==
    /\ phase = "rollback"
    /\ ServesLast(Flusher)
    /\ rows' = Committed
    /\ pending' = pending \o batch
    /\ batch' = <<>>
    /\ phase' = "off"
    /\ UNCHANGED <<durable, dbId, cacheVars, readerVars, log, faults>>

\* Faulty variant: The handler commits what it has instead of rolling it back.
RollbackCommits ==
    /\ phase = "rollback"
    /\ ServesLast(Flusher)
    /\ durable' = Len(rows)
    /\ pending' = batch \o pending
    /\ batch' = <<>>
    /\ phase' = "off"
    /\ UNCHANGED <<rows, dbId, cacheVars, readerVars, log, faults>>

\* Faulty variant: The batch is dropped when it fails, as the record plugin does.
RollbackDrops ==
    /\ phase = "rollback"
    /\ ServesLast(Flusher)
    /\ rows' = Committed
    /\ batch' = <<>>
    /\ phase' = "off"
    /\ UNCHANGED <<durable, pending, dbId, cacheVars, readerVars, log, faults>>

Rollback ==
    /\ phase = "rollback"
    /\ ServesLast(Flusher)
    /\ rows' = Committed
    /\ pending' = batch \o pending
    /\ batch' = <<>>
    /\ phase' = "off"
    /\ UNCHANGED <<durable, dbId, cacheVars, readerVars, log, faults>>

----------------------------------------------------------------------------
(* Filling the window from the disk.                                       *)

LoadBegins(r) ==
    /\ ~loaded
    /\ reader[r] = "idle"
    /\ reader' = [reader EXCEPT ![r] = "select"]
    /\ Asks(r)
    /\ UNCHANGED <<diskVars, flushVars, cacheVars, snap, log, faults>>

\* Faulty variant: the rows are handed on as they come.
SelectRaw(r) ==
    /\ reader[r] = "select"
    /\ Serves(r)
    /\ snap' = [snap EXCEPT ![r] = LastOf(rows, Cap)]
    /\ reader' = [reader EXCEPT ![r] = "fetch"]
    /\ UNCHANGED <<diskVars, flushVars, cacheVars, log, faults>>

\* The query's first row fixes its answer: the newest rows, committed or not.
Select(r) ==
    /\ reader[r] = "select"
    /\ Serves(r)
    /\ snap' = [snap EXCEPT ![r] =
                  LastOf([i \in 1 .. Len(rows) |-> [call |-> rows[i], id |-> i]], Cap)]
    /\ reader' = [reader EXCEPT ![r] = "fetch"]
    /\ UNCHANGED <<diskVars, flushVars, cacheVars, log, faults>>

Fetch(r) ==
    /\ reader[r] = "fetch"
    /\ Serves(r)
    /\ reader' = [reader EXCEPT ![r] = "close"]
    /\ UNCHANGED <<diskVars, flushVars, cacheVars, snap, log, faults>>

\* The rows found, and what is in memory under none of their ids, by time.
Earlier(e, f) ==
    \/ Time(e.call) < Time(f.call)
    \/ Time(e.call) = Time(f.call) /\ DbId(e) < DbId(f)

\* The members of S in that order; no two of them are equal in it.
InOrder(S) ==
    LET Rank(e) == 1 + Cardinality({f \in S : Earlier(f, e)})
    IN  [i \in 1 .. Cardinality(S) |-> CHOOSE e \in S : Rank(e) = i]

\* Faulty variant: What was recorded while the query ran is forgotten.
MergedFromDiskOnly(found) == found

Merged(found) ==
    LET seen == {found[i].id : i \in DOMAIN found}
        Kept(i) == \/ DbId(cache[i]) = 0
                   \/ /\ DbId(cache[i]) \notin seen
                      /\ \A j \in 1 .. i - 1 : DbId(cache[j]) # DbId(cache[i])
        kept == {cache[i] : i \in {j \in DOMAIN cache : Kept(j)}}
    IN  LastOf(InOrder(ToSet(found) \cup kept), Cap)

\* The cursor is closed; _ensure_disk_cached goes on.
Merge(r) ==
    /\ reader[r] = "close"
    /\ ServesLast(r)
    /\ cache' = Merged(snap[r])
    /\ loaded' = TRUE
    /\ reader' = [reader EXCEPT ![r] = "idle"]
    /\ snap' = [snap EXCEPT ![r] = <<>>]
    /\ UNCHANGED <<diskVars, flushVars, log, faults>>

\* A job of the query raises: the window is left as it is, to be loaded later.
LoadFails(r) ==
    /\ ServesLast(r)
    /\ Fault
    /\ reader' = [reader EXCEPT ![r] = "idle"]
    /\ snap' = [snap EXCEPT ![r] = <<>>]
    /\ UNCHANGED <<diskVars, flushVars, cacheVars, log>>

----------------------------------------------------------------------------
\* The process ends and starts again: the committed rows are all that is left.
Crash ==
    /\ Fault
    /\ rows' = Committed
    /\ log' = Committed
    /\ queue' = <<>>
    /\ pending' = <<>> /\ batch' = <<>> /\ phase' = "off"
    /\ dbId' = [c \in Calls |-> 0]
    /\ cache' = <<>> /\ loaded' = FALSE
    /\ reader' = [r \in Readers |-> "idle"]
    /\ snap' = [r \in Readers |-> <<>>]
    /\ UNCHANGED durable

Next ==
    \/ \E c \in Calls : RecordCall(c)
    \/ FlushBegins \/ Insert \/ Commit \/ FlushFails \/ Rollback
    \/ \E r \in Readers :
          LoadBegins(r) \/ Select(r) \/ Fetch(r) \/ Merge(r) \/ LoadFails(r)
    \/ Crash

Spec == Init /\ [][Next]_vars

\* The timer flushes again and again, and the connection's thread and the
\* tasks it answers run on.
Fairness ==
    /\ WF_vars(FlushBegins)
    /\ WF_vars(Insert) /\ WF_vars(Commit) /\ WF_vars(Rollback)
    /\ \A r \in Readers : WF_vars(Select(r)) /\ WF_vars(Fetch(r)) /\ WF_vars(Merge(r))

FairSpec == Spec /\ Fairness

----------------------------------------------------------------------------
(* Properties.                                                             *)

\* What was recorded is on disk, in the flush's hands or queued, in the order
\* of recording, nothing missing and nothing twice; and the rows not yet
\* committed are the first of the batch (flush_pending puts a failed batch
\* back in front of what came meanwhile).
LogIsComplete ==
    /\ log = Committed \o batch \o pending
    /\ rows = Committed \o SubSeq(batch, 1, Len(rows) - durable)

\* A record's db_id names its own committed row, never one that a rollback
\* may take away and hand to another call.
IdsAreCommitted ==
    \A c \in Calls : dbId[c] # 0 =>
        /\ dbId[c] <= durable
        /\ rows[dbId[c]] = c

\* How far the flush has come: with LogIsComplete and IdsAreCommitted, what
\* makes them inductive.
FlushKeepsPlace ==
    /\ durable <= Len(rows)
    /\ Len(rows) - durable <= Len(batch)
    /\ phase = "insert" => Len(rows) - durable < Len(batch)
    /\ phase = "commit" => Len(rows) - durable = Len(batch)
    /\ phase = "off" => batch = <<>>

IInv == LogTypeOK /\ LogIsComplete /\ FlushKeepsPlace /\ IdsAreCommitted

\* Whatever interleaves with a load, the evaluation sees the most recent calls
\* without a gap and oldest first.
CacheIsRecent ==
    /\ \E n \in 0 .. Len(log) : CallsIn(cache) = ToSet(LastOf(log, n))
    /\ log # <<>> /\ loaded => cache # <<>>
    /\ \A i, j \in DOMAIN cache :
          i < j => Time(cache[i].call) <= Time(cache[j].call)

\* "磁盘记录 + 内存中尚未落盘的记录（按 db_id 去重，未落盘的排最后）" (sql.py:80): no
\* call is in the window twice.  Violated: a row of a batch being written has
\* an id that its record in memory does not know yet.
CachedOnce ==
    \A i, j \in DOMAIN cache : cache[i].call = cache[j].call => i = j

\* A call that is queued reaches the disk, unless a crash loses it; a flush
\* that failed is tried again.
CallsAreStored ==
    []<>(\A c \in ToSet(log) : c \in ToSet(Committed))

WB == INSTANCE WriteBehind WITH stored <- Committed

\* The log is a write-behind log: rollback, retry and crash included.
ImplementsWriteBehind == WB!Spec
=============================================================================
