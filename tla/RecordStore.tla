----------------------------- MODULE RecordStore -----------------------------
(***************************************************************************)
(* The record of messages (src/src/record/__init__.py, sql.py).  Each      *)
(* message passes the hooks, which await, and waits in a list; a job takes *)
(* the list and inserts it table by table; commands read the tables over   *)
(* the same connection, which whoever comes first opens.                   *)
(*                                                                         *)
(* What was inserted and not yet committed belongs to the connection: any  *)
(* commit on it commits it, and until then no other connection can write.  *)
(* Nothing is rolled back.  A read takes no step but those of get_conn:    *)
(* what it selects changes nothing.                                        *)
(***************************************************************************)
EXTENDS Integers, Sequences, FiniteSets, SequencesExt

CONSTANTS
    Messages,
    Reports,        \* reports of messages: [of |-> message, nr |-> number]
    GroupOf,        \* the group of each message, NoGroup for a private one
    NoGroup,        \* group_id 0
    Excluded,       \* groups whose messages are not recorded
    Masters,        \* users private messages are forwarded to
    Queries,        \* commands that read
    Asked,          \* the group each reads
    MaxFaults       \* bound: failures of the database and of sends

RecordAssumption ==
    /\ \A r \in Reports : r.of \in Messages
    /\ MaxFaults \in Nat

Job == "insert_msg_task"
Callers == Queries \cup {Job}

VARIABLES
    seen,           \* message_id_set
    task,           \* what each report's task does: "idle", "hooks" or "done"
    tell, told,     \* the sends of each report's forwarding still to come, and what
                    \* arrived where
    pending,        \* msgs_to_insert
    batch,          \* what the job inserts
    conn,           \* _conn: the number of the connection, 0 for None
    opened,         \* connections opened so far
    tables,         \* _created_table_group_ids
    caller,         \* where each caller is: its groups, the connection it was given
    open,           \* rows of each connection that wait for a commit
    stored,         \* rows of the file, in the order of their commits
    recorded,       \* history: what was put into the list
    dropped,        \* history: messages of batches that failed before their insert
    faults

conns == <<conn, opened, tables, caller, open, stored>>
vars == <<seen, task, tell, told, pending, batch, recorded, dropped, faults, conns>>

Idle == [pc |-> "idle", todo |-> <<>>, on |-> 0, made |-> FALSE]

Init ==
    /\ seen = {} /\ task = [r \in Reports |-> "idle"]
    /\ tell = [r \in Reports |-> <<>>] /\ told = {}
    /\ pending = <<>> /\ batch = <<>> /\ conn = 0 /\ opened = 0 /\ tables = {}
    /\ caller = [c \in Callers |-> Idle]
    /\ open = [n \in 1 .. Cardinality(Callers) |-> <<>>]
    /\ stored = <<>> /\ recorded = <<>> /\ dropped = {} /\ faults = 0

------------------------------------------------------------------------------
\* The groups of a batch, in the order of their first messages.
GroupsOf(msgs) ==
    FoldLeft(LAMBDA gs, m : IF GroupOf[m] \in ToSet(gs) THEN gs ELSE Append(gs, GroupOf[m]),
             <<>>, msgs)
OfGroup(msgs, g) == SelectSeq(msgs, LAMBDA m : GroupOf[m] = g)

\* Faulty variant: a message is known once it is recorded, after the hooks.
ReportUnmarked(r) ==
    /\ task[r] = "idle"
    /\ task' = [task EXCEPT ![r] = IF r.of \in ToSet(recorded) THEN "done" ELSE "hooks"]
    /\ UNCHANGED <<seen, tell, told, pending, batch, recorded, dropped, faults, conns>>

\* record_message: a message is taken once; the hooks run before it is recorded.
\* private_forward_hook sends every private message to the masters, headed by its sender.
Report(r) ==
    /\ task[r] = "idle"
    /\ IF r.of \in seen THEN task' = [task EXCEPT ![r] = "done"] /\ UNCHANGED <<seen, tell>>
       ELSE /\ seen' = seen \cup {r.of} /\ task' = [task EXCEPT ![r] = "hooks"]
            /\ tell' = [tell EXCEPT ![r] =
                   IF GroupOf[r.of] # NoGroup THEN <<>>
                   ELSE FlattenSeq([k \in DOMAIN Masters |->
                            <<[to |-> Masters[k], part |-> "head"], [to |-> Masters[k], part |-> "body"]>>])]
    /\ UNCHANGED <<told, pending, batch, recorded, dropped, faults, conns>>

Forward(r) ==
    /\ task[r] = "hooks" /\ tell[r] # <<>>
    /\ told' = told \cup {<<r.of, Head(tell[r])>>} /\ tell' = [tell EXCEPT ![r] = Tail(@)]
    /\ UNCHANGED <<seen, task, pending, batch, recorded, dropped, faults, conns>>

\* A send that fails ends the hook, which is logged; the message is recorded all the same.
ForwardFails(r) ==
    /\ task[r] = "hooks" /\ tell[r] # <<>> /\ faults < MaxFaults
    /\ tell' = [tell EXCEPT ![r] = <<>>] /\ faults' = faults + 1
    /\ UNCHANGED <<seen, task, told, pending, batch, recorded, dropped, conns>>

Record(r) ==
    /\ task[r] = "hooks" /\ tell[r] = <<>>
    /\ task' = [task EXCEPT ![r] = "done"]
    /\ IF GroupOf[r.of] \in Excluded THEN UNCHANGED <<pending, recorded>>
       ELSE pending' = Append(pending, r.of) /\ recorded' = Append(recorded, r.of)
    /\ UNCHANGED <<seen, tell, told, batch, dropped, faults, conns>>

------------------------------------------------------------------------------
Goes(c, where) == caller' = [caller EXCEPT ![c].pc = where]

\* get_conn begins: with an await of a new connection, or with the tables.
Call(c, groups) ==
    caller' = [caller EXCEPT ![c] =
        [Idle EXCEPT !.pc = IF conn = 0 THEN "connect" ELSE "create", !.todo = groups]]

\* insert_msg_task; repeat_with_interval awaits each run before the next.
TakeBatch ==
    /\ caller[Job].pc = "idle" /\ pending # <<>>
    /\ batch' = pending /\ pending' = <<>>
    /\ Call(Job, GroupsOf(pending))
    /\ UNCHANGED <<seen, task, tell, told, recorded, dropped, faults, conn, opened, tables, open, stored>>

Query(q) ==
    /\ caller[q].pc = "idle"
    /\ Call(q, <<Asked[q]>>)
    /\ UNCHANGED <<seen, task, tell, told, pending, batch, recorded, dropped, faults, conn, opened, tables, open, stored>>

\* Whoever found no connection opens one, and it replaces another that came between.
Connected(c) ==
    /\ caller[c].pc = "connect"
    /\ opened' = opened + 1 /\ conn' = opened' /\ Goes(c, "create")
    /\ UNCHANGED <<seen, task, tell, told, pending, batch, recorded, dropped, faults, tables, open, stored>>

\* The lock of the file: another connection has rows to commit.
Locked(n) == \E o \in DOMAIN open : o # n /\ open[o] # <<>>
LockedOut(c) ==
    \/ caller[c].pc = "create" /\ Locked(conn)
    \/ caller[c].pc = "insert" /\ Locked(caller[c].on)

\* The next table that is not known is created on the connection that is current by now.
CreateTable(c) ==
    /\ caller[c].pc = "create" /\ caller[c].todo # <<>>
    /\ LET g == Head(caller[c].todo)
       IN  /\ g \notin tables => ~Locked(conn)
           /\ tables' = tables \cup {g}
           /\ caller' = [caller EXCEPT ![c].todo = Tail(@), ![c].made = @ \/ g \notin tables]
    /\ UNCHANGED <<seen, task, tell, told, pending, batch, recorded, dropped, faults, conn, opened, open, stored>>

Commit(n) == stored' = stored \o open[n] /\ open' = [open EXCEPT ![n] = <<>>]

\* The commit of new tables commits whatever else waits on the connection.
GotConn(c) ==
    /\ caller[c].pc = "create" /\ caller[c].todo = <<>>
    /\ IF caller[c].made THEN Commit(conn) ELSE UNCHANGED <<open, stored>>
    /\ caller' = [caller EXCEPT ![c].pc = IF c = Job THEN "insert" ELSE "idle", ![c].on = conn,
                                ![c].todo = IF c = Job THEN GroupsOf(batch) ELSE <<>>]
    /\ UNCHANGED <<seen, task, tell, told, pending, batch, recorded, dropped, faults, conn, opened, tables>>

\* insert_msgs, table by table.
Insert ==
    /\ caller[Job].pc = "insert" /\ caller[Job].todo # <<>> /\ ~Locked(caller[Job].on)
    /\ open' = [open EXCEPT ![caller[Job].on] = @ \o OfGroup(batch, Head(caller[Job].todo))]
    /\ caller' = [caller EXCEPT ![Job].todo = Tail(@)]
    /\ UNCHANGED <<seen, task, tell, told, pending, batch, recorded, dropped, faults, conn, opened, tables, stored>>

InsertsCommit ==
    /\ caller[Job].pc = "insert" /\ caller[Job].todo = <<>>
    /\ Commit(caller[Job].on) /\ batch' = <<>> /\ Goes(Job, "idle")
    /\ UNCHANGED <<seen, task, tell, told, pending, recorded, dropped, faults, conn, opened, tables>>

\* A statement fails, or waits too long for the lock: a query is not answered, and the
\* rest of a batch is gone, while what was inserted of it still waits for a commit.
Fails(c) ==
    /\ caller[c].pc \in {"connect", "create", "insert"}
    /\ IF LockedOut(c) THEN UNCHANGED faults ELSE faults < MaxFaults /\ faults' = faults + 1
    /\ caller' = [caller EXCEPT ![c] = Idle]
    /\ IF c = Job
       THEN /\ dropped' = dropped \cup {m \in ToSet(batch) :
                   caller[c].pc = "insert" => GroupOf[m] \in ToSet(caller[c].todo)}
            /\ batch' = <<>>
       ELSE UNCHANGED <<dropped, batch>>
    /\ UNCHANGED <<seen, task, tell, told, pending, recorded, conn, opened, tables, open, stored>>

------------------------------------------------------------------------------
Hooks(r) == Forward(r) \/ Record(r)
Database(c) == Connected(c) \/ CreateTable(c) \/ GotConn(c) \/ (c = Job /\ (Insert \/ InsertsCommit))

Next ==
    \/ \E r \in Reports : Report(r) \/ Hooks(r) \/ ForwardFails(r)
    \/ TakeBatch \/ (\E q \in Queries : Query(q))
    \/ \E c \in Callers : Database(c) \/ Fails(c)

Spec == Init /\ [][Next]_vars

\* Tasks go on, the job runs again, and the database answers; one that waits for the
\* lock gives up.
Fairness ==
    /\ \A r \in Reports : WF_vars(Hooks(r))
    /\ WF_vars(TakeBatch)
    /\ WF_vars(Database(Job)) /\ WF_vars(LockedOut(Job) /\ Fails(Job))
FairSpec == Spec /\ Fairness

------------------------------------------------------------------------------
TypeOK ==
    /\ seen \subseteq Messages /\ faults \in 0 .. MaxFaults /\ dropped \subseteq Messages
    /\ \A s \in {pending, batch, stored, recorded} : ToSet(s) \subseteq Messages
    /\ conn \in 0 .. opened /\ opened <= Cardinality(Callers)
    /\ \A c \in Callers : caller[c].pc \in {"idle", "connect", "create", "insert"}

\* The rows that wait on some connection.
Waiting == FlattenSeq([n \in DOMAIN open |-> open[n]])
\* The messages of the batch the job has not inserted.
Uninserted ==
    SelectSeq(batch, LAMBDA m : caller[Job].pc = "insert" => GroupOf[m] \in ToSet(caller[Job].todo))

\* A message that two connections report is stored once, and none vanishes: whatever
\* was put into the list is there, in the job's batch, inserted, or dropped with it,
\* though commits of other callers come between the inserts.
EachIsSomewhereOnce ==
    LET all == pending \o Uninserted \o Waiting \o stored
    IN  /\ Cardinality(ToSet(all)) = Len(all)
        /\ ToSet(all) \cap dropped = {}
        /\ ToSet(all) \cup dropped = ToSet(recorded)

\* The rows of a table are in the order their messages were recorded.
RowsInOrder ==
    \A j, k \in DOMAIN stored : j < k /\ GroupOf[stored[j]] = GroupOf[stored[k]] =>
        \E i, l \in DOMAIN recorded : i < l /\ recorded[i] = stored[j] /\ recorded[l] = stored[k]

\* No master reads a message without its sender.
BodiesHaveHeads ==
    \A m \in Messages, k \in DOMAIN Masters :
        <<m, [to |-> Masters[k], part |-> "body"]>> \in told =>
            <<m, [to |-> Masters[k], part |-> "head"]>> \in told

\* A message that was taken is recorded, whatever its hooks end in, and what is recorded
\* does not stay in the list: it is inserted, or its batch fails.
RecordsEnd ==
    \A m \in Messages :
        (m \in seen /\ GroupOf[m] \notin Excluded) ~>
            (m \in ToSet(stored) \cup ToSet(Waiting) \cup dropped)
=============================================================================
