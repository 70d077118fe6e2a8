----------------------------- MODULE MasterData -----------------------------
(***************************************************************************)
(* The game's data (src/src/pjsk/asset.py): versions that sources offer,   *)
(* checked again after an interval by whoever asks next, and tables that   *)
(* are loaded from files and downloaded when a source has a newer version. *)
(*                                                                         *)
(* A table is updated under its lock, but the checks of several tables     *)
(* share the sources and interleave.  What a table holds is the version it *)
(* was downloaded at, which need not be the version it is recorded under;  *)
(* no table is mapped and no hook registered in this repository.  What a   *)
(* source serves is a list that is not empty, and can be indexed.          *)
(***************************************************************************)
EXTENDS Integers, Sequences, SequencesExt

CONSTANTS
    Names,          \* tables
    Sources,
    Gets,           \* calls of get_data, get_indexed or get_sorted
    Wanted,         \* the tables that each asks for
    MaxVersion,     \* bound: versions the game reaches
    MaxStops        \* bound: ends of the bot

DataAssumption ==
    /\ Wanted \in [Gets -> SUBSET Names]
    /\ {MaxVersion, MaxStops} \subseteq Nat

Never == 0          \* DEFAULT_VERSION, no data, no file
NoSource == "no source"
NoTable  == "no table"

VARIABLES
    offered,        \* the version a source serves
    known,          \* RegionMasterDbSource.version
    order,          \* RegionMasterDbManager.sources
    latest,         \* latest_source
    fresh,          \* the interval since the last check is not over
    version,        \* MasterDataManager.version of a table
    data, index,    \* the versions its data and its indexes are made of
    file,           \* its file
    saved,          \* master_data_cache_versions, as the file of the database has them
    unbuilt,        \* tables whose last update failed after it replaced their data
    turn,           \* the gets that hold or wait for its lock, in order
    job,            \* where each get is: its table, the sources whose version it waits
                    \* for, the source it downloads from, and what that served
    stops

sources == <<offered, known, order, latest, fresh>>
tables  == <<version, data, index, file, saved, unbuilt>>
gets    == <<turn, job>>
vars    == <<sources, tables, gets, stops>>

NoJob == [pc |-> "idle", of |-> NoTable, todo |-> {}, src |-> NoSource, got |-> Never]

Init ==
    /\ offered = [s \in Sources |-> 1] /\ known = [s \in Sources |-> Never]
    /\ order = SetToSeq(Sources) /\ latest = NoSource /\ fresh = FALSE
    /\ version = [n \in Names |-> Never] /\ data = version /\ index = version
    /\ file = version /\ saved = version /\ unbuilt = {}
    /\ turn = [n \in Names |-> <<>>] /\ job = [t \in Gets |-> NoJob]
    /\ stops = 0

------------------------------------------------------------------------------
Table(t) == job[t].of
At(t, where) == job[t].pc = where
Goes(t, where) == job' = [job EXCEPT ![t].pc = where]

\* A source gets a newer version of the game's data.
Offer(s) ==
    /\ offered[s] < MaxVersion /\ offered' = [offered EXCEPT ![s] = @ + 1]
    /\ UNCHANGED <<known, order, latest, fresh, tables, gets, stops>>

IntervalEnds ==
    /\ fresh /\ fresh' = FALSE
    /\ UNCHANGED <<offered, known, order, latest, tables, gets, stops>>

Ask(t, n) ==
    /\ At(t, "idle")
    /\ job' = [job EXCEPT ![t] = [NoJob EXCEPT !.pc = "lock", !.of = n]]
    /\ turn' = [turn EXCEPT ![n] = Append(@, t)]
    /\ UNCHANGED <<sources, tables, stops>>

\* The lock is released: with the data, or with an exception.
Return(t) ==
    /\ job' = [job EXCEPT ![t] = NoJob]
    /\ turn' = [turn EXCEPT ![Table(t)] = Tail(@)]

\* Faulty variant: the source's version need not be newer.
DecideAnyway(t, s) ==
    job' = [job EXCEPT ![t].pc = "download", ![t].src = s] /\ UNCHANGED turn

\* What follows once the latest source is known.
Decide(t, s) ==
    IF version[Table(t)] < known[s]
    THEN job' = [job EXCEPT ![t].pc = "download", ![t].src = s] /\ UNCHANGED turn
    ELSE Return(t)

\* A table without data is loaded from its file first, if one is recorded.
Unloaded(t) ==
    LET n == Table(t) IN data[n] = Never /\ file[n] # Never /\ saved[n] # Never

\* The version is set before the file is read.
LoadBegins(t) ==
    /\ At(t, "lock") /\ Head(turn[Table(t)]) = t /\ Unloaded(t)
    /\ version' = [version EXCEPT ![Table(t)] = saved[Table(t)]] /\ Goes(t, "load")
    /\ UNCHANGED <<sources, data, index, file, saved, unbuilt, turn, stops>>

Load(t) ==
    /\ At(t, "load")
    /\ data' = [data EXCEPT ![Table(t)] = file[Table(t)]] /\ Goes(t, "loaded")
    /\ UNCHANGED <<sources, version, index, file, saved, unbuilt, turn, stops>>

\* A file that cannot be read is as good as none, but its version stays.
LoadFails(t) ==
    /\ At(t, "load") /\ Goes(t, "source")
    /\ UNCHANGED <<sources, tables, turn, stops>>

\* The data is in memory; the indexes are built in the pool.
Index(t) ==
    /\ \/ At(t, "loaded") /\ Goes(t, "source") /\ UNCHANGED turn
       \/ At(t, "dumped") /\ Return(t)
    /\ index' = [index EXCEPT ![Table(t)] = data[Table(t)]]
    /\ unbuilt' = unbuilt \ {Table(t)}
    /\ UNCHANGED <<sources, version, data, file, saved, stops>>

AtSource(t) ==
    At(t, "source") \/ (At(t, "lock") /\ Head(turn[Table(t)]) = t /\ ~Unloaded(t))

\* get_latest_source: the versions are known, or all sources are asked.
KnowsSource(t) ==
    /\ AtSource(t) /\ fresh
    /\ Decide(t, latest)
    /\ UNCHANGED <<sources, tables, stops>>

CheckBegins(t) ==
    /\ AtSource(t) /\ ~fresh
    /\ job' = [job EXCEPT ![t].todo = Sources, ![t].pc = "check"]
    /\ UNCHANGED <<sources, tables, turn, stops>>

\* A source answers with its version, or fails, or takes too long.
Checked(t, s, ok) ==
    /\ At(t, "check") /\ s \in job[t].todo
    /\ known' = IF ok THEN [known EXCEPT ![s] = offered[s]] ELSE known
    /\ job' = [job EXCEPT ![t].todo = @ \ {s}]
    /\ UNCHANGED <<offered, order, latest, fresh, tables, turn, stops>>

\* The newest first; the sort is stable.
CheckEnds(t) ==
    /\ At(t, "check") /\ job[t].todo = {}
    /\ order' = SortSeq(order, LAMBDA r, s : known[r] > known[s])
    /\ latest' = Head(order') /\ fresh' = TRUE
    /\ Decide(t, latest')
    /\ UNCHANGED <<offered, known, tables, stops>>

\* The source sends what it has at some moment of the download.
Serve(t) ==
    /\ At(t, "download")
    /\ job' = [job EXCEPT ![t].pc = "served", ![t].got = offered[job[t].src]]
    /\ UNCHANGED <<sources, tables, turn, stops>>

\* An update fails when the data is replaced and the indexes are still to be built:
\* the exception is the caller's.
Fails(t) == Return(t) /\ unbuilt' = unbuilt \cup {Table(t)}

\* Faulty variant: the table is indexed only when it is loaded from its file.
DumpUnindexed(t, ok) ==
    /\ At(t, "dump")
    /\ IF ok THEN /\ file' = [file EXCEPT ![Table(t)] = data[Table(t)]]
                  /\ Return(t) /\ UNCHANGED unbuilt
       ELSE Fails(t) /\ UNCHANGED file
    /\ UNCHANGED <<sources, version, data, index, saved, stops>>

\* The data is written into its file, which is replaced as a whole.
Dump(t, ok) ==
    /\ At(t, "dump")
    /\ IF ok THEN /\ file' = [file EXCEPT ![Table(t)] = data[Table(t)]]
                  /\ Goes(t, "dumped") /\ UNCHANGED <<turn, unbuilt>>
       ELSE Fails(t) /\ UNCHANGED file
    /\ UNCHANGED <<sources, version, data, index, saved, stops>>

\* The versions as the database has them in memory: the file's, and those of the
\* tables that were downloaded since.
Versions(n, v) ==
    [[m \in Names |-> IF version[m] = Never THEN saved[m] ELSE version[m]] EXCEPT ![n] = v]

\* The data is replaced, and the version recorded in memory and on the disk is the
\* one the source has by now; the file is still that of the old data.  The update
\* fails when the database cannot be saved.
Downloaded(t, ok) ==
    /\ At(t, "served")
    /\ LET n == Table(t)  v == known[job[t].src]
       IN  /\ data' = [data EXCEPT ![n] = job[t].got]
           /\ version' = [version EXCEPT ![n] = v]
           /\ saved' = IF ok THEN Versions(n, v) ELSE saved
    /\ IF ok THEN Goes(t, "dump") /\ UNCHANGED <<turn, unbuilt>> ELSE Fails(t)
    /\ UNCHANGED <<sources, index, file, stops>>

\* A timeout leaves what there was; any other failure is raised.  Either way the
\* lock is released.
DownloadFails(t) ==
    /\ At(t, "download") \/ At(t, "served")
    /\ Return(t)
    /\ UNCHANGED <<sources, tables, stops>>

\* The bot ends and starts again.
Stop ==
    /\ stops < MaxStops /\ stops' = stops + 1
    /\ known' = [s \in Sources |-> Never] /\ latest' = NoSource /\ fresh' = FALSE
    /\ version' = [n \in Names |-> Never] /\ data' = version' /\ index' = version'
    /\ turn' = [n \in Names |-> <<>>] /\ job' = [t \in Gets |-> NoJob] /\ unbuilt' = {}
    /\ order' = SetToSeq(Sources)
    /\ UNCHANGED <<offered, file, saved>>

Progress(t) ==
    \/ LoadBegins(t) \/ Load(t) \/ LoadFails(t) \/ Index(t) \/ KnowsSource(t) \/ CheckBegins(t)
    \/ (\E s \in Sources, ok \in BOOLEAN : Checked(t, s, ok)) \/ CheckEnds(t)
    \/ Serve(t) \/ DownloadFails(t)
    \/ \E ok \in BOOLEAN : Downloaded(t, ok) \/ Dump(t, ok)

Next ==
    \/ \E s \in Sources : Offer(s)
    \/ IntervalEnds \/ Stop
    \/ \E t \in Gets : Progress(t) \/ \E n \in Wanted[t] : Ask(t, n)

Spec == Init /\ [][Next]_vars

------------------------------------------------------------------------------

TypeOK ==
    /\ offered \in [Sources -> 1 .. MaxVersion] /\ known \in [Sources -> 0 .. MaxVersion]
    /\ latest \in Sources \cup {NoSource} /\ fresh \in BOOLEAN
    /\ \A f \in {version, data, index, file, saved} : f \in [Names -> 0 .. MaxVersion]
    /\ unbuilt \subseteq Names
    /\ \A t \in Gets :
          /\ job[t].pc \in {"idle", "lock", "load", "loaded", "source", "check", "download",
                            "served", "dump", "dumped"}
          /\ job[t].of \in Names \cup {NoTable} /\ job[t].todo \subseteq Sources
    /\ \A s \in Sources : known[s] <= offered[s]

\* A table that nobody is updating has the indexes of its data, through timeouts,
\* failed downloads, loads and restarts, unless its last update failed in between:
\* the indexes are those of older data then, until there is a newer version
\* (find_by looks into the indexes and falls back to the data).
IndexIsOfData ==
    \A n \in Names \ unbuilt : turn[n] = <<>> => index[n] = data[n]

\* While the bot runs, the version of a table only goes forward, though sources
\* differ and are checked by others during a download.
VersionGoesForward ==
    [][stops' = stops => \A n \in Names : version'[n] >= version[n]]_vars

\* What is about to replace the data of a table is newer than the version it is
\* recorded under, though other gets check the sources during the download.
FetchedIsNewer ==
    \A t \in Gets : At(t, "served") => job[t].got > version[Table(t)]
=============================================================================
