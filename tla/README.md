# MinoriBot in TLA+

Specifications of MinoriBot, a OneBot v11 reverse-websocket bot, and of the autochat
service beside it: TLA+ modules translated from the Python source, TLC configurations
that check them on small instances, and TLAPS proofs for every value of the constants.
Paths below are relative to the repository root (the package is `src/`); PROJECT.json
puts another `src/` in front of them.

Contents: 1 the system, 2 the modules, 3 the runs, 4 the proofs, 5 what disagrees with
the documentation and what else was seen, 6 plan, 7 what is left out.

## 1. The system

The bot is one asyncio loop. A OneBot client connects to it by websocket; every
event it reports becomes a task that logs the event and offers it to the handlers
on the bus; the handlers call the client's API back over the same socket. Everything
concurrent is therefore an interleaving of coroutines *at their awaits*, with three
exceptions: thread and process pools, SQLite's own thread (aiosqlite), and the
separate autochat process, which polls the bot over RPC and reads its JSON files.

| Component | State | Operations | Talks to | Modules |
|---|---|---|---|---|
| Sessions, registry (`src/core/server.py`, `bot.py`) | `_bots`, `Bot.self_id`, `_closed`, tasks | `_session`, `_handle_payload`, `register_bot`, `unregister_bot`, `close` | API calls (login), hooks, bus | `BotRegistry` |
| API calls (`src/core/bot.py`) | `_pending` echoes, futures, `_send_lock` | `call_api`, `deliver`, `close` | websocket, every plugin | `ApiCalls`, `ApiContract` |
| Bus, event log (`bus.py`, `log_event.py`) | handlers by priority, ids already logged | `emit`, `log_event` | every plugin; API (names) | `Dispatch` |
| Configuration, FileDB (`config.py`, `store.py`) | yaml by mtime; JSON in memory and on disk | `get`, `set`, `delete`, `save` | every plugin | `Settings`, `FileStore`, `KeptMap` |
| Command dispatch (`src/utils/handler.py`) | commands, cooldowns, `block_set`, lists of groups | ranking, checks, `block`, on and off | bus, every plugin | `Dispatch`, `GroupSwitches`, `Gallery` |
| Messages in and out (`message.py`, `handler.py`) | caches of names, the event's reply | segments to text and back, pictures of a message, names, folds | API | `CqCodes`, `Incoming`, `Names`, `FoldMessages` |
| Utilities (`src/utils/utils.py`, `scheduler.py`) | jobs to start, temporary files | repeated and single jobs, cleaning | every plugin | `Repeats`, `TempFiles` |
| Gallery (`src/gallery`) | galleries, pictures, `pid_top`, files, history | upload, undo, delete, replace, reload, open, close, alias | FileDB, `block`, pool | `Gallery` |
| Message record (`src/record`) | batch, connection, tables known | record, flush, queries | SQLite; autochat hooks | `RecordStore` |
| LLM (`src/llm`) | providers, quotas, call log, model states | query with fallback, `record_call`, `flush_pending`, judging | HTTP, SQLite, FileDB | `LlmCalls`, `LlmCallLog`, `WriteBehind`, `ModelStatus` |
| Chat (`src/chat`) | sessions by message id, models, captions, stickers, clips | query, choice of models, upload, download | LLM, FileDB | `ChatSessions`, `ChatModels`, `Captions`, `Stickers`, `Voices` |
| Autochat plugin (`src/chat/autochat.py`, `src/utils/rpc.py`) | a pool per RPC client, recent notices | record hook, notice, hand-over | record, API | `AutochatFeed` |
| Autochat service (`services/autochat`) | a queue and worker per group, memories | poll, decide, plan, act, remember | RPC | `AutochatFeed`, `AutochatReply` |
| Pjsk assets (`src/pjsk/asset.py`) | versions, tables, indexes, cached files | update before get, download | HTTP, disk | `MasterData`, `RipAssets` |
| Drawing (`src/draw`) | the region stack, cached pictures, a process pool | measure, draw, hash, cache | disk | `Layout`, `TextLines`, `PictureHash`, `PictureCache` |
| Keep-alive, status, image tools, LLM drawing, code runner, help | counters or none | rendering, one HTTP call | API | section 7 |

Behaviours that are hard, and what makes each part correct:

* **Sessions and calls.** Two connections may claim one account; answers come late,
  twice, or on another connection; sends fail, bots close in the middle. Correct: the
  registry agrees with `self_id`, hooks balance, an evicted session leaves its successor
  alone, sessions that are over end; every call ends once with what the peer answered, or
  an error, and nothing stays in the table of echoes.
* **Events.** One message may be reported twice, and its tasks await names and hooks
  before the handlers see it. Correct: it is recorded once; a cooldown holds between the
  awaits of two runs; what a command blocked does not run.
* **State read before an await and used after it.** Galleries, stickers, chat sessions,
  master data, models. Correct: numbers mean what they were given for, sessions have
  one holder, tables fit their versions.
* **Files.** Every change saves a whole file; saves fail, the process stops, power is
  lost. Correct: a file is one that was saved, and a restart finds what users were told.
* **Write-behind logs.** Batches on a shared connection whose commit takes whatever was
  inserted. Correct: a record is in one place, until it is stored or lost to a fault.
* **Hand-over to another process.** The pool is emptied by one request, answers are
  lost, the service restarts. Correct: each item once, in order, or lost to a fault.
* **Pictures.** Measuring and drawing are two walks over the same tree; a cache is
  looked up, missed and filled over awaits. Correct: a widget is drawn where it was
  measured; a caller gets the picture of its own operations.

## 2. The modules

In every module an action is what one coroutine does between two awaits, and a
coroutine's position is a value such as `call[c]`, `pc[t]` or `at[g]`. PROJECT.json
names the source lines of each definition. Operators introduced as *Faulty variant* are
not used by the specifications: each is the definition below it with a plausible bug,
and shows that a property can fail.

### Connections, events, messages

**ApiCalls.** `pending[b]` is `Bot._pending`; `sendq[b]` the owner and waiters of the
lock; `fut[c]` the call's future, whose answer may arrive while `ws.send` still drains.
Echoes are globally unique in the code, so calls stand for their echoes; a peer can
answer any call it has received, over any connection, any number of times. `link` is
the peer's side, `closed` is `Bot._closed`. `heard` is a history variable that no action
reads. The abstract `ApiContract` says what `call_api` promises a plugin, without
sockets, futures or locks.

**BotRegistry.** One session has an account, a reader, a login call, queued event tasks
and a `closed` flag. `AdoptId` is the account change that events and the login share.
Registering evicts the older bot of the account: the entry is overwritten and a task to
close the old one is scheduled (`closeTasks`). `ReaderEnds` distinguishes a connection
closed properly (`gather` then waits for the login) from a lost one (`gather` raises,
and the session's `finally` runs while the login is still on its way). `LoginMayLag`
says whether `asyncio.wait_for` wakes its caller a loop turn late, as Python 3.11 does,
which README.md:23 admits.

**Dispatch.** A message as a task per report: seen ids, the name of the group, the
recorder and its hooks, then the commands in the order `handler.py:1580` ranks them
(length of the prefix, then priority), each with its checks: superuser, list of the
group, cooldown, `only_to_me`. A message is a sequence of segments: the reply it begins
with, mentions, blanks and words. A task keeps the set of handlers it has still to try, and `Best`
is the next one of that order. Whether it is for the bot is taken from its mentions and
from whom it replies to (`CheckToMe`), before the command is looked for in what is left
(`CommandText`). The set of seen ids has a small limit, so that it is emptied as the code
empties it.

**CqCodes.** A message as CQ text and read again, one mark at a time, and cut into the
parts of a fold. Texts are sequences of marks: those that mean something (`&`, brackets,
comma, `=`, the ends of escapes, `CQ:`) and others, so that texts that look like codes or
escapes are among the inputs, as are codes that somebody typed and left open.

**Incoming, Names, FoldMessages.** `Incoming` collects pictures over forwards and the
message replied to, which the first handler that asks puts into the event. In `Names` a
name *is* the moment at which it was true, so that a cache can be seen to be behind.
`FoldMessages` treats texts as sequences of distinct units, cut by a width
(`Folds`, a recursive function); an answer that cannot be forwarded falls back to simpler ways
of sending. A call that raises may have been carried out, or be carried out later, since
`call_api` raises as well when the answer is late: such calls stay in `unanswered`, and
`ArrivesLate` is the client's. The parts of an answer can therefore come a second time, and
`ArrivesInOrder` says when: once more for each such call, never otherwise.

**Settings, GroupSwitches.** `Settings` keeps the truncated time of the file that stands
for its version, shared by all `Config` objects, each of which looks once in an interval.
`GroupSwitches` has the on and off commands with the await of the group list, on lists
that are keys of one file; an old file may hold a group as a text.

### Stores

**FileStore** implements **KeptMap**: temporary file, flush, rename, as steps between
which the process may stop or the machine lose power; the bot's FileDB syncs and the
service's does not. What a power loss leaves of a file that was not synced is arbitrary,
torn included.

**Gallery.** A picture file is a triple of its directory, a number no other file has and
what it looks like. `Free` says that the loop is not inside a `_save`, an undo, or the
synchronous end of an upload, which take several steps here only so that the process can
crash between them. `gen` tells the `Gallery` objects of one name apart, since a handler
keeps the object it got before an await. `is_same` is taken as an equivalence, and the
thread that goes through the pictures as one step.

**Stickers, Voices.** Two processes around a JSON file: the bot gives numbers and saves,
the service reads file and time in two steps, and, for stickers, asks for vectors in a
job and searches the cache while the file changes. A restart of the service may come with
another embedding model, whose predecessor's vectors are not used. `SendFails` is
a reply that cannot send the sticker it found, for whatever reason: the sticker leaves the cache,
and `unsent` remembers which of them still had their picture. As long as the store's file stays
as it is the cache counts as current, so they are not found again, which is the
exception in `StickersAreFound`. `Voices` also has the queue of
downloads with its worker and the reports to the users who started updates.

**Captions, ChatModels, ChatSessions.** `ChatSessions` has the map of sessions across the
rounds of a query: taken out, backed up, limited, put back under the next answer's id or
the old one. A session gets the system prompt of the mode it is begun in, or none
(`Plain`). `ChatModels` parses names as sequences of words, because the code removes
the mode's word from what was typed (`IsWithout`). `Captions` keeps captions and their list in two
saves.

**MasterData, RipAssets.** `MasterData` separates what a table holds from the version
recorded for it; data, indexes and version are written over awaits under the table's
lock, while source checks interleave. Saving the versions and dumping the data may fail when the
data is already replaced: the table is then in `unbuilt`, and `IndexIsOfData` leaves it out until it
is indexed again. `Wanted` says which tables each caller asks for. `RipAssets` is one file with callers of
different needs (bytes, path, image in memory, fresh only), sources tried one after the
other, failing saves and stops half way.

**RecordStore, LlmCallLog.** Both have the one shared connection. In `RecordStore` what
was inserted belongs to the connection until any commit on it, nothing is rolled back, and
a second connection is locked out meanwhile. In `LlmCallLog` the aiosqlite thread serves
`queue` in order: a flush of one or two rows always fills in the ids before a load that
saw its rows goes on, a flush of three does not. `rows` is the table as the connection
sees it and `durable` how much of it is committed; an entry of the cache is the record in
memory, whose `db_id` is `dbId[c]`, or a copy of a row. The time of a call is its place
in `log`. The abstract `WriteBehind` is a disk that holds a prefix of what was recorded.

**TempFiles, Repeats.** Kept files with their time, the job that looks for them, files of
failed handlers and of earlier runs. `Repeats` plans runs an interval apart from the first
one, whatever a run takes, and starts what was registered before the scheduler ran.

### Models and replies

**LlmCalls.** The limit per second, the tries of a chat over its models, charges, records;
a try may fail before the answer, in its processing or when it is recorded. What was charged
is a set of charges (`Charges`), so that the quota is compared with its size.
**ModelStatus.** Every recorded call starts a task that judges under the model's lock; the
notices go out after it is released. The saved state is `"unset"` until the first verdict.
**AutochatFeed.** RPC sessions and their pools, the poll with its timeouts, the queue and
worker per group. Items are numbered as they are pushed; `lost` is a history of those a
fault took.
**AutochatReply.** `chat()` for one group: reading, willingness, summary, embedding,
planning, acting, forgetting, with its files and a restart in any await. Messages have times in
whole seconds: the database may answer with any of the latest rows, in any order within a second
(`Answers`), the sort is stable (`ByTime`), and the cut comes after it. `AnsweredIsRead` says
what that leaves of the promise that the message answered is read.

### Drawing

**Layout.** A container (split, grid, flow or frame) measures its items, arranges them and
draws each into a region it restores; floats are exact fractions here, rounded down where
the code takes `int`, except that the products in `Short` come out one less: which these are
depends on the floats (`int(61 / 7 * 7)` is 60), and `ShortProducts` of `SampleInputs` has the one
that its widgets meet. An item is any widget of a measured size. **TextLines** cuts lines to
the width of a box; a character is its width and whether it is ASCII. **PictureHash** feeds
values to a digest as sequences of symbols, with every order a Python set may have, objects in
objects and iterables among them;
**PictureCache** is `Painter.get` with its pool of processes and files per key.

### Instances

`MCConnections`, `MCEvents`, `MCGallery`, `MCModels`, `MCTalk`, `MCStores` and `MCWork`
each hold several instances that do not interact. `scene`, chosen initially, says which
one runs while the others stand still, so one run explores the union of their state
spaces, not the product. A property of such a run is one promise, about one
instance or about those that share a hazard. `SampleInputs` holds the inputs
(widgets, texts, messages, commands, requests).

Six of them extend one component's module (or, in `MCGallery`, its proofs) and so check that
component's own definitions; the others are instances in substituted variables. `MCGallery` takes
`GalleryProofs` three times: extended, for *serial*, and as the instances *files* and
*turns*, which makes the theorems of that module theorems about these scenes.
*titles* is a plain instance of `Gallery`: TLC evaluates a definition that is a constant
once for a module it meets only through instances, and the initial record of an upload
must have its own value in each scene.

In `MCEvents`, `MCModels` and `MCStores` the instances that section 4 proves something about
take their parameters from constants of the module, which its `.cfg` gives their values, and
`InstancesAreSound` is the assumption that these satisfy what each module assumes. A theorem
about such an instance is thus one for all values of its parameters.

## 3. The runs

| Run | Instances | States | Properties |
|---|---|---|---|
| `connections` | `ApiCalls`: 2 bots, 2 calls; `BotRegistry`: 2 sessions of 1 account, login answers may lag; `AutochatFeed`: 2 RPC sessions, 2 items, 1 fault | 124 960 | `TypeOK`, `PendingIsUnfinished`, `ClosedBotAwaitsNothing`, `OneSenderPerBot`, `OutcomeWasAnswered`, `ImplementsContract` (every call ends once, as the peer answered); `SessionsEnd`; `FeedFlows` |
| `events` | `BotRegistry`: 2 sessions, 2 accounts; `Dispatch`: 3 reports of 2 messages, 6 commands; `Incoming`; `Settings`: 2 readers, 3 edits; `ModelStatus`: 3 tasks, 5 calls; `FoldMessages`: answers of up to 3 messages, 3 calls that raise; `CqCodes` | 3 029 183 | registry invariants, `OnlySelfOrSuccessorUnregisters`; `EventsAreSound`; `ChangesAreSeen`; `PartsArriveInOrder` |
| `gallery` | four of `Gallery`: *serial* (crashes, reloads, failing copies, one handler), *files* (2 handlers race commands), *titles* (3 names, 3 uploads), *turns* (2 uploads of 2 pictures) | 4 445 314 | `PidsAreUnique`, `UndoesOwnInTurn`; `PicturesAreSound`; `NamesAreSound`; `CheckedUploadIsNew` |
| `models` | `LlmCallLog`: 3 calls, 2 readers, window of 2, 2 faults; `LlmCalls`: 2 chats of 2 models, an embedding, a speech; `Dispatch`; `Stickers`: 2 sids, forced uploads; `Voices`, with restarts of the bot | 333 559 | `LogIsComplete`, `IdsAreCommitted`, `CacheIsRecent`, `ImplementsWriteBehind`, `CallsAreStored`; `RequestsAreCharged`; `JobsFinish` |
| `talk` | `ChatSessions`: 3 queries, one of them with tools and one without a prompt; `AutochatFeed`: 2 groups, 2 items, 4 seconds, 1 fault; `AutochatReply`: 3 items, 1 restart | 6 727 555 | `ThreadsAreKept`; `FeedIsSound`; `RepliesAreSound` |
| `stores` | `FileStore`; `Stickers`: 2 pictures, 1 restart, no forced upload; `Voices`: 2 updates, 3 clips; `GroupSwitches`; `ChatModels`; `Captions`; `Names`; `MasterData` twice (2 tables, each asked for by one caller; 1 table, 2 callers and a stop); `RecordStore`: 4 reports; `TempFiles` | 3 586 232 | `FilesAreWhole`, `ImplementsKeptMap`; `NumbersKeepTheirMeaning`; `SettingsAreKept`; `DataIsCurrent` |
| `work` | `Layout`, `TextLines`, `PictureHash` over all inputs of `SampleInputs`; `PictureCache`: 2 calls, 2 faults; `RipAssets`: 2 calls, 2 sources; `RecordStore`: 2 reports; `Repeats` | 286 163 | `WorkIsSound`; `WorkEnds` |
| `registry_zombie`, `gallery_undo`, `gallery_reload`, `log_once`, `fold_shortened` | small | | the disagreements of section 5 |

*Bounds.*
* Connections: two are what eviction, misrouting and account changes relate; two calls on
  one give the lock a holder and a waiter, and that it admits one sender among any number
  is proved. A session has one event waiting to start (`MaxTasks`).
* Events: two reports of one message and one of another make repetition, overtaking and a
  cooldown between two runs; the commands are one of each kind (on, off, two of one
  cooldown, one for mentions, one that takes everything) with a prefix of a prefix. Three
  edits give a change within the second of a load. The
  monitor's streaks and windows are settings; 2 to 4 calls of 5 let a window move.
* Gallery: two handlers in flight suffice for a stale read, since each race is between
  one handler's await and one other change; three uploads are needed where one holds a
  block, one gives up and one enters. `MaxCommands` bounds other commands, crashes and
  failing copies included. One replacement and one reload run at a time.
* Log: with three calls a batch of two is written while a third is recorded, and a window
  of two overflows. A window smaller than four hides the repeated entry of `log_once`; the
  code's is 30.
* Stores: a number, table or caption needs two users and one restart to change its
  meaning. `Captions` has more pictures than its limit; `Voices` has a clip given twice
  when its text was changed, which needs three numbers. Its restarts are in `models`,
  and so are forced uploads of stickers. Two sids let one sticker be dropped, or lack its
  vector, while the other is found. For stickers, restarts are in `stores` and liveness is in
  `models`, without them; that instance of `models` alone, with one restart, also satisfies
  `StickersAreFound` (313 503 states), but would make the run twice as long.
* Drawing: up to five items of two sizes, which is where rounding, remaining space and a
  last incomplete row differ; texts of up to three characters of two widths, or of two
  lines, in boxes narrower than one character or wide enough for all of them; ratios that fit, and
  one whose product is short; values nested one deep, and objects and iterables in objects.
* `CqCodes`: messages of up to two segments with two marks each, codes and escapes
  among them, and typed texts of up to five marks, with codes that are cut off, repeat a key
  or lack a value.

Every bound is a constant of its module and stands in its guards. No queue, counter or
history is bounded otherwise: the sets of calls, sessions, uploads and tasks are finite,
so a model may stop, and `CHECK_DEADLOCK` is off. `gallery` uses symmetry of galleries,
uploads and looks, and no liveness.

*Fairness.* A coroutine that is ready runs, and a timer fires: that is asyncio. Beyond it:
* `ApiCalls`: a send that drains slowly ends because the server pings every 20 s and drops
  a connection whose pong is 20 s late (`server.py:248-253`). Nothing is assumed of the peer.
* `BotRegistry`: the login call ends, as `ApiContract` shows of any call; the reader of a
  *closed* bot ends, because `close` has a timeout in the websocket library. That a
  connection in use ever ends is not assumed.
* `AutochatFeed`: the service connects and polls in endless loops; a call on a lost
  connection fails; handling an item ends. Faults are bounded by `MaxFaults`.
* `LlmCallLog`, `RecordStore`: `repeat_with_interval` calls the flush again and again, and
  the connection's thread serves its queue; requests fail at most `MaxFaults` times.
* `LlmCalls`, `Dispatch`, `PictureCache`, `RipAssets`: awaits end, since HTTP requests and
  processes have timeouts; how they end is open.
* `Stickers`: strong fairness that a sticker's vector is got in the end: requests for it
  are repeated and not all of them fail. Nothing is assumed of sendings, which may go on
  failing. `Voices`: each download ends.
* `Repeats`: the clock moves on, and a run ends.

*What TLC alone shows:* liveness; `PartsArriveInOrder` and `WorkIsSound`, which are about
recursion over data; `ThreadsAreKept`, `RepliesAreSound` and `DataIsCurrent`, for which no
proof has been written; and everything on the modules of section 2 that section 4 does not
name.

## 4. The proofs

`BotRegistryProofs`, for any sets of sessions and accounts and any bound on tasks. The
five invariants are not inductive one by one: that hooks match the registry needs that a
session appears under one account only, which is `RegistryMatchesSelfId`; that an ended
session is unregistered needs that its coroutines have stopped (`OnlyOpenSessionsRun`:
a login runs, and tasks wait, only in an open session) and, for sessions still open, that
a login answer is not left in flight, which is `~LoginMayLag`. `IInv` is their
conjunction. The lemmas on `Unregister`, `Register` and `AdoptId` say once what these do
to an arbitrary registry; each action then needs only the lemma of what it calls.
Theorems: `TypeCorrect`, `RegistryMatches`, `HooksMatch`, `TwinIsClosed`,
`EndedUnregistered` (under `~LoginMayLag`, the hypothesis that `registry_zombie` shows
to be necessary), and `SelfOrSuccessorUnregisters` for the action property.

The same module extends `MCEvents`, and proves two properties of the run `events` about its
other instances:

* `ChangesAlwaysSeen`, for any readers of a file, judging tasks and groups. `ConfigInv`: the
  time the cache remembers is no later than the file's, and where they are equal the cache
  holds the file (`CacheFollowsFile`); seconds follow the order of their moments. It supposes
  what the run does, that edits fall into different seconds. `StatusInv`: an odd number of notices
  means that the model was last called bad, and once the task of the newest call has judged,
  what it found has been said (`VerdictIsSpoken`). It supposes `RulesExcludeEachOther`, an
  assumption of `ModelStatus`: no calls are both an outage and a recovery. The code does not
  demand it of the settings; those of `config-example/llm/llm.yaml:41` satisfy it.
* `EventsAlwaysSound`, for any messages, reports, users, cooldowns and pictures. `EventsInv`:
  lines of the log and reports that still await a name are together one more at most than the
  set of seen ids was emptied (`LoggedOnce`); of the reports of one message only one awaits the
  hooks of the recorder (`HooksOnce`); a run is no later than the last its cooldown
  knows of, and while a blocking command works, the dispatcher is at it (`RunsAreKept`).
  `IncomingInv`: a handler has found just what lies behind it on its way through message, reply
  and their forwards (`FoundOnTheWay`), and whoever is at the reply has it (`ReplyIsThere`).

`ApiCallsProofs`, for any bots and calls. `IInv` joins the run's invariants with two
that relate a call to its future: `CallsHaveTheirState` (a call that has begun has a
target, a future and, until it is done, no outcome) and `AnswersAreHeard` (a future with
an answer is one the peer gave over the call's own bot). The queue invariant of
`OneSender` is proved apart, because it is about positions in a sequence: the queue
holds exactly the calls that are sending, and only its head is draining. `Implements` maps
initial states to initial states and each step to one step of `ApiContract` or a
stutter. Assumptions: `ApiAssumption` and `RegistryAssumption`, which TLC evaluates.

`LlmCallLogProofs`, for any calls, readers, window and number of faults. `IInv` is the
types of the log, `LogIsComplete`, `IdsAreCommitted` and `FlushKeepsPlace`, which says
how many rows of the batch are in the table in each phase: without it an insert could run
past its batch and a commit could come early. Three lemmas on prefixes carry the
sequence reasoning; one lemma per action shows that it preserves `IInv` and what it
does to the committed rows, and the refinement of `WriteBehind` reads its steps off the
same lemmas: a commit is a `Store`, a restart a `Crash`, and a rollback a stutter.
Theorems: `LogTypeCorrect`, `LogAlwaysComplete`, `IdsAlwaysCommitted`,
`WriteBehindImplemented`. Assumption: `LogAssumption`.

The same module proves the window of recent calls, by `WInv`. A load reads the rows over
several jobs of the connection while calls are recorded and flushed; what must not happen is
a call between the newest row read and the oldest record in memory. `CacheInv` says that the
window has with each call those recorded after it, and, while it has room, everything that
is on no disk. `SnapInv` says of a load under way that for some number of rows `b` it has
found the last of the first `b`, and that the window, while it has room, has everything after
them. A merge closes the gap if at most one row was committed beyond `b`. That bound is
`Pace`, and it comes from the order of service in the connection (`QueueInv`: each waiting task
has one job in the queue): the flush is served at most once between two jobs of a load, and
not again before it if it stands behind it. A window that is full
is safe for another reason: whatever the merge drops is older than all it keeps (counted in
`MergedIsRecent`). `InOrder` lists a set by rank, so that `OrderedSet` follows from facts on
cardinalities, without induction. Theorems: `LogTypesHold` and `CacheAlwaysRecent`. TLC has
checked `WInv` with up to 6 calls, 3 readers, 3 faults and windows of 1 to 3.

The module extends `MCModels`, and has the proof of `RequestsAlwaysCharged` about its
`LlmCalls`, for any requests, models to try and limit: `LlmInv` says that a request has a
record for each of its calls but the one it awaits, that the provider's counter has the
requests of the second, and that the quota is short of as many prices as there are charges.

`AutochatFeedProofs`, for any connections, groups, notices, items, faults and length of
time, in three layers. `TypeInv` adds to the types the shapes they leave open (queues and
pools hold numbers of items that exist) and `PoolIsUsed`: a connection in use is the one
with the pool, which makes that there is one pool inductive. `FlowInv` is about the items:
`NothingVanishes` says that each is in the pool, in an answer on its way, in a queue, handled
or lost; `HandledInOrder` needs `KeepsOrder`, that each of these places is sorted and that
whatever is further along the way is older. `MarksInv` is about notices: the mark of
one that was pushed, or waits for names, is kept until no report of it can come.
Theorems: `FeedTypeCorrect`, `OnePoolAlways`,
`NothingEverVanishes`, `HandledAlwaysInOrder`, `NoticesStayApart` and their sum
`FeedAlwaysSound`, the property of `talk`. The last two suppose `MaxLag <= KEEP - NEAR`: a
mark is dropped at the report of any notice more than `KEEP` (3) seconds away from it, and
stands for repetitions up to `NEAR` (2) seconds away (`autochat.py:98-100`), so a notice
reported more than a second after it happened may have lost its mark to a
younger one and be pushed twice. The code bounds no delay; the hypothesis is about the OneBot
client. The other theorems have none.

`FileStore` has its proofs in itself. `WholeInv` says that what is about to be renamed is
the text that was written and, where the file is flushed, that whatever a power loss may
leave on the disk is whole. `FilesAlwaysWhole` and the refinement
`KeptMapImplemented` suppose `Synced`, which is what the bot's `FileDB` does and the
service's does not; for the service `TornByPowerLossOnly` says that only losing power
tears a file. In the refinement the rename is the step that saves, and everything else a stutter,
a failure or a restart.

`MCStores` has the proofs about its own instances, two properties of the run `stores`:

* `SettingsAlwaysKept`, for any groups, users, models, pictures and names. `SwitchInv` is
  inductive as it is. `ChoiceInv`: what is chosen, in memory and in the file, fits its mode, and
  unless it is the preset has none of the words that are looked for up to its mode's own. `CaptionInv`: captions that are neither
  in the list nor on their way into it are no more than the restarts (`Unlisted`).
  `NamesInv`: the clock does not pass the timeout of a call that is awaited, so that what is
  kept was true one timeout, at most, before its answer came.
* `NumbersAlwaysKept`, for any uploads, updates, pictures, clips and restarts. `StickerInv`:
  whatever has been read from the file, by the service's cache or its job, has no sid that the
  file could give again or that is being saved (`SidsInv`), because the top is saved
  before the stickers; a job that read the file as it is now has what the file has (`TimesInv`).
  `VoiceInv`: clips of the game's data have keys of their own and the file has what the bot
  has (`ClipStoreInv`); downloads that wait or run have keys of their own, these are the keys
  that count as queued, and an update waits for just those of its own that are not over
  (`LoaderInv`), from which its report adds up.

`GalleryProofs`, for any galleries, names, uploads, looks and commands. All of it rests on
`Typed` (types, with the shape of a handler's record at each await) and on the
lemma `GallsMove`: a step takes pictures away, adds one at the end of one gallery, swaps
one for its replacement, or is a crash that returns to the disk. Each invariant then
needs one case per kind of change instead of one per action:

* `NamesAlwaysSound` (`NamesInv`): names and aliases of the galleries in memory *and on the
  disk* are apart, since a crash brings the latter back; an upload past the block
  holds its name, and no two hold the same.
* `TypesAreRight` (`Bounds`): `pid_top` covers all pids in use, on record and on the disk,
  in each state between the two parts of a save.
* `PidsAlwaysUnique`, `UndoAlwaysRemovesOwn`, if one handler is in flight at a time
  (`MaxInFlight = 1`): `PidsInv` says that the pid a handler took before its awaits is
  still nobody's (`Fresh`), for which no two handlers may be under way (`OneJob`);
  `OwnInv` says that the pids in an upload's history are of its own pictures, in memory, on
  the disk and after the deletion of some. With two handlers `gallery_undo` refutes both.
* `FilesNeverShared`, if `reload` is not used, which `gallery_reload` shows to be
  necessary: files have numbers below the next one, and the disk has what memory has
  whenever no handler has still to save.
* `FilesAlwaysExist`, if no file is copied in vain or touched by hand, `reload` is
  not used and the process does not crash (section 5 has what happens otherwise), for any
  number of handlers: a replacement whose picture was deleted, or whose gallery
  was closed meanwhile, finds that out, because its file number is met nowhere but at
  the picture it began with (`FoundInv`).
* `CheckAlwaysHolds` (`TurnInv`), if no alias is given, nothing replaced and nothing reloaded,
  each of which adds pictures without the block that uploads of one name take: what
  the duplicate check found is still so when the picture is added, because the
  block outlives every await in between and a gallery that was closed is not
  the current one any more.

`MCGallery` draws from these four of the five properties of the run `gallery`:
`SerialPidsUnique` and `SerialUndoesOwn`, which suppose the `MaxInFlight = 1` of the run, and
`ScenePicturesSound` and `SceneCheckHolds`, which suppose nothing, since what their scenes
admit is part of the module. The fifth, `NamesAreSound`, is `NamesAlwaysSound` for the instance
*titles*.

The theorems of `MCGallery` and `MCStores`, `ChangesAlwaysSeen`, `EventsAlwaysSound` and
`RequestsAlwaysCharged` are about `SceneSpec`, which is what the runs check: a step of a scene is a
step of its instance, and the others stand still. Each other theorem is about the component's own
`Spec`, for every value of its constants; the runs check the same definitions on the instances
that share a module with others.

*Recursion and data.* The library's induction rules take operators as parameters, which the
provers here cannot instantiate. Where a proof needs induction it is stated with sets: a
nonempty set of naturals has a least element, so a set of counterexamples is
empty, and a recursive function over naturals satisfies its equation. What `SelectSeq`
returns on a gallery is treated in that way (`PartOf`). Out of reach remain
liveness, `ENABLED`, and what is defined by `RECURSIVE` operators, folds or
`SortSeq` (a `CHOOSE` among permutations): `Layout`, `PictureHash`, `TextLines`, `CqCodes` and
`FoldMessages` compute so over data of any length, and with them the properties
`PartsArriveInOrder` and `WorkIsSound`. The five violations are, of course, not theorems.

## 5. Where code and documentation disagree

Shown by a run that expects a violation:

* `registry_zombie`: a connection lost in the loop turn in which the login answer
  arrives. `finally` unregisters and closes the bot; `ensure_login` then resumes and
  registers it. No cleanup follows, `get_bot` returns a dead bot, and no disconnect
  hook fires.
* `gallery_undo`: `async_add_pic` gives the picture `pid_top + 1` as read before its
  awaits and returns `pid_top` as it is after them. Two uploads to different galleries
  get one pid, and an undo deletes another user's picture.
* `gallery_reload`: the `continue` that should skip known files belongs to the inner
  loop; each reload adds every picture again, and deleting one of the two records
  removes the file of both.
* `log_once`: the rows of a flush in progress are visible to a load on the same
  connection, while their records do not have their `db_id` yet; the merge keeps both.
* `fold_shortened`: when a fold is cut inside the text of a message, the parts that
  follow the text in that message are dropped (`src/utils/handler.py:634`), under a
  notice that says the message was divided.

Seen while modelling, and left in the models as the code has them. The properties of the
runs are stated so that they hold with them:

* Messages. When the handler of the longest prefix refuses, a shorter one gets the message
  (`handler.py:1580`), against the comment at `handler.py:1569`. The check that the bot's own
  forwards are not read never applies to a replied message, since `event` is `None` there
  (`handler.py:287`). A late answer puts an older group name back (`log_event.py:67`). A forward
  whose answer times out is sent again in a simpler way though the client may have carried it
  out (`handler.py:741`, `bot.py:54`), so that a group may read the same contents twice.
* Settings. The file time is cut to seconds, so a second edit within the second of a load
  is not seen (`config.py:77`); `ChangesAreSeen` is checked with edits a second apart.
* Gallery. `replace ... force` is always refused (`args.remove` on a string,
  `src/gallery/__init__.py:1070`), an alias defeats the block on a name, and a stop between
  removing a file and saving leaves a picture without one: `PicturesAreSound` is checked
  without crashes and failed copies.
* Stores. Two uploads of one sticker that overlap are both added (`sticker.py:235`), whose
  check saves from a pool thread without a lock (`sticker.py:153`). A clip of the game's data
  is not found until the JSON changes again, since its download changes nothing in it
  (`serve.py:578`). Two captions of one picture list it twice, and the earlier entry takes
  the caption with it (`chat/__init__.py:110`); a stop between the two saves leaves a
  caption for ever. A file that cannot be read loads as empty, and the next set
  overwrites it (`store.py:49`). A sticker that cannot be sent, if only because the call timed
  out, is taken for one without a file (`serve.py:1446-1448`) and not searched again before the
  JSON changes, because the cache is only loaded when the file's time does (`serve.py:485`).
* Chat. An answer that cannot be sent, or a group that leaves the list meanwhile, loses the
  session (`chat/__init__.py:536`); a restored session keeps the question that failed. A
  model whose name contains the word of a mode cannot be chosen, because the word is
  removed from the name (`:580-599`, `WordsAreLost`); when the model for pictures is chosen
  but not saved, the user hears only of the failure (`:601-611`); one chosen mode freezes
  the others at the presets of that moment.
* Models. A try whose processing fails is recorded as a success and as a failure
  (`llm/__init__.py:260`); the synchronised quota overwrites what was charged while it was
  awaited (`api_provider.py:121`); embeddings are not limited per second. A success can make
  a model bad, since failures before it are counted with it (`model_api_status.py:160`).
* Autochat. The "latest" long message that is embedded is the oldest one of the history
  (`serve.py:1195`). The comment at `serve.py:1169` says that the history is sorted before it is cut
  because the newest message would be lost otherwise; messages of one second keep the
  order of the database, with the one that is answered last if it was appended, so it
  can be cut all the same.
* Data. The version of a table is saved before the data (`pjsk/asset.py:236`), so a stop in
  between leaves old data under a new version. When that save or the dump after it fails, the new
  data is in memory with the indexes of the old, and stays so until there is a newer
  version (`:236-242`). A cut asset file is served to callers that
  want bytes or a path (`pjsk/asset.py:558`).
* Record. Two callers may open a connection each, and a failed batch on the one that was
  replaced locks the file until the bot stops (`record/sql.py:22`).
* Drawing. A cell may be a pixel smaller than its item, when the product of a float and a ratio
  is just below a whole number (`plot.py:494-501`): `ItemsInCells` allows that pixel where ratios are
  given. Attributes of an object are fed to the hash without their number, so an object that
  holds another has the digest of one with attributes moved between them (`painter.py:230-235`);
  `FedAlike` is about values with at most one object or iterable in them. A box narrower than
  a character, with more than one line, loops for ever (`plot.py:1320`); `LoopsEnd` is
  about all others. A cut cache file makes later
  gets fail (`painter.py:982`). Operations marked `exclude_on_hash` are hashed all the
  same (`painter.py:1119`); no caller of the repository passes a cache key.
* Temporary files. The list of files to remove is lost at a restart, which leaves them to
  the daily cleaning (`utils.py:455`); a failed download leaves its file (`utils.py:486`).

## 6. Plan

1. Proofs for `RecordStore` (`EachIsSomewhereOnce`, `RowsInOrder`), `MasterData` (`IndexIsOfData`)
   and `TempFiles`, which together are `DataIsCurrent`.
2. Proofs for `ChatSessions` (`OneHolder`, the rest of `ThreadsAreKept`) and `AutochatReply`.
3. The parts of modelled components that section 7 names, quotas first, and the two hazards
   without a property: a picture's file removed before the gallery is saved, and the quota that is
   synchronised over charges made meanwhile. Section 5 lists both.

## 7. Left out

Not modelled, as they have no state to check, each being a function of its input or one
HTTP call: status cards, image tools, LLM drawing, help pages, the code runner, API
wrappers, parsing of payloads into events, constructors of message segments, logger and loader, keep-alive (two
hooks, whose balance `HooksMatchRegistry` checks).

Left out of modelled components:
* sessions: the parsing of paths and tokens of the handshake, and the shutdown signal;
* dispatch: registration of handlers, parsing of arguments. The function a list calls when
  a group is switched is used by no plugin;
* chat and autochat: the texts of prompts, similarity of vectors (a choice here),
  translation, speech synthesis;
* models: the synchronisation of quotas with the provider, the formats of providers;
* `LlmCallLog` starts with an open connection, and its rollbacks succeed (the code ignores
  one that raises); several models, which share only the batch; cleaning of old rows;
* gallery: modes, covers, thumbnails, lists, the report of duplicates;
* drawing: the operations themselves, images in boxes, colours, markdown;
* assets: mapping of URLs, the functions over the tables, hooks (none is registered).

What a thread or process does inside one step of a model is atomic there; that the two
saves of one FileDB from the loop and a pool thread could overlap is not modelled.
