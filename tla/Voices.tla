------------------------------- MODULE Voices -------------------------------
(***************************************************************************)
(* The voice clips of the bot (src/src/chat/voice.py) and what the         *)
(* autochat service knows of them (services/autochat/serve.py).  Clips are *)
(* uploaded, taken from an inbox directory, or listed from the game's data *)
(* and then downloaded one after the other by a worker, which reports to   *)
(* every /voice update when its downloads are over.  The service caches    *)
(* the clips that have files under the time of the clips' JSON file.       *)
(***************************************************************************)
EXTENDS Naturals, Sequences, SequencesExt, Functions, FiniteSets

CONSTANTS
    Users,          \* upload commands that may run at once
    Updates,        \* update commands, each given once
    Tags,           \* texts of clips
    Inbox,          \* tags of the files put into the inbox
    Keys,           \* the clips the game's data lists
    NoKey,
    KeyTag,         \* their texts
    MaxTop,         \* bound: numbers given to clips
    MaxWrites,      \* bound: writes after which no clip is changed
    MaxRestarts     \* bound: ends of the bot

VoicesAssumption ==
    /\ Inbox \subseteq Tags
    /\ KeyTag \in [Keys -> Tags] /\ IsInjective(KeyTag)
    /\ NoKey \notin Keys
    /\ IsFiniteSet(Inbox) /\ IsFiniteSet(Keys)
    /\ {MaxTop, MaxWrites, MaxRestarts} \subseteq Nat

VARIABLES
    top, voices,    \* VoiceManager: vid_top, and the clips: [tag, key]
    uploads,        \* the tag each upload awaits its audio for, or {}
    updates,        \* per update: [pc, pending, ok, fail, jobs]
    inbox,          \* tags of the files in the inbox
    queue, queued,  \* _pjsk_queue: [vid, key, batch]; _pjsk_queued
    work,           \* what the worker holds, or nothing
    db, dbTime,     \* voice_db.json and its time
    files,          \* clips whose audio file is there
    clips, clipsTime, reading,  \* the service: _voice_clips, _voice_db_mtime
    restarts

store   == <<top, voices, db, dbTime>>
loader  == <<updates, queue, queued, work>>
service == <<clips, clipsTime, reading>>
vars    == <<store, uploads, loader, inbox, files, service, restarts>>

Vids == 1 .. MaxTop
NoClips == [v \in {} |-> 0]
NewUpdate == [pc |-> "new", pending |-> {}, ok |-> 0, fail |-> 0, jobs |-> 0]

Init ==
    /\ top = 0 /\ voices = NoClips /\ db = [top |-> 0, voices |-> NoClips] /\ dbTime = 1
    /\ uploads = [u \in Users |-> {}]
    /\ updates = [b \in Updates |-> NewUpdate]
    /\ inbox = Inbox
    /\ queue = <<>> /\ queued = {} /\ work = <<>>
    /\ files = {}
    /\ clips = NoClips /\ clipsTime = 0 /\ reading = 0
    /\ restarts = 0

-----------------------------------------------------------------------------
(* The store.                                                              *)

HasTag(f, t) == \E v \in DOMAIN f : f[v].tag = t
HasKey(f, k) == \E v \in DOMAIN f : f[v].key = k

\* VoiceManager.add for each of a sequence of clips, and _save.
Add(new) ==
    /\ top + Len(new) <= MaxTop
    /\ top' = top + Len(new)
    /\ voices' = [v \in DOMAIN voices \cup top + 1 .. top' |->
                    IF v > top THEN new[v - top] ELSE voices[v]]

Saves ==
    /\ db' = [top |-> top', voices |-> voices']
    /\ dbTime' = IF voices' = voices THEN dbTime ELSE dbTime + 1

UploadBegins(u) ==
    /\ uploads[u] = {}
    /\ \E t \in Tags, force \in BOOLEAN :
        /\ ~force => ~HasTag(voices, t)
        /\ uploads' = [uploads EXCEPT ![u] = {t}]
    /\ UNCHANGED <<store, loader, inbox, files, service, restarts>>

\* The audio has come, or nothing could be fetched.
UploadEnds(u) ==
    /\ \E t \in uploads[u] :
        \/ /\ Add(<<[tag |-> t, key |-> NoKey]>>)
           /\ Saves
           /\ files' = files \cup {top'}
        \/ UNCHANGED <<store, files>>
    /\ uploads' = [uploads EXCEPT ![u] = {}]
    /\ UNCHANGED <<loader, inbox, service, restarts>>

SetTag(v, t) ==
    /\ v \in DOMAIN voices /\ voices[v].tag # t /\ dbTime < MaxWrites
    /\ voices' = [voices EXCEPT ![v].tag = t]
    /\ top' = top /\ Saves
    /\ UNCHANGED <<uploads, loader, inbox, files, service, restarts>>

Delete(v) ==
    /\ v \in DOMAIN voices /\ dbTime < MaxWrites
    /\ files' \in {files, files \ {v}}
    /\ voices' = Restrict(voices, DOMAIN voices \ {v})
    /\ top' = top /\ Saves
    /\ UNCHANGED <<uploads, loader, inbox, service, restarts>>

-----------------------------------------------------------------------------
(* /voice update and the downloads.                                        *)

\* _scan_inbox: files whose text is new become clips and leave the inbox.
ScanInbox(b) ==
    /\ updates[b].pc = "new"
    /\ updates' = [updates EXCEPT ![b].pc = "collect"]
    /\ LET new == SetToSeq({t \in inbox : ~HasTag(voices, t)})
       IN /\ Add([i \in DOMAIN new |-> [tag |-> new[i], key |-> NoKey]])
          /\ Saves
          /\ files' = files \cup (top + 1 .. top')
          /\ inbox' = inbox \ ToSet(new)
    /\ UNCHANGED <<uploads, queue, queued, work, service, restarts>>

\* Faulty variant: clips are recognised by their text only.
UnknownText == SetToSeq({k \in Keys : ~HasTag(voices, KeyTag[k])})

\* The clips of the game's data the store does not have by key or by text.
Unknown == SetToSeq({k \in Keys : ~HasKey(voices, k) /\ ~HasTag(voices, KeyTag[k])})

\* Faulty variant: an update waits for every key it wants.
WantedFor(jobs) == {j.key : j \in jobs}

\* The keys an update waits for: those it put into the queue itself.
QueuedFor(jobs) == {j.key : j \in {i \in jobs : i.key \notin queued}}

\* The game's data has come: _scan_pjsk adds the clips and _enqueue_pjsk_download
\* queues those without a file, unless they are queued.
Collected(b) ==
    /\ updates[b].pc = "collect"
    /\ Add([i \in DOMAIN Unknown |-> [tag |-> KeyTag[Unknown[i]], key |-> Unknown[i]]])
    /\ Saves
    /\ LET missing == {v \in DOMAIN voices' : voices'[v].key # NoKey /\ v \notin files}
           jobs == {[vid |-> v, key |-> voices'[v].key, batch |-> b] : v \in missing}
           mine == QueuedFor(jobs)
       IN /\ queue' = queue \o SetToSeq({j \in jobs : j.key \notin queued})
          /\ queued' = queued \cup {j.key : j \in jobs}
          /\ updates' = [updates EXCEPT ![b] =
                [NewUpdate EXCEPT !.pc = IF mine = {} THEN "over" ELSE "wait",
                                  !.pending = mine, !.jobs = Cardinality(mine)]]
    /\ UNCHANGED <<uploads, work, inbox, files, service, restarts>>

CollectFails(b) ==
    /\ updates[b].pc = "collect"
    /\ updates' = [updates EXCEPT ![b].pc = "over"]
    /\ UNCHANGED <<store, uploads, queue, queued, work, inbox, files, service, restarts>>

\* One download is over, well or not; when it was the last of its update, the
\* update's user is told.
Counts(b, key, ok) ==
    LET report == updates[b]
    IN  updates' = [updates EXCEPT ![b] =
            [report EXCEPT !.pending = @ \ {key},
                           !.ok = @ + (IF ok THEN 1 ELSE 0), !.fail = @ + (IF ok THEN 0 ELSE 1),
                           !.pc = IF report.pending \ {key} = {} THEN "told" ELSE @]]

\* Nothing to do for a clip that was deleted or has its file by now.
Take ==
    /\ work = <<>> /\ queue # <<>>
    /\ LET j == Head(queue) IN
        IF j.vid \in DOMAIN voices \ files
        THEN work' = <<j>> /\ UNCHANGED <<updates, queued>>
        ELSE work' = <<>> /\ queued' = queued \ {j.key} /\ Counts(j.batch, j.key, TRUE)
    /\ queue' = Tail(queue)
    /\ UNCHANGED <<store, uploads, inbox, files, service, restarts>>

\* Faulty variant: the key of a failed download stays marked as queued.
DownloadedOrStuck(ok) ==
    /\ work # <<>>
    /\ files' = IF ok THEN files \cup {work[1].vid} ELSE files
    /\ queued' = IF ok THEN queued \ {work[1].key} ELSE queued
    /\ Counts(work[1].batch, work[1].key, ok)
    /\ work' = <<>>
    /\ UNCHANGED <<store, uploads, queue, inbox, service, restarts>>

\* The audio is written also when the clip was deleted meanwhile.
Downloaded(ok) ==
    /\ work # <<>>
    /\ files' = IF ok THEN files \cup {work[1].vid} ELSE files
    /\ queued' = queued \ {work[1].key}
    /\ Counts(work[1].batch, work[1].key, ok)
    /\ work' = <<>>
    /\ UNCHANGED <<store, uploads, queue, inbox, service, restarts>>

\* The bot ends, and with it the queue and the updates under way.
Restart ==
    /\ restarts < MaxRestarts
    /\ restarts' = restarts + 1
    /\ top' = db.top /\ voices' = db.voices
    /\ uploads' = [u \in Users |-> {}]
    /\ updates' = [b \in Updates |->
                    IF updates[b].pc \in {"new", "told"} THEN updates[b]
                    ELSE [NewUpdate EXCEPT !.pc = "lost"]]
    /\ queue' = <<>> /\ queued' = {} /\ work' = <<>>
    /\ UNCHANGED <<db, dbTime, inbox, files, service>>

-----------------------------------------------------------------------------
(* The service.                                                            *)

\* _load_voice_clips, asked by every reply that speaks: nothing is read when
\* the JSON file has the time of the last reading.
LoadBegins ==
    /\ reading = 0 /\ clipsTime # dbTime
    /\ reading' = dbTime
    /\ UNCHANGED <<store, uploads, loader, inbox, files, clips, clipsTime, restarts>>

\* Faulty variant: clips known before are kept.
LoadMerged ==
    /\ reading # 0
    /\ clips' = [v \in DOMAIN clips \cup (DOMAIN db.voices \cap files) |->
                    IF v \in DOMAIN db.voices THEN db.voices[v] ELSE clips[v]]
    /\ clipsTime' = reading /\ reading' = 0
    /\ UNCHANGED <<store, uploads, loader, inbox, files, restarts>>

\* Clips without a file are left out.
Load ==
    /\ reading # 0
    /\ clips' = Restrict(db.voices, DOMAIN db.voices \cap files)
    /\ clipsTime' = reading /\ reading' = 0
    /\ UNCHANGED <<store, uploads, loader, inbox, files, restarts>>

-----------------------------------------------------------------------------

Next ==
    \/ \E u \in Users : UploadBegins(u) \/ UploadEnds(u)
    \/ \E v \in Vids : Delete(v) \/ \E t \in Tags : SetTag(v, t)
    \/ \E b \in Updates : ScanInbox(b) \/ Collected(b) \/ CollectFails(b)
    \/ \E ok \in BOOLEAN : Downloaded(ok)
    \/ Take \/ Restart \/ LoadBegins \/ Load

\* The worker goes on, every download comes to an end, and replies that speak
\* keep coming.
Fairness ==
    /\ WF_vars(Take) /\ WF_vars(\E ok \in BOOLEAN : Downloaded(ok))
    /\ WF_vars(LoadBegins) /\ WF_vars(Load)

Spec == Init /\ [][Next]_vars
FairSpec == Spec /\ Fairness

-----------------------------------------------------------------------------

Numbered(f) ==
    /\ DOMAIN f \subseteq Vids
    /\ \A v \in DOMAIN f : f[v].tag \in Tags /\ f[v].key \in Keys \cup {NoKey}

\* Clips are kept by number, and downloads belong to updates.
TypeOK ==
    /\ top \in 0 .. MaxTop /\ \A v \in DOMAIN voices : v <= top
    /\ Numbered(voices) /\ Numbered(db.voices) /\ Numbered(clips)
    /\ files \subseteq 1 .. top /\ inbox \subseteq Inbox
    /\ \A j \in ToSet(queue \o work) : j.vid <= top /\ j.key \in queued /\ j.batch \in Updates
    /\ \A b \in Updates : updates[b].pending \subseteq Keys
    /\ {clipsTime, reading} \subseteq 0 .. dbTime

\* A key counts as queued exactly while a download of it waits or runs, so that
\* a clip whose download failed can be asked for again (_pjsk_queued).
QueuedIsWaiting == queued = {j.key : j \in ToSet(queue \o work)}

\* No two clips are of one entry of the game's data, and none of them is
\* downloaded twice at a time, whatever updates overlap.
OneClipPerKey ==
    /\ \A v, w \in DOMAIN voices : voices[v].key = voices[w].key /\ voices[v].key # NoKey => v = w
    /\ \A i, j \in DOMAIN (queue \o work) : (queue \o work)[i].key = (queue \o work)[j].key => i = j

\* While the service takes its clips for current, none of them was deleted or
\* has had its text changed.
ClipsAreCurrent ==
    clipsTime = dbTime => \A v \in DOMAIN clips : v \in DOMAIN db.voices /\ clips[v] = db.voices[v]

\* A user who started downloads is told once they are all over, and how many
\* came (_notify_pjsk_batch), unless the bot ends first.
ReportAddsUp ==
    \A b \in Updates :
        /\ updates[b].pc = "told" => updates[b].pending = {}
        /\ updates[b].pc \in {"wait", "told"} =>
             updates[b].ok + updates[b].fail + Cardinality(updates[b].pending) = updates[b].jobs
        /\ updates[b].pc = "wait" => updates[b].pending \cap queued # {}

\* Every update is answered in the end, unless the bot ends first.
DownloadsAreReported ==
    []<>(\A b \in Updates : updates[b].pc # "wait")

=============================================================================
