------------------------------- MODULE Stickers -------------------------------
(***************************************************************************)
(* The sticker store of the bot (src/src/chat/sticker.py) and the index    *)
(* the autochat service keeps of it (services/autochat/serve.py): two      *)
(* processes that share the store's JSON file and its picture files.       *)
(*                                                                         *)
(* The bot gives numbers (sids) to pictures.  The service reads file and   *)
(* file time whenever a reply wants a sticker, asks for the vectors of     *)
(* stickers it has none for in a job of its own, and searches a cache of   *)
(* those it has.  A sticker has one caption.                               *)
(***************************************************************************)
EXTENDS Naturals, FiniteSets, Functions

CONSTANTS
    Uploads,        \* upload commands that may run at once
    NoPic,
    Pics,           \* pictures people send; copies of one are duplicates
    Forces,         \* whether uploads may be forced
    MaxTop,         \* bound: sids given
    MaxRestarts     \* bound: ends of either process

StickersAssumption ==
    /\ Forces \subseteq BOOLEAN
    /\ {MaxTop, MaxRestarts} \subseteq Nat

Sids == 1 .. MaxTop
NoSid == 0

VARIABLES
    top, recs,      \* StickerManager: sid_top and the stickers
    busy,           \* what the bot is in the middle of: [step, sid]
    pc, pic, seen,  \* per upload: its await, its picture, the stickers scanned
    told,           \* the sids users were told, and for which picture
    db, dbTime,     \* sticker_db.json and its file time
    files,          \* the picture files: sid to picture
    cache, cacheTime,   \* _sticker_cache, _sticker_cache_mtime
    vecs,           \* stk_emb_db.json: whether it is usable, the sids with vectors
    search,         \* the search of a reply
    job,            \* _sticker_job
    unsent,         \* the stickers dropped since the cache was loaded, their file being there
    restarts

bot     == <<top, recs, busy, pc, pic, seen, told>>
disk    == <<db, dbTime, files>>
service == <<cache, cacheTime, vecs, search, job, unsent>>
vars    == <<bot, disk, service, restarts>>

Nothing == [s \in {} |-> 0]
Without(f, s) == Restrict(f, DOMAIN f \ {s})
With(f, s, p) == [x \in DOMAIN f \cup {s} |-> IF x = s THEN p ELSE f[x]]

\* _emb_db_usable: there is no file, it cannot be read, or it has the vectors of
\* another model.
Unusable == [usable |-> FALSE, sids |-> {}]

NotBusy  == [step |-> "none", sid |-> NoSid]
NoSearch == [pc |-> "idle", time |-> 0]
NoJob    == [pc |-> "idle", time |-> 0, texts |-> Nothing, todo |-> {}, have |-> {}]

Init ==
    /\ top = 0 /\ recs = Nothing /\ busy = NotBusy
    /\ pc = [u \in Uploads |-> "idle"]
    /\ pic = [u \in Uploads |-> NoPic]
    /\ seen = [u \in Uploads |-> {}]
    /\ told = Nothing
    /\ db = [top |-> 0, recs |-> Nothing] /\ dbTime = 1
    /\ files = Nothing
    /\ cache = Nothing /\ cacheTime = 0
    /\ vecs = Unusable
    /\ search = NoSearch /\ job = NoJob /\ unsent = {}
    /\ restarts = 0

-----------------------------------------------------------------------------
(* The bot.                                                                *)

\* A user sends a picture; forced uploads are not compared with the others.
Upload(u) ==
    /\ pc[u] = "idle" /\ busy = NotBusy
    /\ \E p \in Pics, forced \in Forces :
        /\ pic' = [pic EXCEPT ![u] = p]
        /\ pc' = [pc EXCEPT ![u] = IF forced THEN "caption" ELSE "scan"]
        /\ seen' = [seen EXCEPT ![u] = IF forced THEN {} ELSE DOMAIN recs]
    /\ UNCHANGED <<top, recs, busy, told, disk, service, restarts>>

\* The upload command is over.
Ends(u) == pc' = [pc EXCEPT ![u] = "idle"] /\ pic' = [pic EXCEPT ![u] = NoPic]

\* check_duplicate has run in a pool thread: it raises when stickers came or
\* went meanwhile, or finds the same picture, and the upload ends; one that
\* replaced another meanwhile may be seen or not.
Scanned(u) ==
    /\ pc[u] = "scan" /\ busy = NotBusy
    /\ LET now == DOMAIN recs
           same == \E s \in now \cap seen[u] : recs[s] = pic[u]
       IN \/ /\ now # seen[u] \/ same
             /\ Ends(u)
          \/ /\ Cardinality(now) = Cardinality(seen[u]) /\ ~same
             /\ pc' = [pc EXCEPT ![u] = "caption"]
             /\ UNCHANGED pic
    /\ seen' = [seen EXCEPT ![u] = {}]
    /\ UNCHANGED <<top, recs, busy, told, disk, service, restarts>>

CaptionFails(u) ==
    /\ pc[u] = "caption" /\ busy = NotBusy
    /\ Ends(u)
    /\ UNCHANGED <<top, recs, busy, seen, told, disk, service, restarts>>

\* The caption has come: the sid is taken and the picture copied.  When the
\* copy fails, or the hash of the copied picture, the sid is gone.
AddCopies(u) ==
    /\ pc[u] = "caption" /\ busy = NotBusy /\ top < MaxTop
    /\ top' = top + 1
    /\ \/ /\ files' = With(files, top + 1, pic[u])
          /\ recs' = With(recs, top + 1, pic[u])
          /\ busy' = [step |-> "top", sid |-> top + 1]
          /\ pc' = [pc EXCEPT ![u] = "save"]
          /\ UNCHANGED pic
       \/ /\ files' \in {files, With(files, top + 1, pic[u])}
          /\ Ends(u)
          /\ UNCHANGED <<recs, busy>>
    /\ UNCHANGED <<seen, told, db, dbTime, service, restarts>>

\* delete: the file goes first, or cannot be removed, then the sticker.
Delete(s) ==
    /\ busy = NotBusy /\ s \in DOMAIN recs
    /\ files' \in {files, Without(files, s)}
    /\ recs' = Without(recs, s)
    /\ busy' = [step |-> "top", sid |-> NoSid]
    /\ UNCHANGED <<top, pc, pic, seen, told, db, dbTime, service, restarts>>

\* _save writes the file twice, for sid_top and for the stickers.
SaveTop ==
    /\ busy.step = "top"
    /\ db' = [db EXCEPT !.top = top]
    /\ dbTime' = dbTime + 1
    /\ busy' = [busy EXCEPT !.step = "recs"]
    /\ UNCHANGED <<top, recs, pc, pic, seen, told, files, service, restarts>>

\* The upload that saved tells its user the sid.
SaveRecs ==
    /\ busy.step = "recs"
    /\ db' = [db EXCEPT !.recs = recs]
    /\ dbTime' = dbTime + 1
    /\ busy' = NotBusy
    /\ told' = IF busy.sid \in DOMAIN recs THEN With(told, busy.sid, recs[busy.sid]) ELSE told
    /\ pc' = [u \in Uploads |-> IF pc[u] = "save" THEN "idle" ELSE pc[u]]
    /\ pic' = [u \in Uploads |-> IF pc[u] = "save" THEN NoPic ELSE pic[u]]
    /\ UNCHANGED <<top, recs, seen, files, service, restarts>>

\* Faulty variant: the top is saved after the stickers.
SaveRecsFirst ==
    \/ /\ busy.step = "top"
       /\ db' = [db EXCEPT !.recs = recs]
       /\ dbTime' = dbTime + 1
       /\ busy' = [busy EXCEPT !.step = "recs"]
       /\ told' = IF busy.sid \in DOMAIN recs THEN With(told, busy.sid, recs[busy.sid]) ELSE told
       /\ UNCHANGED <<top, recs, pc, pic, seen, files, service, restarts>>
    \/ /\ busy.step = "recs"
       /\ db' = [db EXCEPT !.top = top]
       /\ dbTime' = dbTime + 1
       /\ busy' = NotBusy
       /\ pc' = [u \in Uploads |-> IF pc[u] = "save" THEN "idle" ELSE pc[u]]
       /\ pic' = [u \in Uploads |-> IF pc[u] = "save" THEN NoPic ELSE pic[u]]
       /\ UNCHANGED <<top, recs, seen, told, files, service, restarts>>

\* _save.
Save == SaveTop \/ SaveRecs

\* The bot ends between any two steps; the next one loads the file.
BotRestarts ==
    /\ restarts < MaxRestarts
    /\ restarts' = restarts + 1
    /\ top' = db.top /\ recs' = db.recs /\ busy' = NotBusy
    /\ pc' = [u \in Uploads |-> "idle"]
    /\ pic' = [u \in Uploads |-> NoPic]
    /\ seen' = [u \in Uploads |-> {}]
    /\ UNCHANGED <<told, disk, service>>

-----------------------------------------------------------------------------
(* The service.                                                            *)

\* _apply_sticker_cache: stickers with vectors and with a file are cached.
Apply(texts, have, time) ==
    /\ cache' = Restrict(texts, DOMAIN texts \cap have \cap DOMAIN files)
    /\ cacheTime' = time /\ unsent' = {}

JobStarts == job' = [NoJob EXCEPT !.pc = "time"]

\* prepare_sticker_search: no search while a job runs; without vectors a job
\* builds them; the cache is good when the file has its time.
Prepare ==
    /\ search.pc = "idle" /\ job.pc = "idle"
    /\ IF ~vecs.usable THEN JobStarts /\ UNCHANGED search
       ELSE /\ search' = IF cache # Nothing /\ cacheTime = dbTime
                         THEN [pc |-> "search", time |-> 0]
                         ELSE [pc |-> "load", time |-> dbTime]
            /\ UNCHANGED job
    /\ UNCHANGED <<bot, disk, cache, cacheTime, vecs, unsent, restarts>>

\* The rest of _load_memory_from_disk: the file itself is read after its time.
Load ==
    /\ search.pc = "load"
    /\ Apply(db.recs, vecs.sids, search.time)
    /\ search' = [pc |-> "search", time |-> 0]
    /\ UNCHANGED <<bot, disk, vecs, job, restarts>>

\* Faulty variant: a job is started for vectors that are left over only.
SearchedForLeftovers ==
    /\ search.pc = "search" /\ job.pc # "file"
    /\ cache' = Restrict(cache, DOMAIN cache \cap DOMAIN files)
    /\ search' = NoSearch
    /\ IF job.pc = "idle" /\ vecs.usable /\ ~(vecs.sids \subseteq DOMAIN db.recs)
       THEN JobStarts ELSE UNCHANGED job
    /\ UNCHANGED <<bot, disk, cacheTime, vecs, unsent, restarts>>

\* search_sticker drops the stickers without a file and asks for the vectors
\* of the query; then schedule_sticker_fill starts a job when vectors are missing
\* or left over.
Searched ==
    /\ search.pc = "search" /\ job.pc # "file"
    /\ cache' = Restrict(cache, DOMAIN cache \cap DOMAIN files)
    /\ search' = NoSearch
    /\ IF job.pc = "idle" /\ vecs.usable /\ vecs.sids # DOMAIN db.recs
       THEN JobStarts ELSE UNCHANGED job
    /\ UNCHANGED <<bot, disk, cacheTime, vecs, unsent, restarts>>

\* process_sticker drops the sticker a reply has found from the cache, because its
\* file went or the sending raises, for whatever reason.  Actions of the reply come
\* between, replies of other groups too, and the cache may be loaded again: it may be
\* any sticker of it.  One that is sent changes nothing.
SendFails(s) ==
    /\ s \in DOMAIN cache /\ search.pc # "load" /\ job.pc # "file"
    /\ cache' = Without(cache, s)
    /\ unsent' = unsent \cup ({s} \cap DOMAIN files)
    /\ UNCHANGED <<bot, disk, cacheTime, vecs, search, job, restarts>>

\* _collect_sid_texts of the job: the time, and then the file.
JobReadsTime ==
    /\ job.pc = "time"
    /\ job' = [job EXCEPT !.pc = "file", !.time = dbTime]
    /\ UNCHANGED <<bot, disk, cache, cacheTime, vecs, search, unsent, restarts>>

JobReadsFile ==
    /\ job.pc = "file"
    /\ \/ /\ db.recs = Nothing
          /\ Apply(Nothing, {}, job.time)
          /\ job' = NoJob
       \/ /\ db.recs # Nothing /\ vecs.usable /\ vecs.sids = DOMAIN db.recs
          /\ job' = NoJob
          /\ UNCHANGED <<cache, cacheTime, unsent>>
       \/ /\ db.recs # Nothing /\ ~(vecs.usable /\ vecs.sids = DOMAIN db.recs)
          /\ job' = [job EXCEPT !.pc = "fill", !.texts = db.recs, !.have = vecs.sids,
                                !.todo = DOMAIN db.recs \ vecs.sids]
          /\ UNCHANGED <<cache, cacheTime, unsent>>
    /\ UNCHANGED <<bot, disk, vecs, search, restarts>>

\* A batch of vectors comes, or fails and is skipped.
FillBatch(batch, got) ==
    /\ job.pc = "fill" /\ batch # {} /\ batch \subseteq job.todo
    /\ job' = [job EXCEPT !.todo = @ \ batch, !.have = IF got THEN @ \cup batch ELSE @]
    /\ UNCHANGED <<bot, disk, cache, cacheTime, vecs, search, unsent, restarts>>

\* Faulty variant: the cache is given the time the file has by now.
CommitAsOfNow ==
    /\ job.pc = "fill" /\ job.todo = {}
    /\ vecs' = [usable |-> TRUE, sids |-> job.have \cap DOMAIN job.texts]
    /\ Apply(job.texts, vecs'.sids, dbTime)
    /\ job' = NoJob
    /\ UNCHANGED <<bot, disk, search, restarts>>

\* _commit_sticker_cache: vectors no sticker of the file needs are dropped.
Commit ==
    /\ job.pc = "fill" /\ job.todo = {}
    /\ vecs' = [usable |-> TRUE, sids |-> job.have \cap DOMAIN job.texts]
    /\ Apply(job.texts, vecs'.sids, job.time)
    /\ job' = NoJob
    /\ UNCHANGED <<bot, disk, search, restarts>>

\* The service is started again, perhaps with another model for the vectors.
ServiceRestarts(model) ==
    /\ restarts < MaxRestarts
    /\ restarts' = restarts + 1
    /\ cache' = Nothing /\ cacheTime' = 0
    /\ search' = NoSearch /\ job' = NoJob /\ unsent' = {}
    /\ vecs' = IF model = "same" THEN vecs ELSE Unusable
    /\ UNCHANGED <<bot, disk>>

-----------------------------------------------------------------------------

Next ==
    \/ \E u \in Uploads : Upload(u) \/ Scanned(u) \/ CaptionFails(u) \/ AddCopies(u)
    \/ \E s \in Sids : Delete(s) \/ SendFails(s)
    \/ Save \/ BotRestarts
    \/ Prepare \/ Load \/ Searched
    \/ JobReadsTime \/ JobReadsFile \/ Commit
    \/ \E model \in {"same", "another"} : ServiceRestarts(model)
    \/ \E batch \in SUBSET Sids, got \in BOOLEAN : FillBatch(batch, got)

\* Replies that want stickers keep coming, and the vectors of a sticker that is
\* asked for again and again come at last.
Fairness ==
    /\ WF_vars(Save)
    /\ WF_vars(Prepare) /\ WF_vars(Load) /\ WF_vars(Searched)
    /\ WF_vars(JobReadsTime) /\ WF_vars(JobReadsFile) /\ WF_vars(Commit)
    /\ WF_vars(\E batch \in SUBSET Sids, got \in BOOLEAN : FillBatch(batch, got))
    /\ \A s \in Sids : SF_vars(\E batch \in SUBSET Sids : s \in batch /\ FillBatch(batch, TRUE))

Spec == Init /\ [][Next]_vars
FairSpec == Spec /\ Fairness

-----------------------------------------------------------------------------

Numbered(f) == DOMAIN f \subseteq Sids /\ \A s \in DOMAIN f : f[s] \in Pics

\* Everything that is kept by sid is; a job and a search hold times that were.
TypeOK ==
    /\ top \in 0 .. MaxTop /\ db.top \in 0 .. top
    /\ Numbered(recs) /\ Numbered(told) /\ Numbered(db.recs)
    /\ Numbered(files) /\ Numbered(cache) /\ Numbered(job.texts)
    /\ \A s \in DOMAIN recs : s <= top
    /\ busy.step \in {"none", "top", "recs"} /\ busy.sid \in 0 .. top
    /\ pc \in [Uploads -> {"idle", "scan", "caption", "save"}]
    /\ pic \in [Uploads -> Pics \cup {NoPic}] /\ seen \in [Uploads -> SUBSET Sids]
    /\ {cacheTime, search.time, job.time} \subseteq 0 .. dbTime
    /\ unsent \subseteq Sids
    /\ vecs.sids \in SUBSET Sids /\ job.todo \cup job.have \subseteq Sids
    /\ search.pc \in {"idle", "load", "search"}
    /\ job.pc \in {"idle", "time", "file", "fill"}

\* A sid that was told to a user names his picture or nothing, for ever: in
\* memory, in the files, and in what the service sends for a caption
\* (StickerManager.add), whatever was deleted or restarted since.
SidMeansItsPicture ==
    \A f \in {recs, db.recs, files, cache, job.texts} :
        \A s \in DOMAIN f \cap DOMAIN told : f[s] = told[s]

\* While the cache counts as current, it holds no sticker the store's file no
\* longer has ("已删除的表情包不会残留", serve.py:481).
CacheIsCurrent ==
    cacheTime = dbTime => \A s \in DOMAIN cache : s \in DOMAIN db.recs /\ cache[s] = db.recs[s]

\* A sticker that stays in the store and keeps its file can be found by the replies at
\* last, after failed batches, deletions and restarts, unless it was dropped because a
\* sending of it failed, and the store's file stands since the cache was loaded: then
\* prepare_sticker_search takes the cache for current and the sticker stays out.
Kept(s) == s \in DOMAIN db.recs /\ s \in DOMAIN files
StickersAreFound ==
    \A s \in Sids :
        <>[]Kept(s) => <>[](s \in DOMAIN cache \/ (s \in unsent /\ cacheTime = dbTime))

=============================================================================
