------------------------------- MODULE Gallery -------------------------------
(***************************************************************************)
(* Galleries of pictures: GalleryManager of src/src/gallery/__init__.py,   *)
(* the commands that upload, undo, delete, replace and reload, and the     *)
(* block a command takes on a name (HandlerContext.block).                 *)
(*                                                                         *)
(* Handlers are coroutines of one event loop: an action is what one does   *)
(* between two awaits, which are the calls of run_in_pool and the wait for *)
(* the block.  _save writes pid_top and then the galleries, with the loop  *)
(* held; the process may crash between the two.  Two pictures are the same *)
(* for is_same when they have the same look, and a pass of the duplicate   *)
(* check over a gallery is one step.  Mode, cover and thumbnails are left  *)
(* out.                                                                    *)
(***************************************************************************)
EXTENDS Integers, Sequences, FiniteSets

CONSTANTS
    Galls,         \* names of galleries
    Aliases,       \* names that may be given as aliases, those of galleries too
    Looks,         \* what pictures look like
    Uploads,       \* upload commands, each of a user of its own
    NoUpload,      \* nobody: the uploader of a picture found on the disk
    Images,        \* bound: pictures of an upload
    MaxInFlight,   \* bound: handlers inside an add, a replace or a reload
    MaxCommands,   \* bound: commands and events other than uploads
    Admitted       \* which of those there are

Kinds == {"open", "close", "alias", "delete", "undo", "replace", "reload", "drop",
          "copyfail", "crash"}

ASSUME GalleryAssumption ==
    /\ IsFiniteSet(Uploads) /\ NoUpload \notin Uploads
    /\ {Images, MaxInFlight} \subseteq Nat \ {0}
    /\ MaxCommands \in Nat
    /\ Admitted \subseteq Kinds

Names == Galls \cup Aliases

VARIABLES
    pidTop,     \* GalleryManager.pid_top
    galls,      \* GalleryManager.galleries: open, aliases and pics of a gallery;
                \* gen tells the Gallery objects of one name apart
    files,      \* picture files on the disk: <<directory, number, look>>
    fileTop,    \* the number of the newest file
    disk,       \* gallery.json: the saved pid_top and galleries
    writes,     \* what the _save in progress has still to write
    busy,       \* block_set of the upload command
    up,         \* the upload commands
    rep,        \* the replace command
    rel,        \* the reload command
    record,     \* add_history.json: pids and reverted, for every upload
    undoing,    \* the upload whose pictures the loop is deleting, and those left
    commands    \* commands and events so far

store == <<pidTop, galls, files, fileTop>>
saved == <<disk, writes>>
jobs  == <<up, rep, rel>>
undo  == <<record, undoing>>
vars  == <<store, saved, busy, jobs, undo, commands>>

Closed  == [open |-> FALSE, gen |-> 0, alias |-> {}, pics |-> <<>>]
NewUp   == [pc |-> "idle", name |-> NoUpload, force |-> FALSE, left |-> Images,
            gall |-> NoUpload, gen |-> 0, pid |-> 0, look |-> NoUpload,
            same |-> FALSE, pids |-> <<>>]
NoRep   == [pc |-> "off", gall |-> NoUpload, gen |-> 0, pid |-> 0, file |-> NoUpload,
            look |-> NoUpload, same |-> FALSE]
NoRel   == [pc |-> "off", gall |-> NoUpload, gen |-> 0, todo |-> {}, file |-> NoUpload,
            pid |-> 0]
NoUndo  == [of |-> NoUpload, left |-> <<>>]

\* The program has started and every gallery has been opened.
Init ==
    /\ pidTop   = 0
    /\ galls    = [g \in Galls |-> [Closed EXCEPT !.open = TRUE]]
    /\ files    = {}
    /\ fileTop  = 0
    /\ disk     = [top |-> pidTop, galls |-> galls]
    /\ writes   = <<>>
    /\ busy     = {}
    /\ up       = [u \in Uploads |-> NewUp]
    /\ rep      = NoRep
    /\ rel      = NoRel
    /\ record   = [u \in Uploads |-> [pids |-> <<>>, reverted |-> FALSE]]
    /\ undoing  = NoUndo
    /\ commands = 0

-----------------------------------------------------------------------------
(***************************************************************************)
(* Lookups and updates.                                                    *)
(***************************************************************************)

\* find_gall, as the set of galleries that answer to a name.
Find(n) == {g \in Galls : galls[g].open /\ (g = n \/ n \in galls[g].alias)}

\* The Gallery object a handler got before an await is still the current one.
Current(job) == galls[job.gall].open /\ galls[job.gall].gen = job.gen

\* Positions of the pictures of g with a property; the first of them.
Where(g, Test(_)) == {k \in 1..Len(galls[g].pics) : Test(galls[g].pics[k])}
First(S) == CHOOSE k \in S : \A l \in S : k <= l

\* find_pic: galleries that hold pid.  Their order in the dict is left open.
Holders(p) == {g \in Galls : galls[g].open /\ Where(g, LAMBDA x : x.pid = p) # {}}

WithPics(g, pics) == galls' = [galls EXCEPT ![g].pics = pics]

\* An upload has dealt with its last picture and goes on without an await.
Reporting(u) == up[u].pc = "next" /\ up[u].left = 0

\* The loop is free: no _save, undo or report is in progress.
Free == writes = <<>> /\ undoing = NoUndo /\ \A u \in Uploads : ~Reporting(u)

InFlight == Cardinality({u \in Uploads : up[u].pc \in {"hashing", "checked", "thumb"}})
              + (IF rep.pc # "off" THEN 1 ELSE 0) + (IF rel.pc # "off" THEN 1 ELSE 0)

\* Faulty variant: the galleries first.
SaveGalleriesFirst == writes' = <<"galls", "top">>

Save == writes' = <<"top", "galls">>

\* One file_db.set of _save.
WriteDisk ==
    /\ writes # <<>>
    /\ disk' = IF Head(writes) = "top" THEN [disk EXCEPT !.top = pidTop]
                                       ELSE [disk EXCEPT !.galls = galls]
    /\ writes' = Tail(writes)
    /\ UNCHANGED <<store, busy, jobs, undo, commands>>

\* A command or event of the given kind happens.
Command(kind) ==
    /\ kind \in Admitted
    /\ commands < MaxCommands
    /\ commands' = commands + 1

-----------------------------------------------------------------------------
(***************************************************************************)
(* The upload command and async_add_pic.                                   *)
(***************************************************************************)

\* The gallery is found; the command waits for the block on the name it was
\* given, which may be an alias.
Ask(u, n, force) ==
    /\ up[u].pc = "idle"
    /\ Free
    /\ Find(n) # {}
    /\ up' = [up EXCEPT ![u].pc = "waiting", ![u].name = n, ![u].force = force]
    /\ UNCHANGED <<store, saved, busy, rep, rel, undo, commands>>

Enter(u) ==
    /\ up[u].pc = "waiting"
    /\ Free
    /\ up[u].name \notin busy
    /\ busy' = busy \cup {up[u].name}
    /\ up' = [up EXCEPT ![u].pc = "next"]
    /\ UNCHANGED <<store, saved, rep, rel, undo, commands>>

\* Faulty variant: a command that never got the block releases it.
GiveUpReleasing(u) ==
    /\ up[u].pc = "waiting"
    /\ Free
    /\ up[u].name \in busy
    /\ up' = [up EXCEPT ![u].pc = "done"]
    /\ busy' = busy \ {up[u].name}
    /\ UNCHANGED <<store, saved, rep, rel, undo, commands>>

\* The block was taken for longer than the timeout.
GiveUp(u) ==
    /\ up[u].pc = "waiting"
    /\ Free
    /\ up[u].name \in busy
    /\ up' = [up EXCEPT ![u].pc = "done"]
    /\ UNCHANGED <<store, saved, busy, rep, rel, undo, commands>>

\* The next picture, of the given look: async_add_pic up to calc_hash.  A
\* gallery closed or renamed meanwhile fails this picture only.
AddBegins(u, look) ==
    /\ up[u].pc = "next" /\ up[u].left > 0
    /\ Free
    /\ \/ /\ Find(up[u].name) = {}
          /\ up' = [up EXCEPT ![u].left = @ - 1]
       \/ /\ InFlight < MaxInFlight
          /\ \E g \in Find(up[u].name) :
             up' = [up EXCEPT ![u].pc = "hashing", ![u].gall = g, ![u].gen = galls[g].gen,
                              ![u].pid = pidTop + 1, ![u].look = look]
    /\ UNCHANGED <<store, saved, busy, rep, rel, undo, commands>>

\* The thread of _async_check_duplicated goes through the pictures.  What a
\* closed gallery held is not kept in the model.
CheckDuplicated(u) ==
    /\ up[u].pc = "hashing" /\ ~up[u].force
    /\ \E same \in BOOLEAN :
          /\ Current(up[u]) =>
               (same <=> Where(up[u].gall, LAMBDA x : x.look = up[u].look) # {})
          /\ up' = [up EXCEPT ![u].pc = "checked", ![u].same = same]
    /\ UNCHANGED <<store, saved, busy, rep, rel, undo, commands>>

\* Faulty variant: the result of the check is not looked at.
MayAddRepeated(u) ==
    \/ up[u].pc = "hashing" /\ up[u].force
    \/ up[u].pc = "checked"

\* The picture is known not to repeat another, or was not checked.
MayAdd(u) ==
    \/ up[u].pc = "hashing" /\ up[u].force
    \/ up[u].pc = "checked" /\ ~up[u].same

AddRepeats(u) ==
    /\ up[u].pc = "checked" /\ up[u].same
    /\ Free
    /\ up' = [up EXCEPT ![u].pc = "next", ![u].left = @ - 1]
    /\ UNCHANGED <<store, saved, busy, rep, rel, undo, commands>>

\* Faulty variant: the name of the file says only when it was added.
AddCommitsByTime(u) ==
    /\ Free
    /\ MayAdd(u)
    /\ pidTop' = pidTop + 1
    /\ fileTop' = fileTop + 1
    /\ LET job == up[u]
           pic == [pid |-> job.pid, file |-> <<job.gall, 1, job.look>>,
                   look |-> job.look, by |-> u]
       IN  /\ files' = files \cup {pic.file}
           /\ IF Current(job)
              THEN WithPics(job.gall, Append(galls[job.gall].pics, pic))
              ELSE UNCHANGED galls
    /\ up' = [up EXCEPT ![u].pc = "thumb"]
    /\ UNCHANGED <<saved, busy, rep, rel, undo, commands>>

\* async_add_pic from the check to ensure_thumb: a new pid_top, the copied
\* file, and the picture with the pid computed before the awaits.  A gallery
\* closed meanwhile keeps the picture to itself.
AddCommits(u) ==
    /\ Free
    /\ MayAdd(u)
    /\ pidTop' = pidTop + 1
    /\ fileTop' = fileTop + 1
    /\ LET job == up[u]
           pic == [pid |-> job.pid, file |-> <<job.gall, fileTop + 1, job.look>>,
                   look |-> job.look, by |-> u]
       IN  /\ files' = files \cup {pic.file}
           /\ IF Current(job)
              THEN WithPics(job.gall, Append(galls[job.gall].pics, pic))
              ELSE UNCHANGED galls
    /\ up' = [up EXCEPT ![u].pc = "thumb"]
    /\ UNCHANGED <<saved, busy, rep, rel, undo, commands>>

\* shutil.copy2 raises: the temporary file is gone, or the disk is full.
AddFails(u) ==
    /\ Free
    /\ MayAdd(u)
    /\ Command("copyfail")
    /\ pidTop' = pidTop + 1
    /\ up' = [up EXCEPT ![u].pc = "next", ![u].left = @ - 1]
    /\ UNCHANGED <<galls, files, fileTop, saved, busy, rep, rel, undo>>

\* Faulty variant: the pid returned is the next one.
AddEndsOffByOne(u) ==
    /\ up[u].pc = "thumb"
    /\ Free
    /\ up' = [up EXCEPT ![u].pc = "next", ![u].left = @ - 1, ![u].pids = Append(@, pidTop + 1)]
    /\ Save
    /\ UNCHANGED <<store, disk, busy, rep, rel, undo, commands>>

\* The pid async_add_pic returns is pid_top as it is now.
AddEnds(u) ==
    /\ up[u].pc = "thumb"
    /\ Free
    /\ up' = [up EXCEPT ![u].pc = "next", ![u].left = @ - 1, ![u].pids = Append(@, pidTop)]
    /\ Save
    /\ UNCHANGED <<store, disk, busy, rep, rel, undo, commands>>

\* add_user_add_history, if a picture was added.
Remember(u) ==
    /\ writes = <<>>
    /\ Reporting(u)
    /\ up' = [up EXCEPT ![u].pc = "replying"]
    /\ record' = [record EXCEPT ![u].pids = up[u].pids]
    /\ UNCHANGED <<store, saved, busy, rep, rel, undoing, commands>>

\* The reply is sent and the block released.
Reply(u) ==
    /\ up[u].pc = "replying"
    /\ Free
    /\ up' = [up EXCEPT ![u].pc = "done"]
    /\ busy' = busy \ {up[u].name}
    /\ UNCHANGED <<store, saved, rep, rel, undo, commands>>

UploadNext(u) ==
    \/ \E n \in Names, force \in BOOLEAN : Ask(u, n, force)
    \/ Enter(u) \/ GiveUp(u)
    \/ \E look \in Looks : AddBegins(u, look)
    \/ CheckDuplicated(u) \/ AddRepeats(u)
    \/ AddCommits(u) \/ AddFails(u) \/ AddEnds(u)
    \/ Remember(u) \/ Reply(u)

-----------------------------------------------------------------------------
(***************************************************************************)
(* Deleting and undoing.                                                   *)
(***************************************************************************)

\* Body of del_pic: the first picture with this pid, and its file.
DropPic(p) ==
    \E g \in Holders(p) :
        LET pics == galls[g].pics
            k    == First(Where(g, LAMBDA x : x.pid = p))
        IN  /\ WithPics(g, SubSeq(pics, 1, k - 1) \o SubSeq(pics, k + 1, Len(pics)))
            /\ files' = files \ {pics[k].file}

\* The superuser deletes a picture.
Delete(p) ==
    /\ Command("delete")
    /\ Free
    /\ DropPic(p)
    /\ Save
    /\ UNCHANGED <<pidTop, fileTop, disk, busy, jobs, undo>>

\* The user of an upload, or the superuser, undoes it ...
UndoBegins(u) ==
    /\ Free
    /\ record[u].pids # <<>> /\ ~record[u].reverted
    /\ Command("undo")
    /\ undoing' = [of |-> u, left |-> record[u].pids]
    /\ UNCHANGED <<store, saved, busy, jobs, record>>

\* ... which deletes what has the recorded pids, one after the other; a pid
\* that is not found is skipped ...
UndoDeletes ==
    /\ writes = <<>>
    /\ undoing.left # <<>>
    /\ LET p == Head(undoing.left)
       IN  IF Holders(p) = {}
           THEN UNCHANGED <<galls, files, writes>>
           ELSE DropPic(p) /\ Save
    /\ undoing' = [undoing EXCEPT !.left = Tail(@)]
    /\ UNCHANGED <<pidTop, fileTop, disk, busy, jobs, record, commands>>

\* ... and marks the record.
UndoEnds ==
    /\ writes = <<>>
    /\ undoing # NoUndo /\ undoing.left = <<>>
    /\ record' = [record EXCEPT ![undoing.of].reverted = TRUE]
    /\ undoing' = NoUndo
    /\ UNCHANGED <<store, saved, busy, jobs, commands>>

-----------------------------------------------------------------------------
(***************************************************************************)
(* Galleries and their names.                                              *)
(***************************************************************************)

\* Faulty variant: aliases are not looked at.
NameIsNoGallery(n) == ~(n \in Galls /\ galls[n].open)

NameIsFree(n) == Find(n) = {}

OpenGall(n) ==
    /\ Command("open")
    /\ Free
    /\ n \in Galls /\ NameIsFree(n)
    /\ galls' = [galls EXCEPT ![n] = [Closed EXCEPT !.open = TRUE, !.gen = galls[n].gen + 1]]
    /\ Save
    /\ UNCHANGED <<pidTop, files, fileTop, disk, busy, jobs, undo>>

\* close_gall leaves the files.
CloseGall(n) ==
    /\ Command("close")
    /\ Free
    /\ \E g \in Find(n) : galls' = [galls EXCEPT ![g] = [Closed EXCEPT !.gen = galls[g].gen]]
    /\ Save
    /\ UNCHANGED <<pidTop, files, fileTop, disk, busy, jobs, undo>>

AddAlias(n, a) ==
    /\ Command("alias")
    /\ Free
    /\ NameIsFree(a)
    /\ \E g \in Find(n) : galls' = [galls EXCEPT ![g].alias = @ \cup {a}]
    /\ Save
    /\ UNCHANGED <<pidTop, files, fileTop, disk, busy, jobs, undo>>

DelAlias(n, a) ==
    /\ Command("alias")
    /\ Free
    /\ \E g \in Find(n) :
          /\ a \in galls[g].alias
          /\ galls' = [galls EXCEPT ![g].alias = @ \ {a}]
    /\ Save
    /\ UNCHANGED <<pidTop, files, fileTop, disk, busy, jobs, undo>>

-----------------------------------------------------------------------------
(***************************************************************************)
(* async_replace_pic.                                                      *)
(***************************************************************************)
ReplaceBegins(p, look) ==
    /\ Free
    /\ rep.pc = "off" /\ InFlight < MaxInFlight
    /\ Command("replace")
    /\ \E g \in Holders(p) :
          LET k == First(Where(g, LAMBDA x : x.pid = p))
          IN  rep' = [pc |-> "hashing", gall |-> g, gen |-> galls[g].gen, pid |-> p,
                      file |-> galls[g].pics[k].file, look |-> look, same |-> FALSE]
    /\ UNCHANGED <<store, saved, busy, up, rel, undo>>

\* The first picture that looks the same stops the replacement unless it has
\* the pid to replace.
ReplaceChecks ==
    /\ rep.pc = "hashing"
    /\ \E same \in BOOLEAN :
          /\ Current(rep) =>
               LET alike == Where(rep.gall, LAMBDA x : x.look = rep.look)
               IN  same <=> alike # {} /\ galls[rep.gall].pics[First(alike)].pid # rep.pid
          /\ rep' = IF same THEN NoRep ELSE [rep EXCEPT !.pc = "checked"]
    /\ UNCHANGED <<store, saved, busy, up, rel, undo, commands>>

\* Positions of the GalleryPic object found when the command began.
Replaced == IF Current(rep)
            THEN Where(rep.gall, LAMBDA x : x.pid = rep.pid /\ x.file = rep.file)
            ELSE {}

\* Faulty variant: the picture keeps the path of the old file.
ReplaceCommitsKeepingPath ==
    /\ Free
    /\ rep.pc = "checked"
    /\ fileTop' = fileTop + 1
    /\ files' = (files \ {rep.file}) \cup {<<rep.gall, fileTop + 1, rep.look>>}
    /\ rep' = [rep EXCEPT !.pc = "thumb"]
    /\ UNCHANGED <<pidTop, galls, saved, busy, up, rel, undo, commands>>

\* The old file goes, the new one comes, and the object is changed, whether or
\* not a gallery still holds it.
ReplaceCommits ==
    /\ Free
    /\ rep.pc = "checked"
    /\ fileTop' = fileTop + 1
    /\ LET new == <<rep.gall, fileTop + 1, rep.look>>
       IN  /\ files' = (files \ {rep.file}) \cup {new}
           /\ IF Replaced = {}
              THEN UNCHANGED galls
              ELSE galls' = [galls EXCEPT ![rep.gall].pics[First(Replaced)].file = new,
                                          ![rep.gall].pics[First(Replaced)].look = rep.look]
    /\ rep' = [rep EXCEPT !.pc = "thumb"]
    /\ UNCHANGED <<pidTop, saved, busy, up, rel, undo, commands>>

\* shutil.copy2 raises when the old file is already gone.
ReplaceFails ==
    /\ Free
    /\ rep.pc = "checked"
    /\ Command("copyfail")
    /\ files' = files \ {rep.file}
    /\ rep' = NoRep
    /\ UNCHANGED <<pidTop, galls, fileTop, saved, busy, up, rel, undo>>

\* Faulty variant: without _save.
ReplaceEndsUnsaved ==
    /\ Free
    /\ rep.pc = "thumb"
    /\ rep' = NoRep
    /\ UNCHANGED <<store, saved, busy, up, rel, undo, commands>>

ReplaceEnds ==
    /\ Free
    /\ rep.pc = "thumb"
    /\ rep' = NoRep
    /\ Save
    /\ UNCHANGED <<store, disk, busy, up, rel, undo, commands>>

-----------------------------------------------------------------------------
(***************************************************************************)
(* async_reload_gall.  Every file of the directory becomes a new picture:  *)
(* the loop meant to skip the known ones only continues itself.            *)
(***************************************************************************)

\* The pictures whose file is there, in their order.
OnDisk(pics) ==
    LET upTo[k \in 0 .. Len(pics)] ==
            IF k = 0 THEN <<>>
            ELSE IF pics[k].file \in files THEN Append(upTo[k - 1], pics[k])
            ELSE upTo[k - 1]
    IN  upTo[Len(pics)]

\* With pics in the gallery, the loop runs to its next await, in calc_hash, or
\* to its end, where pictures without a file go.  A gallery closed meanwhile
\* keeps the pictures to itself.
ReloadGoesOn(job, pics) ==
    \/ /\ \E f \in job.todo :
             rel' = [job EXCEPT !.file = f, !.pid = pidTop + 1, !.todo = @ \ {f}]
       /\ pidTop' = pidTop + 1
       /\ IF Current(job) THEN WithPics(job.gall, pics) ELSE UNCHANGED galls
       /\ UNCHANGED writes
    \/ /\ job.todo = {}
       /\ rel' = NoRel
       /\ IF Current(job)
          THEN WithPics(job.gall, OnDisk(pics))
          ELSE UNCHANGED galls
       /\ Save
       /\ UNCHANGED pidTop

ReloadBegins(n) ==
    /\ Free
    /\ rel.pc = "off" /\ InFlight < MaxInFlight
    /\ Command("reload")
    /\ \E g \in Find(n) :
          ReloadGoesOn([NoRel EXCEPT !.pc = "hashing", !.gall = g, !.gen = galls[g].gen,
                                     !.todo = {f \in files : f[1] = g}],
                       galls[g].pics)
    /\ UNCHANGED <<files, fileTop, disk, busy, up, rep, undo>>

\* calc_hash has read the file: the new picture is appended.
ReloadAppends ==
    /\ Free
    /\ rel.pc = "hashing" /\ rel.file \in files
    /\ LET pic == [pid |-> rel.pid, file |-> rel.file, look |-> rel.file[3], by |-> NoUpload]
       IN  ReloadGoesOn(rel, Append(galls[rel.gall].pics, pic))
    /\ UNCHANGED <<files, fileTop, disk, busy, up, rep, undo, commands>>

\* The file is gone and calc_hash raises: what was appended is not saved.
ReloadFails ==
    /\ Free
    /\ rel.pc = "hashing" /\ rel.file \notin files
    /\ rel' = NoRel
    /\ UNCHANGED <<store, saved, busy, up, rep, undo, commands>>

-----------------------------------------------------------------------------
(***************************************************************************)
(* The world outside.                                                      *)
(***************************************************************************)

\* Files are put into a gallery's directory, or taken out of it, by hand.
DropFile(g, look) ==
    /\ Command("drop")
    /\ fileTop' = fileTop + 1
    /\ files' = files \cup {<<g, fileTop + 1, look>>}
    /\ UNCHANGED <<pidTop, galls, saved, busy, jobs, undo>>

TakeFile(f) ==
    /\ Command("drop")
    /\ files' = files \ {f}
    /\ UNCHANGED <<pidTop, galls, fileTop, saved, busy, jobs, undo>>

\* The process crashes, at any point of a _save too, and starts again: _load.
Crash ==
    /\ Command("crash")
    /\ pidTop' = disk.top
    /\ galls' = disk.galls
    /\ writes' = <<>>
    /\ busy' = {}
    /\ up' = [u \in Uploads |->
                IF up[u].pc = "idle" THEN up[u] ELSE [NewUp EXCEPT !.pc = "done"]]
    /\ rep' = NoRep
    /\ rel' = NoRel
    /\ undoing' = NoUndo
    /\ UNCHANGED <<files, fileTop, disk, record>>

-----------------------------------------------------------------------------
Next ==
    \/ WriteDisk
    \/ \E u \in Uploads : UploadNext(u) \/ UndoBegins(u)
    \/ UndoDeletes \/ UndoEnds
    \/ \E p \in 1..pidTop :
          \/ Delete(p)
          \/ \E look \in Looks : ReplaceBegins(p, look)
    \/ ReplaceChecks \/ ReplaceCommits \/ ReplaceFails \/ ReplaceEnds
    \/ \E n \in Names :
          \/ OpenGall(n) \/ CloseGall(n) \/ ReloadBegins(n)
          \/ \E a \in Aliases : AddAlias(n, a) \/ DelAlias(n, a)
    \/ ReloadAppends \/ ReloadFails
    \/ \E g \in Galls, look \in Looks : DropFile(g, look)
    \/ \E f \in files : TakeFile(f)
    \/ Crash

Spec == Init /\ [][Next]_vars

-----------------------------------------------------------------------------
(***************************************************************************)
(* Properties.                                                             *)
(***************************************************************************)

PicsOf(g) == {galls[g].pics[k] : k \in 1..Len(galls[g].pics)}
Places == UNION {{g} \X DOMAIN galls[g].pics : g \in Galls}
PicAt(at) == galls[at[1]].pics[at[2]]

\* Every variable has its type; no pid in use or on record exceeds pid_top.
TypeOK ==
    /\ pidTop \in Nat /\ fileTop \in Nat
    /\ \A g \in Galls :
          /\ galls[g].alias \subseteq Aliases
          /\ \A x \in PicsOf(g) : x.pid \in 1..pidTop /\ x.look \in Looks
    /\ files \subseteq Galls \X (1..fileTop) \X Looks
    /\ writes \in Seq({"top", "galls"})
    /\ busy \subseteq Names
    /\ \A u \in Uploads :
          /\ up[u].pc \in {"idle", "waiting", "next", "hashing", "checked", "thumb",
                           "replying", "done"}
          /\ up[u].left \in 0..Images
          /\ up[u].pids \in Seq(1..pidTop)
          /\ record[u].pids \in Seq(1..pidTop)
    /\ rep.pc \in {"off", "hashing", "checked", "thumb"}
    /\ rel.pc \in {"off", "hashing"}
    /\ undoing.of \in Uploads \cup {NoUpload}

\* A pid names one picture, over all galleries and over crashes: find_pic and
\* all that is built on it takes the first.
UniquePids ==
    \A a, b \in Places : PicAt(a).pid = PicAt(b).pid => a = b

\* A step of an undo, and what it deletes.
UndoneIsOwn ==
    undoing'.of = undoing.of =>
        \A g \in Galls : \A x \in PicsOf(g) \ PicsOf(g)' :
            undoing # NoUndo => x.by = undoing.of

\* What an undo deletes was added by the upload it undoes.
UndoRemovesOwn == [][UndoneIsOwn]_vars

\* A picture added after the duplicate check repeats none the gallery holds at
\* that moment, though the check was awaits ago: uploads of one name take turns.
AddedIsNew ==
    \A u \in Uploads :
        up[u].pc = "checked" /\ up'[u].pc = "thumb" /\ Current(up[u]) =>
            \A x \in PicsOf(up[u].gall) : x.look # up[u].look

\* Every picture of an open gallery has its file, through replacements that race
\* deletions, undos and closes.
FilesExist == \A g \in Galls : \A x \in PicsOf(g) : x.file \in files

\* A file belongs to one picture, so that deleting one spares the others.
OneRecordPerFile ==
    \A a, b \in Places : PicAt(a).file = PicAt(b).file => a = b

\* The saved galleries differ from those in memory only while a handler still
\* has to save.
UnsavedOnlyInFlight ==
    /\ Free
    /\ rep.pc # "thumb" /\ rel.pc = "off"
    /\ \A u \in Uploads : up[u].pc # "thumb"
    => disk.galls = galls

\* A name or alias finds at most one gallery, whatever was opened and closed.
NamesFindOneGallery ==
    \A g, h \in Galls :
        g # h /\ galls[g].open /\ galls[h].open =>
            ({g} \cup galls[g].alias) \cap ({h} \cup galls[h].alias) = {}

\* Two uploads that were given one name are not both past the block, even when
\* others gave up waiting for it (HandlerContext.block).
SameNameUploadsTakeTurns ==
    LET past == {u \in DOMAIN up : up[u].pc \notin {"idle", "waiting", "done"}}
    IN  \A u, v \in past : u # v => up[u].name # up[v].name

\* Names find one gallery and uploads to one of them take turns, whatever is
\* opened, closed, renamed or lost in a crash.
NamesAreSound == NamesFindOneGallery /\ SameNameUploadsTakeTurns
=============================================================================
