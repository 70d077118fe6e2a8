----------------------------- MODULE PictureCache -----------------------------
(***************************************************************************)
(* Painter.get (src/src/draw/painter.py) and the pool that draws           *)
(* (src/src/draw/process_pool.py).  A picture with a cache key is looked   *)
(* up by the hash of its operations after the hash was computed in a       *)
(* thread; a file of the key with another hash is removed, the picture is  *)
(* drawn in the pool, which the first picture starts, and saved in place.  *)
(* Other pictures, of the same key too, pass in between, a worker may die  *)
(* and the bot may stop in the middle of a save.                           *)
(*                                                                         *)
(* A content stands for a list of operations and for its hash (that the    *)
(* hash tells lists apart is checked in PictureHash).                      *)
(***************************************************************************)
EXTENDS FiniteSets, Naturals

CONSTANTS
    Gets,           \* the calls of Painter.get
    Keys,           \* the cache keys
    NoKey,          \* the key of a picture that is not cached
    Contents,       \* what may have to be drawn
    MaxFaults       \* bound: dead workers, failed saves and stops that are explored

\* What the constants are taken to be.
PictureCacheAssumption ==
    /\ NoKey \notin Keys
    /\ MaxFaults \in Nat

Outcomes == Contents \cup {"nothing", "cut"}

VARIABLES
    at,             \* at[g]: where the call g is
    key,            \* key[g]: its cache key
    content,        \* content[g]: the operations it was called with
    got,            \* got[g]: the picture it returned
    file,           \* file[k][c]: the cache file of the key k and the hash of c
    pool,           \* _painter_pool
    rivals,         \* history: the keys two pictures were drawn for at once
    faults

vars == <<at, key, content, got, file, pool, rivals, faults>>

\* The invariant on types: what each variable may hold.
TypeOK ==
    /\ at \in [Gets -> {"idle", "hashing", "drawing", "done", "failed"}]
    /\ key \in [Gets -> Keys \cup {NoKey}]
    /\ content \in [Gets -> Contents]
    /\ got \in [Gets -> Outcomes]
    /\ file \in [Keys -> [Contents -> {"absent", "cut", "whole"}]]
    /\ pool \in {"unstarted", "processes", "broken", "threads", "none"}
    /\ rivals \subseteq Keys
    /\ faults \in 0..MaxFaults

NoFiles == [c \in Contents |-> "absent"]

Init ==
    /\ at = [g \in Gets |-> "idle"]
    /\ key = [g \in Gets |-> NoKey]
    /\ content = [g \in Gets |-> CHOOSE c \in Contents : TRUE]
    /\ got = [g \in Gets |-> "nothing"]
    /\ file = [k \in Keys |-> NoFiles]
    /\ pool = "unstarted"
    /\ rivals = {}
    /\ faults = 0

FilesOf(k) == {c \in Contents : file[k][c] # "absent"}
DrawnFor(k) == {g \in Gets : at[g] = "drawing" /\ key[g] = k}

\* The lock and the flag make the start one step: nothing is awaited under the lock.
PoolStarts ==
    IF pool = "unstarted" THEN pool' \in {"processes", "threads", "none"} ELSE UNCHANGED pool

\* The operations are handed to the pool; one that lost a worker refuses them.
Submit(g) ==
    /\ PoolStarts
    /\ at' = [at EXCEPT ![g] = IF pool = "broken" THEN "failed" ELSE "drawing"]

Call(g, c) ==
    /\ at[g] = "idle"
    /\ content' = [content EXCEPT ![g] = c]
    /\ \/ \E k \in Keys : key' = [key EXCEPT ![g] = k]
          /\ at' = [at EXCEPT ![g] = "hashing"] /\ UNCHANGED pool
       \/ key' = [key EXCEPT ![g] = NoKey] /\ Submit(g)
    /\ UNCHANGED <<got, file, rivals, faults>>

\* Faulty variant: any file of the key is taken for the picture.
HitAny(g) ==
    /\ at[g] = "hashing"
    /\ \E c \in FilesOf(key[g]) :
         got' = [got EXCEPT ![g] = IF file[key[g]][c] = "whole" THEN c ELSE "cut"]
    /\ at' = [at EXCEPT ![g] = "done"]
    /\ UNCHANGED <<key, content, file, pool, rivals, faults>>

\* The hash is there and the first file glob lists, in the order of the directory, is
\* the picture's: it is loaded, which fails when a save was cut short.
Hit(g) ==
    /\ at[g] = "hashing"
    /\ content[g] \in FilesOf(key[g])
    /\ IF file[key[g]][content[g]] = "whole"
       THEN /\ at' = [at EXCEPT ![g] = "done"]
            /\ got' = [got EXCEPT ![g] = content[g]]
       ELSE at' = [at EXCEPT ![g] = "failed"] /\ UNCHANGED got
    /\ UNCHANGED <<key, content, file, pool, rivals, faults>>

\* Faulty variant: the files of other contents stay.
MissKeepingFiles(g) ==
    /\ at[g] = "hashing"
    /\ content[g] \notin FilesOf(key[g])
    /\ rivals' = IF DrawnFor(key[g]) = {} THEN rivals \ {key[g]} ELSE rivals \cup {key[g]}
    /\ Submit(g)
    /\ UNCHANGED <<key, content, got, file, faults>>

\* There is no file, or the first is another's: every file of the key is removed.
Miss(g) ==
    /\ at[g] = "hashing"
    /\ FilesOf(key[g]) # {content[g]}
    /\ file' = [file EXCEPT ![key[g]] = NoFiles]
    /\ rivals' = IF DrawnFor(key[g]) = {} THEN rivals \ {key[g]} ELSE rivals \cup {key[g]}
    /\ Submit(g)
    /\ UNCHANGED <<key, content, got, faults>>

\* The picture is drawn and, under a key, saved to its file.  A save that fails is
\* passed over; what it wrote so far stays under the final name.
Saves(g, result) ==
    IF key[g] = NoKey THEN UNCHANGED file
    ELSE file' = [file EXCEPT ![key[g]][content[g]] = result]

Drawn(g) ==
    /\ at[g] = "drawing"
    /\ \/ Saves(g, "whole") /\ UNCHANGED faults
       \/ /\ key[g] # NoKey /\ faults < MaxFaults
          /\ faults' = faults + 1
          /\ Saves(g, "cut") \/ UNCHANGED file
    /\ at' = [at EXCEPT ![g] = "done"]
    /\ got' = [got EXCEPT ![g] = content[g]]
    /\ UNCHANGED <<key, content, pool, rivals>>

\* An operation raises.
DrawFails(g) ==
    /\ at[g] = "drawing" /\ faults < MaxFaults
    /\ faults' = faults + 1
    /\ at' = [at EXCEPT ![g] = "failed"]
    /\ UNCHANGED <<key, content, got, file, pool, rivals>>

\* A worker dies: the executor fails what it was given and every later picture, for
\* _ensure_painter_pool returns it as it is.
WorkerDies ==
    /\ pool = "processes" /\ faults < MaxFaults
    /\ faults' = faults + 1
    /\ pool' = "broken"
    /\ at' = [g \in Gets |-> IF at[g] = "drawing" THEN "failed" ELSE at[g]]
    /\ UNCHANGED <<key, content, got, file, rivals>>

ClearCache(k) ==
    /\ file' = [file EXCEPT ![k] = NoFiles]
    /\ rivals' = IF DrawnFor(k) = {} THEN rivals \ {k} ELSE rivals
    /\ UNCHANGED <<at, key, content, got, pool, faults>>

\* The caller is done with the picture.
Return(g) ==
    /\ at[g] \in {"done", "failed"}
    /\ at' = [at EXCEPT ![g] = "idle"]
    /\ got' = [got EXCEPT ![g] = "nothing"]
    /\ UNCHANGED <<key, content, file, pool, rivals, faults>>

\* The bot stops, at worst while a picture is being saved, and is started again.
Restart ==
    /\ faults < MaxFaults
    /\ faults' = faults + 1
    /\ \/ UNCHANGED file
       \/ \E g \in Gets : at[g] = "drawing" /\ key[g] # NoKey /\ Saves(g, "cut")
    /\ at' = [g \in Gets |-> "idle"]
    /\ got' = [g \in Gets |-> "nothing"]
    /\ pool' = "unstarted"
    /\ UNCHANGED <<key, content, rivals>>

Works(g) == Hit(g) \/ Miss(g) \/ Drawn(g)
Next ==
    \/ \E g \in Gets :
         \/ \E c \in Contents : Call(g, c)
         \/ Works(g) \/ DrawFails(g) \/ Return(g)
    \/ \E k \in Keys : ClearCache(k)
    \/ WorkerDies
    \/ Restart

Spec == Init /\ [][Next]_vars

\* The event loop resumes a call whose hash is computed, and the pool draws.
Fairness == \A g \in Gets : WF_vars(Works(g))
FairSpec == Spec /\ Fairness

-------------------------------------------------------------------------------

\* A caller gets the picture of the operations it called get with, whole, whatever
\* other pictures of the key are drawn, saved and removed in between
\* (painter.py:968-1026).
OwnPicture == \A g \in Gets : at[g] = "done" => got[g] = content[g]

\* A key has the file of one picture.  Only where two pictures of the key were drawn at
\* once may it have two, and the next picture neither is for removes both
\* (painter.py:976-995).
OneFilePerKey == \A k \in Keys \ rivals :
    /\ Cardinality(FilesOf(k)) <= 1
    /\ Cardinality(DrawnFor(k)) <= 1
    /\ FilesOf(k) # {} => DrawnFor(k) = {}

\* Every picture is drawn, found or fails: nobody waits for a pool that lost a worker.
GetsEnd == \A g \in Gets : at[g] \in {"hashing", "drawing"} ~> at[g] \notin {"hashing", "drawing"}

===============================================================================
