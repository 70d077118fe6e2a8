------------------------------- MODULE TempFiles -------------------------------
(***************************************************************************)
(* The temporary files of the bot (src/src/utils/utils.py): downloads that *)
(* a handler works on, and pictures that are sent by their path and are to *)
(* stay for some minutes.  A file is removed when its handler is done with *)
(* it, or when its time is over, by a job that looks every minute; what a  *)
(* failed download or a restart left behind goes after a day.              *)
(***************************************************************************)
EXTENDS Integers

CONSTANTS
    Files,          \* the files; each name is used once
    Keep,           \* tmp_img_keep_minutes
    Day,            \* after this a file is removed whatever it is
    Interval,       \* the time between two runs of the job
    MaxTime,        \* bound: the clock stops here
    MaxRestarts     \* bound: restarts that are explored

\* What the constants are taken to be.
TempAssumption == {Keep, Day, Interval} \subseteq Nat \ {0}

Never == -1

VARIABLES
    now,
    at,             \* at[f]: who has the file f
    exists,         \* the files in TEMP_FILE_DIR
    written,        \* written[f]: its modification time
    listed,         \* listed[f]: its time in _tmp_files_to_remove, or Never
    due,            \* when the job runs next
    kept,           \* history: kept[f]: until when the file sent was promised
    restarts

vars == <<now, at, exists, written, listed, due, kept, restarts>>

\* The invariant on types: what each variable may hold.
TypeOK ==
    /\ now \in 0..MaxTime
    /\ at \in [Files -> {"unused", "downloading", "used", "left"}]
    /\ exists \subseteq Files
    /\ written \in [Files -> 0..MaxTime]
    /\ listed \in [Files -> {Never} \cup 0..(MaxTime + Keep)]
    /\ due \in 0..(MaxTime + Interval)
    /\ kept \in [Files -> 0..(MaxTime + Keep)]
    /\ restarts \in 0..MaxRestarts

Init ==
    /\ now = 0
    /\ at = [f \in Files |-> "unused"]
    /\ exists = {}
    /\ written = [f \in Files |-> 0]
    /\ listed = [f \in Files |-> Never]
    /\ due = Interval
    /\ kept = [f \in Files |-> 0]
    /\ restarts = 0

SendPictureAndRemove(f) ==
    /\ at[f] = "unused"
    /\ at' = [at EXCEPT ![f] = "left"]
    /\ kept' = [kept EXCEPT ![f] = now + Keep]
    /\ UNCHANGED <<now, exists, written, listed, due, restarts>>

\* A picture is saved and its path returned to be sent, all in one step of the loop.
SendPicture(f) ==
    /\ at[f] = "unused"
    /\ at' = [at EXCEPT ![f] = "left"]
    /\ exists' = exists \cup {f}
    /\ written' = [written EXCEPT ![f] = now]
    /\ listed' = [listed EXCEPT ![f] = now + Keep]
    /\ kept' = [kept EXCEPT ![f] = now + Keep]
    /\ UNCHANGED <<now, due, restarts>>

Download(f) ==
    /\ at[f] = "unused"
    /\ at' = [at EXCEPT ![f] = "downloading"]
    /\ UNCHANGED <<now, exists, written, listed, due, kept, restarts>>

\* The file is written; or the last of the tries raises, and what it wrote stays.
Downloaded(f) ==
    /\ at[f] = "downloading"
    /\ \/ /\ at' = [at EXCEPT ![f] = "used"]
          /\ exists' = exists \cup {f}
       \/ /\ at' = [at EXCEPT ![f] = "left"]
          /\ exists' \in {exists, exists \cup {f}}
    /\ written' = [written EXCEPT ![f] = now]
    /\ UNCHANGED <<now, listed, due, kept, restarts>>

\* The handler is done, or raises: the file is removed, or listed for its keep time.
Done(f) ==
    /\ at[f] = "used"
    /\ at' = [at EXCEPT ![f] = "left"]
    /\ \/ exists' = exists \ {f} /\ UNCHANGED <<listed, kept>>
       \/ /\ listed' = [listed EXCEPT ![f] = now + Keep]
          /\ kept' = [kept EXCEPT ![f] = IF f \in exists THEN now + Keep ELSE 0]
          /\ UNCHANGED exists
    /\ UNCHANGED <<now, written, due, restarts>>

\* The job: what is listed and over its time goes, and what is older than a day.
Outdated == {f \in exists : now - written[f] > Day}
Clean ==
    /\ due <= now
    /\ due' = due + Interval
    /\ LET over == {f \in Files : listed[f] # Never /\ listed[f] <= now} IN
       /\ exists' = (exists \ over) \ Outdated
       /\ listed' = [f \in Files |-> IF f \in over THEN Never ELSE listed[f]]
    /\ UNCHANGED <<now, at, written, kept, restarts>>

\* The list is lost, and nobody is left to remove what was in use.
Restart ==
    /\ restarts < MaxRestarts
    /\ restarts' = restarts + 1
    /\ at' = [f \in Files |-> IF at[f] = "unused" THEN "unused" ELSE "left"]
    /\ listed' = [f \in Files |-> Never]
    /\ due' = now + 1
    /\ UNCHANGED <<now, exists, written, kept>>

Tick ==
    /\ now < MaxTime /\ now < due
    /\ now' = now + 1
    /\ UNCHANGED <<at, exists, written, listed, due, kept, restarts>>

Next ==
    \/ \E f \in Files : SendPicture(f) \/ Download(f) \/ Downloaded(f) \/ Done(f)
    \/ Clean \/ Restart \/ Tick

Spec == Init /\ [][Next]_vars

-------------------------------------------------------------------------------

\* A file that was sent by its path is there for its keep time, through restarts, unless
\* it is a day old before that (utils.py:462-470, 502-526).
SentStays == \A f \in Files :
    now < kept[f] /\ now - written[f] <= Day => f \in exists

\* No file stays for good, whoever lost sight of it: it is gone one interval after its
\* keep time, or, where the list was lost with a restart or the download failed, one
\* interval after a day; a restart starts the interval anew.
NoneStays == \A f \in exists :
    /\ now <= written[f] + Day + Interval + restarts
    /\ listed[f] # Never => now <= listed[f] + Interval

===============================================================================
