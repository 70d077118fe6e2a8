------------------------------- MODULE Settings -------------------------------
(***************************************************************************)
(* The settings of one YAML file (src/src/core/config.py).  Several Config *)
(* objects read the file, each at most once in Interval seconds; the data  *)
(* is kept once for all of them, under the time of the file it was read    *)
(* from, which is cut to whole seconds.  A read finds the file changed by  *)
(* comparing that time.  The administrator edits, breaks and removes the   *)
(* file at any moment.                                                     *)
(***************************************************************************)
EXTENDS Naturals

CONSTANTS
    Readers,        \* Config objects of the file
    Interval,       \* _RELOAD_INTERVAL, in seconds
    TicksPerSecond, \* moments of a second the model tells apart
    SecondsApart,   \* two edits of the file never fall into one second
    MaxTime,        \* bound: ticks the clock makes
    MaxVersion      \* bound: edits

SettingsAssumption ==
    /\ {Interval, TicksPerSecond, MaxTime, MaxVersion} \subseteq Nat \ {0}
    /\ TicksPerSecond <= MaxTime
    /\ SecondsApart \in BOOLEAN

VARIABLES
    now,            \* the clock, in ticks
    file,           \* the file on disk: its text, and when it was written
    cache,          \* _cache of the path: version of the data and file time
    checked,        \* _last_check of each object
    got             \* the last get: what it returned and when

vars == <<now, file, cache, checked, got>>

Second(t) == t \div TicksPerSecond
None == [version |-> 0, mtime |-> 0]
States == {"good", "broken", "missing"}

\* Clock and file start at the second second: the time 0 stands for no file.
Init ==
    /\ now = TicksPerSecond
    /\ file = [version |-> 1, at |-> TicksPerSecond, state |-> "good"]
    /\ cache = [version |-> 1, mtime |-> 1]
    /\ checked = [r \in Readers |-> TicksPerSecond]
    /\ got = [version |-> 1, at |-> TicksPerSecond]

Tick ==
    /\ now < MaxTime
    /\ now' = now + 1
    /\ UNCHANGED <<file, cache, checked, got>>

\* The file is written, well or badly, or removed.
Edit ==
    /\ file.version < MaxVersion
    /\ SecondsApart => Second(now) > Second(file.at)
    /\ \E s \in States : file' = [version |-> file.version + 1, at |-> now, state |-> s]
    /\ UNCHANGED <<now, cache, checked, got>>

\* Faulty variant: the time of the file is kept uncut.
LoadedUncut(force) ==
    IF file.state = "missing" THEN None
    ELSE IF file.state = "broken" \/ (~force /\ cache.mtime = Second(file.at)) THEN cache
    ELSE [version |-> file.version, mtime |-> file.at]

\* What the cache holds once the file was looked at; a broken file raises,
\* after the check was noted, and leaves the cache as it was.
Loaded(force) ==
    IF file.state = "missing" THEN None
    ELSE IF file.state = "broken" \/ (~force /\ cache.mtime = Second(file.at)) THEN cache
    ELSE [version |-> file.version, mtime |-> Second(file.at)]

Raises(force) == file.state = "broken" /\ (force \/ cache.mtime # Second(file.at))

\* Faulty variant: the check is due a moment later than it should be.
DueLate(r) == now - checked[r] > Interval * TicksPerSecond

Due(r) == now - checked[r] >= Interval * TicksPerSecond

\* A get, get_all, mtime or item of an object: it looks at the file when that
\* is due, and returns what the cache then holds.
Get(r) ==
    /\ checked' = [checked EXCEPT ![r] = IF Due(r) THEN now ELSE @]
    /\ cache' = IF Due(r) THEN Loaded(FALSE) ELSE cache
    /\ got' = IF Due(r) /\ Raises(FALSE) THEN got
              ELSE [version |-> cache'.version, at |-> now]
    /\ UNCHANGED <<now, file>>

\* A module loaded later makes an object of its own, which reads at once.
Make(r) ==
    /\ checked' = [checked EXCEPT ![r] = now]
    /\ cache' = Loaded(TRUE)
    /\ UNCHANGED <<now, file, got>>

Next == Tick \/ Edit \/ \E r \in Readers : Get(r) \/ Make(r)

Spec == Init /\ [][Next]_vars

-----------------------------------------------------------------------------

\* Times are past times, and the data is of a version that was written.
TypeOK ==
    /\ now \in 1 .. MaxTime
    /\ file \in [version : 1 .. MaxVersion, at : 1 .. now, state : States]
    /\ cache \in [version : 0 .. file.version, mtime : 0 .. Second(now)]
    /\ checked \in [Readers -> 1 .. now]
    /\ got \in [version : 0 .. file.version, at : 1 .. now]

\* An edit counts after Interval at the latest, whichever object is asked
\* ("改文件后最多 3 秒生效", config.py:57): a get that returns anything, and
\* is made Interval after the file was last written or removed, returns what
\* the file says, unless the file cannot be read.
EditsTakeEffect ==
    got.at >= file.at + Interval * TicksPerSecond =>
        /\ file.state = "good" => got.version = file.version
        /\ file.state = "missing" => got.version = 0

=============================================================================
