------------------------------- MODULE RipAssets -------------------------------
(***************************************************************************)
(* One file of the game's assets, as RegionRipAssetManger gets it          *)
(* (src/src/pjsk/asset.py): from the cache on disk while the file is young *)
(* enough, else from the sources that serve its path, one after the other, *)
(* each within a timeout; and images from memory.  Several calls download  *)
(* at once, the file changes at the sources meanwhile, a save may fail and *)
(* the bot may stop half way through one.                                  *)
(***************************************************************************)
EXTENDS Integers

CONSTANTS
    Calls,          \* the calls of get_asset, get_asset_cache_path, img and json
    Requests,       \* what a call may ask for: see Request
    Sources,        \* the number of sources whose prefixes fit the path
    Expire,         \* cache_expire_secs, where a call gives it
    Timeout,        \* default_rip_asset_download_timeout
    MaxTime,        \* bound: the clock stops here
    MaxVersion,     \* bound: how often the file changes
    MaxFaults       \* bound: saves that fail or are cut short by a stop

Request == [kind: {"bytes", "path", "img", "json"}, disk: BOOLEAN, memory: BOOLEAN,
            expires: BOOLEAN, allowError: BOOLEAN]

\* What the constants are taken to be.
RipAssumption ==
    /\ Requests \subseteq Request
    /\ {Sources, Expire, Timeout} \subseteq Nat \ {0}

Cut == 0
Nothing == -1
Default == -2
Raised == -3

VARIABLES
    now,
    since,          \* since[v]: when the version v of the file appeared at the sources
    version,        \* the version they serve
    call,           \* call[c]: where the call is, what it asks, its source, what it got
    file,           \* the cached file and when it was written
    memory,         \* cached_images[path]
    faults

vars == <<now, since, version, call, file, memory, faults>>

Answers == 1..MaxVersion
Idle == [at |-> "idle", asks |-> CHOOSE r \in Requests : TRUE, source |-> 0, begun |-> 0,
         sent |-> Nothing, got |-> Nothing]

\* The invariant on types: what each variable may hold.
TypeOK ==
    /\ now \in 0..MaxTime
    /\ version \in Answers /\ since \in [Answers -> 0..MaxTime]
    /\ call \in [Calls -> [at: {"idle", "asking", "over"}, asks: Requests, source: 0..Sources,
                           begun: 0..MaxTime, sent: Answers \cup {Nothing},
                           got: Answers \cup {Cut, Nothing, Default, Raised}]]
    /\ file \in [data: Answers \cup {Cut, Nothing}, written: 0..MaxTime]
    /\ memory \in Answers \cup {Nothing}
    /\ faults \in 0..MaxFaults

Init ==
    /\ now = 0
    /\ version = 1 /\ since = [v \in Answers |-> 0]
    /\ call = [c \in Calls |-> Idle]
    /\ file = [data |-> Nothing, written |-> 0]
    /\ memory = Nothing
    /\ faults = 0

\* What the caller gets of the bytes: img and json give the default, or raise, for what
\* does not parse, bytes and path give anything.
Parsed(asks, data) ==
    IF data \in Answers \/ asks.kind \in {"bytes", "path"} THEN data
    ELSE IF asks.allowError THEN Default ELSE Raised

Over(c, asks, data) ==
    /\ call' = [call EXCEPT ![c] = [Idle EXCEPT !.at = "over", !.asks = asks, !.begun = now,
                                                !.got = Parsed(asks, data)]]
    /\ memory' = IF asks.kind = "img" /\ asks.memory /\ data \in Answers THEN data ELSE memory

Asks(c, asks, source) ==
    call' = [call EXCEPT ![c] = [at |-> "asking", asks |-> asks, source |-> source,
                                 begun |-> now, sent |-> version, got |-> Nothing]]

\* Faulty variant: the age of the file is not looked at.
YoungAtAnyAge(asks) == file.data # Nothing /\ (asks.kind = "path" \/ asks.disk)

\* The file on disk serves the call.
Young(asks) ==
    /\ file.data # Nothing
    /\ asks.kind = "path" \/ asks.disk
    /\ asks.expires => now - file.written < Expire

Call(c, asks) ==
    /\ call[c].at = "idle"
    /\ IF asks.kind = "img" /\ asks.memory /\ memory # Nothing THEN Over(c, asks, memory)
       ELSE IF Young(asks) THEN Over(c, asks, file.data)
       ELSE Asks(c, asks, 1) /\ UNCHANGED memory
    /\ UNCHANGED <<now, since, version, file, faults>>

\* A source did not answer, or what it sent was not saved: the next is asked, and after
\* the last the call gives its default or raises.
NextSource(c) ==
    IF call[c].source < Sources
    THEN Asks(c, call[c].asks, call[c].source + 1)
    ELSE call' = [call EXCEPT ![c] = [Idle EXCEPT !.at = "over", !.asks = call[c].asks,
                    !.got = IF call[c].asks.allowError THEN Default ELSE Raised, !.begun = now]]

SourceFails(c) ==
    /\ call[c].at = "asking"
    /\ NextSource(c)
    /\ UNCHANGED <<now, since, version, file, memory, faults>>

Keeps(asks) == asks.kind = "path" \/ asks.disk

\* The download is over: the file is overwritten in place, whatever it holds by now.
Downloaded(c) ==
    /\ call[c].at = "asking"
    /\ file' = IF Keeps(call[c].asks) THEN [data |-> call[c].sent, written |-> now] ELSE file
    /\ Over(c, call[c].asks, call[c].sent)
    /\ UNCHANGED <<now, since, version, faults>>

SaveFails(c) ==
    /\ call[c].at = "asking" /\ Keeps(call[c].asks) /\ faults < MaxFaults
    /\ faults' = faults + 1
    /\ file' = [data |-> Cut, written |-> now]
    /\ NextSource(c)
    /\ UNCHANGED <<now, since, version, memory>>

\* The bot stops, at worst during a save, and is started again.
Restart ==
    /\ faults < MaxFaults
    /\ faults' = faults + 1
    /\ \/ UNCHANGED file
       \/ /\ \E c \in Calls : call[c].at = "asking" /\ Keeps(call[c].asks)
          /\ file' = [data |-> Cut, written |-> now]
    /\ call' = [c \in Calls |-> Idle]
    /\ memory' = Nothing
    /\ UNCHANGED <<now, since, version>>

Return(c) ==
    /\ call[c].at = "over"
    /\ call' = [call EXCEPT ![c] = Idle]
    /\ UNCHANGED <<now, since, version, file, memory, faults>>

FileChanges ==
    /\ version < MaxVersion
    /\ version' = version + 1
    /\ since' = [since EXCEPT ![version + 1] = now]
    /\ UNCHANGED <<now, call, file, memory, faults>>

\* No download outlives its timeout; a call that is over is returned at once.
Tick ==
    /\ now < MaxTime
    /\ \A c \in Calls : /\ call[c].at # "over"
                        /\ call[c].at = "asking" => now - call[c].begun < Timeout
    /\ now' = now + 1
    /\ UNCHANGED <<since, version, call, file, memory, faults>>

Next ==
    \/ \E c \in Calls :
         \/ \E r \in Requests : Call(c, r)
         \/ SourceFails(c) \/ Downloaded(c) \/ SaveFails(c) \/ Return(c)
    \/ FileChanges \/ Restart \/ Tick

Spec == Init /\ [][Next]_vars

\* A download is answered, refused or timed out, and the caller goes on.
Fairness == \A c \in Calls : WF_vars(SourceFails(c) \/ Downloaded(c)) /\ WF_vars(Return(c))
FairSpec == Spec /\ Fairness

-------------------------------------------------------------------------------

\* A call that gives an age gets nothing that was replaced at the sources longer than
\* that age and one timeout ago, in whatever order the downloads of the file end; only
\* an image kept in memory may be older (asset.py:454-466, 547-548).
NotTooOld == \A c \in Calls :
    LET a == call[c] IN
    (a.at = "over" /\ a.asks.expires /\ ~a.asks.memory /\ a.got \in 1..(MaxVersion - 1) /\ a.got < version) =>
        since[a.got + 1] > a.begun - Expire - Timeout

\* Bytes that a save left unfinished are given to no one who asked for an image or json,
\* though the file that holds them is as good as another (asset.py:553-577, 599-606).
OnlyWholeIsParsed == \A c \in Calls :
    call[c].at = "over" =>
        /\ call[c].got = Cut => call[c].asks.kind \in {"bytes", "path"} /\ faults > 0
        /\ call[c].got = Raised => ~call[c].asks.allowError

\* Every call ends.
CallsEnd == \A c \in Calls : call[c].at = "asking" ~> call[c].at # "asking"

===============================================================================
