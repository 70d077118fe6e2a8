--------------------------------- MODULE Names ---------------------------------
(***************************************************************************)
(* The names the bot shows (src/src/utils/handler.py, log_event.py and     *)
(* store.py of src/src/core).  The name of a member of a group, and of a   *)
(* person outside groups, is asked from OneBot and kept for a while; the   *)
(* name of a group is kept in a file and only an event that carries it     *)
(* makes it new.  A name stands here for the moment at which it was the    *)
(* true one, so that a cache can be seen to be behind.                     *)
(***************************************************************************)
EXTENDS Integers

CONSTANTS
    Askers,         \* tasks that ask for names
    Expire,         \* how long a name is kept
    Timeout,        \* how long an API call may take
    MaxTime,        \* bound: the clock stops here
    MaxFaults       \* bound: failed calls and restarts

\* What the constants are taken to be.
NamesAssumption == Expire \in Nat \ {0} /\ {Timeout, MaxTime, MaxFaults} \subseteq Nat

None == -1
Kinds == {"member", "stranger"}
Times == 0..MaxTime

VARIABLES
    now,
    kept,           \* kept[k]: the name in the cache of kind k, and when it expires
    group,          \* the name in the file, or None
    told,           \* history: when an event last carried the name of the group
    at,             \* at[a]: what the asker waits for
    asked,          \* asked[a]: when it asked, 0 when nothing is waited for
    got,            \* got[a]: the name it was given, None for the bare number
    faults

vars == <<now, kept, group, told, at, asked, got, faults>>

\* The invariant on types: what each variable may hold.
TypeOK ==
    /\ now \in Times
    /\ kept \in [Kinds -> [name : Times \cup {None}, until : 0..(MaxTime + Expire)]]
    /\ group \in Times \cup {None} /\ told \in Times \cup {None}
    /\ at \in [Askers -> {"idle", "group", "named", "labelled"} \cup Kinds]
    /\ asked \in [Askers -> Times]
    /\ got \in [Askers -> Times \cup {None}]
    /\ faults \in 0..MaxFaults

Nothing == [name |-> None, until |-> 0]

Init ==
    /\ now = 0
    /\ kept = [k \in Kinds |-> Nothing]
    /\ group = None /\ told = None
    /\ at = [a \in Askers |-> "idle"]
    /\ asked = [a \in Askers |-> 0]
    /\ got = [a \in Askers |-> None]
    /\ faults = 0

\* Faulty variant: what is over its time is not forgotten.
PurgedNever == kept

\* Every get first forgets all that is over its time.
Purged == [k \in Kinds |-> IF kept[k].until <= now THEN Nothing ELSE kept[k]]

Gives(a, name, what) ==
    /\ at' = [at EXCEPT ![a] = what]
    /\ got' = [got EXCEPT ![a] = name]
    /\ asked' = [asked EXCEPT ![a] = 0]
Shows(a, name) == Gives(a, name, "named")
Labels(a, name) == Gives(a, name, "labelled")

\* The asker looks into the cache of kind k, and asks OneBot when the name is not there.
LooksUp(a, k) ==
    /\ kept' = [kept EXCEPT ![k] = Purged[k]]
    /\ IF Purged[k].name # None
       THEN Shows(a, Purged[k].name)
       ELSE /\ at' = [at EXCEPT ![a] = k]
            /\ asked' = [asked EXCEPT ![a] = now]
            /\ UNCHANGED got

\* Someone asks for the name of a member, or of a person outside groups.
Ask(a, k) ==
    /\ at[a] = "idle"
    /\ LooksUp(a, k)
    /\ UNCHANGED <<now, group, told, faults>>

\* The answer was true at some moment since it was asked for; it is kept from now on.
Answer(a, k) ==
    /\ at[a] = k
    /\ \E name \in asked[a]..now :
          /\ kept' = [kept EXCEPT ![k] = [name |-> name, until |-> now + Expire]]
          /\ Shows(a, name)
    /\ UNCHANGED <<now, group, told, faults>>

\* A member who cannot be asked for is looked up as a stranger, and a stranger who
\* cannot be is shown by number.
Fails(a) ==
    /\ at[a] \in Kinds /\ faults < MaxFaults
    /\ faults' = faults + 1
    /\ IF at[a] = "member"
       THEN LooksUp(a, "stranger")
       ELSE Shows(a, None) /\ UNCHANGED kept
    /\ UNCHANGED <<now, group, told>>

\* Someone asks for the name of the group: the one in the file, however old.
AskGroup(a) ==
    /\ at[a] = "idle"
    /\ IF group # None
       THEN Labels(a, group)
       ELSE /\ at' = [at EXCEPT ![a] = "group"]
            /\ asked' = [asked EXCEPT ![a] = now]
            /\ UNCHANGED got
    /\ UNCHANGED <<now, kept, group, told, faults>>

\* The answer goes into the file; a failed call, or an answer without a name, does not.
AnswerGroup(a) ==
    /\ at[a] = "group"
    /\ \/ /\ \E name \in asked[a]..now : group' = name /\ Labels(a, name)
          /\ UNCHANGED faults
       \/ /\ faults < MaxFaults /\ faults' = faults + 1
          /\ Labels(a, None)
          /\ UNCHANGED group
    /\ UNCHANGED <<now, kept, told>>

\* Faulty variant: the name in the file goes before the one the event carries.
LabelKept == IF group # None THEN group ELSE now

\* A message of the group carries its name, which is the true one.
Label == now

\* The message is logged: its name of the group goes into the file.
Event ==
    /\ told # now
    /\ group' = Label
    /\ told' = now
    /\ UNCHANGED <<now, kept, at, asked, got, faults>>

Leave(a) ==
    /\ at[a] \in {"named", "labelled"}
    /\ at' = [at EXCEPT ![a] = "idle"]
    /\ got' = [got EXCEPT ![a] = None]
    /\ UNCHANGED <<now, kept, group, told, asked, faults>>

\* The caches are lost and the file is not.
Restart ==
    /\ faults < MaxFaults
    /\ faults' = faults + 1
    /\ kept' = [k \in Kinds |-> Nothing]
    /\ at' = [a \in Askers |-> "idle"]
    /\ got' = [a \in Askers |-> None]
    /\ asked' = [a \in Askers |-> 0]
    /\ UNCHANGED <<now, group, told>>

\* A call is over, one way or the other, by its timeout.
Waiting(a) == at[a] \in Kinds \cup {"group"}
Tick ==
    /\ now < MaxTime
    /\ \A a \in Askers : at[a] \notin {"named", "labelled"} /\ (Waiting(a) => now < asked[a] + Timeout)
    /\ now' = now + 1
    /\ UNCHANGED <<kept, group, told, at, asked, got, faults>>

Next ==
    \/ \E a \in Askers :
          \/ \E k \in Kinds : Ask(a, k) \/ Answer(a, k)
          \/ Fails(a) \/ AskGroup(a) \/ AnswerGroup(a) \/ Leave(a)
    \/ Event \/ Restart \/ Tick

Spec == Init /\ [][Next]_vars

-------------------------------------------------------------------------------

\* A member's or a stranger's name that is shown was the true one not longer ago than
\* names are kept and one call may take, whatever answers came late (handler.py:59-76, 455-481).
ShownIsRecent == \A a \in Askers :
    at[a] = "named" /\ got[a] # None => now < got[a] + Timeout + Expire

\* The name in the file is never more than one call behind the last event that carried
\* it: an answer on its way may still put an older one back (log_event.py:67-75).
GroupFollowsEvents == told # None => group # None /\ group + Timeout >= told

===============================================================================
