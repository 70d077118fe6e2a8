----------------------------- MODULE GroupSwitches -----------------------------
(***************************************************************************)
(* The services of the bot per group (GroupWhiteList and GroupBlackList in *)
(* src/src/utils/handler.py): a white list is off for every group it does  *)
(* not hold, a black one on.  An administrator of the bot switches a       *)
(* service with a command that may wait for the list of the groups; the    *)
(* lists are keys of one FileDB, which is saved as a whole and whose save  *)
(* may fail.  A group may be in a list as a number or, in an older file,   *)
(* as a text.                                                              *)
(*                                                                         *)
(* No plugin gives a list a function to call when it is switched.          *)
(***************************************************************************)
EXTENDS FiniteSets, Naturals

CONSTANTS
    Tasks,          \* the tasks that run a command
    White, Black,   \* the names of the services
    Groups,
    MaxFaults       \* bound: saves that fail and restarts that are explored

\* What the constants are taken to be.
SwitchAssumption == White \cup Black # {} /\ Groups # {} /\ MaxFaults \in Nat

Lists == White \cup Black
Entries == Groups \X {"number", "text"}
Commands == {"on", "off", "status"}

VARIABLES
    task,           \* task[t]: the command of the task t, or that it has none
    list,           \* list[l]: the entries of the list l in memory
    saved,          \* the same in the file
    told,           \* history: told[l][g]: what the last reply said of the service
    lost,           \* history: a restart found a file without the last change
    faults

vars == <<task, list, saved, told, lost, faults>>

Free == [at |-> "free", command |-> "status", name |-> CHOOSE l \in Lists : TRUE,
         group |-> CHOOSE g \in Groups : TRUE]

\* The invariant on types: what each variable may hold.
TypeOK ==
    /\ task \in [Tasks -> [at: {"free", "groups"}, command: Commands, name: Lists, group: Groups]]
    /\ {list, saved} \subseteq [Lists -> SUBSET Entries]
    /\ told \in [Lists -> [Groups -> {"nothing", "on", "off"}]]
    /\ lost \in BOOLEAN
    /\ faults \in 0..MaxFaults

Init ==
    /\ task = [t \in Tasks |-> Free]
    /\ saved \in [Lists -> SUBSET Entries]
    /\ list = saved
    /\ told = [l \in Lists |-> [g \in Groups |-> "nothing"]]
    /\ lost = FALSE
    /\ faults = 0

Holds(l, g) == \E e \in list[l] : e[1] = g
\* check_id: whether the service is on in a group.
On(l, g) == IF l \in White THEN Holds(l, g) ELSE ~Holds(l, g)
Said(on) == IF on THEN "on" ELSE "off"

\* Faulty variant: only an entry kept as a number is removed.
RemovedNumber(l, g) == list[l] \ {<<g, "number">>}

\* What a switch leaves of a list: an entry is added as a number, and every form of the
\* group is removed.
Added(l, g) == list[l] \cup {<<g, "number">>}
Removed(l, g) == {e \in list[l] : e[1] # g}

\* The command is done in one step: a reply without a change, or the list changed in
\* memory and the file saved, which may fail before the reply.
Tell(l, g, what) == told' = [told EXCEPT ![l][g] = what]

Done(l, g, command) ==
    \/ /\ command = "status" \/ Said(On(l, g)) = command
       /\ Tell(l, g, Said(On(l, g)))
       /\ UNCHANGED <<list, saved, faults>>
    \/ /\ command # "status" /\ Said(On(l, g)) # command
       /\ list' = [list EXCEPT ![l] =
              IF (command = "on") = (l \in White) THEN Added(l, g) ELSE Removed(l, g)]
       /\ \/ saved' = list' /\ Tell(l, g, command) /\ UNCHANGED faults
          \/ /\ faults < MaxFaults /\ faults' = faults + 1
             /\ Tell(l, g, "nothing") /\ UNCHANGED saved

\* In a group the command is about that group and does not wait; with a number it first
\* asks for the groups the bot is in.
Command(t, l, g, command) ==
    /\ task[t].at = "free"
    /\ \/ Done(l, g, command) /\ UNCHANGED task
       \/ /\ task' = [task EXCEPT ![t] = [at |-> "groups", command |-> command, name |-> l, group |-> g]]
          /\ UNCHANGED <<list, saved, told, faults>>
    /\ UNCHANGED lost

GroupsKnown(t) ==
    /\ task[t].at = "groups"
    /\ task' = [task EXCEPT ![t] = Free]
    /\ \/ Done(task[t].name, task[t].group, task[t].command)
       \/ UNCHANGED <<list, saved, told, faults>>        \* the bot is not in that group
    /\ UNCHANGED lost

Restart ==
    /\ faults < MaxFaults
    /\ faults' = faults + 1
    /\ task' = [t \in Tasks |-> Free]
    /\ list' = saved
    /\ lost' = (lost \/ list # saved)
    /\ UNCHANGED <<saved, told>>

Next ==
    \/ \E t \in Tasks, l \in Lists, g \in Groups, c \in Commands : Command(t, l, g, c)
    \/ \E t \in Tasks : GroupsKnown(t)
    \/ Restart

Spec == Init /\ [][Next]_vars

-------------------------------------------------------------------------------

\* What the last reply said of a service in a group is so, however the group is written
\* in the file, whichever commands waited meanwhile and across a restart, unless the
\* restart lost a change whose save had failed (handler.py:839-866, 893-914, 996-1020).
ToldIsSo == \A l \in Lists, g \in Groups :
    told[l][g] # "nothing" /\ ~lost => Said(On(l, g)) = told[l][g]

===============================================================================
