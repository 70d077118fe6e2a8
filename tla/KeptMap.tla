------------------------------- MODULE KeptMap -------------------------------
(***************************************************************************)
(* What a JSON file of the bot promises (src/src/core/store.py): the map   *)
(* in memory is saved as a whole or not at all, a restart finds the map    *)
(* that was saved last, and a loss of power one that was saved before.     *)
(***************************************************************************)
CONSTANTS Keys, Values

VARIABLES
    wanted,         \* the map in memory, or what it will be when loaded
    saved,          \* the map a restart finds
    past            \* the maps a loss of power may leave behind

vars == <<wanted, saved, past>>

Maps == [Keys -> Values]

TypeOK == wanted \in Maps /\ saved \in past /\ past \subseteq Maps

Init == wanted \in Maps /\ saved = wanted /\ past = {wanted}

Change(k, v) == wanted' = [wanted EXCEPT ![k] = v] /\ UNCHANGED <<saved, past>>

Save == saved' = wanted /\ past' = past \cup {wanted} /\ UNCHANGED wanted

Flush == past' = {saved} /\ UNCHANGED <<wanted, saved>>

Restart == wanted' = saved /\ UNCHANGED <<saved, past>>

PowerLoss == saved' \in past /\ past' = {saved'} /\ wanted' = saved'

Next ==
    \/ Save \/ Flush \/ Restart \/ PowerLoss
    \/ \E k \in Keys, v \in Values : Change(k, v)

Spec == Init /\ [][Next]_vars

=============================================================================
