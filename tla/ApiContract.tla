---------------------------- MODULE ApiContract -----------------------------
(***************************************************************************)
(* What Bot.call_api (src/src/core/bot.py) promises a plugin: a call that  *)
(* was made ends exactly once; it reports success or failure only when the *)
(* peer has answered so, and otherwise it reports a timeout or an error.   *)
(* How sockets, futures, echoes and locks achieve it is in ApiCalls.       *)
(***************************************************************************)
CONSTANT Calls   \* the API calls

VARIABLES
    status,      \* "idle", "open", or how the call ended
    heard        \* <<call, ok>>: answers that came back for the call

vars == <<status, heard>>

Ends == {"ok", "failed", "timeout", "error"}

TypeOK ==
    /\ status \in [Calls -> {"idle", "open"} \cup Ends]
    /\ heard \in SUBSET (Calls \X BOOLEAN)

Init ==
    /\ status = [c \in Calls |-> "idle"]
    /\ heard = {}

\* A call on a bot that is known to be closed is refused at once.
Begin(c) ==
    /\ status[c] = "idle"
    /\ status' \in {[status EXCEPT ![c] = "open"], [status EXCEPT ![c] = "error"]}
    /\ UNCHANGED heard

Hear(c, ok) ==
    /\ status[c] # "idle"
    /\ heard' = heard \cup {<<c, ok>>}
    /\ UNCHANGED status

End(c, how) ==
    /\ status[c] = "open"
    /\ how \in {"ok", "failed"} => <<c, how = "ok">> \in heard
    /\ status' = [status EXCEPT ![c] = how]
    /\ UNCHANGED heard

Next ==
    \E c \in Calls :
        \/ Begin(c)
        \/ \E ok \in BOOLEAN : Hear(c, ok)
        \/ \E how \in Ends : End(c, how)

SafeSpec == Init /\ [][Next]_vars

Spec == SafeSpec /\ \A c \in Calls : WF_vars(\E how \in Ends : End(c, how))
=============================================================================
