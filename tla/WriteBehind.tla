----------------------------- MODULE WriteBehind ----------------------------
(***************************************************************************)
(* What the LLM call log (src/src/llm/sql.py) promises: a recorded call is *)
(* in memory at once and on disk later; the disk always holds a prefix of  *)
(* what was recorded, in that order and each call once; and only the end   *)
(* of the process loses calls, those that were not on disk yet.            *)
(***************************************************************************)
EXTENDS Naturals, Sequences

CONSTANT Calls   \* the recorded calls

VARIABLES
    log,         \* the calls recorded and not lost
    stored       \* those of them that are on disk

vars == <<log, stored>>

TypeOK == log \in Seq(Calls) /\ stored \in Seq(Calls)

Init == log = <<>> /\ stored = <<>>

Record(c) == log' = Append(log, c) /\ UNCHANGED stored

Store ==
    /\ \E n \in Len(stored) .. Len(log) : stored' = SubSeq(log, 1, n)
    /\ UNCHANGED log

Crash == log' = stored /\ UNCHANGED stored

Next == Store \/ Crash \/ \E c \in Calls : Record(c)

Spec == Init /\ [][Next]_vars
=============================================================================
