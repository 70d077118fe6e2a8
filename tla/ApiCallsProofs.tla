---------------------------- MODULE ApiCallsProofs ----------------------------
(***************************************************************************)
(* Safety of ApiCalls for any sets of bots and calls, and the proof that   *)
(* its steps are steps of ApiContract.  The argument: the echo of a call   *)
(* is in the table of its own bot exactly while the call is open there     *)
(* (PendingIsUnfinished).  So close reaches every open call of the bot,    *)
(* an answer can only end up in the future of a call made on the           *)
(* connection it came over, and what wait_for returns has been heard.      *)
(***************************************************************************)
EXTENDS ApiCalls, TLAPS

\* A call has a bot from its first step, and its future is pending only while
\* the call is open.
CallsHaveTheirState ==
    \A c \in Calls :
        /\ call[c] = "idle" <=> target[c] = NoBot
        /\ call[c] = "idle" => fut[c] = "none"
        /\ fut[c] = "pending" => call[c] \in Open
        /\ call[c] # "done" => outcome[c] = "none"

\* A future holds an answer only after that answer came over the call's bot.
AnswersAreHeard ==
    \A c \in Calls :
        fut[c] \in {"ok", "failed"} => <<c, fut[c] = "ok">> \in heard

\* The inductive invariant.
IInv ==
    /\ TypeOK
    /\ CallsHaveTheirState
    /\ PendingIsUnfinished
    /\ ClosedBotAwaitsNothing
    /\ AnswersAreHeard
    /\ OutcomeWasAnswered

LEMMA InvInit == Init => IInv
BY ApiAssumption DEF Init, IInv, TypeOK, CallsHaveTheirState, PendingIsUnfinished,
   ClosedBotAwaitsNothing, AnswersAreHeard, OutcomeWasAnswered, Open, Sending

\* How a call ends, whatever ends it: of the actions that call Finish, only
\* Resume passes on an answer, and the one its future holds.
Ending(c) ==
    \E how \in {"ok", "failed", "timeout", "error"} :
        /\ call[c] \in Open
        /\ how \in {"ok", "failed"} => fut[c] = how
        /\ Finish(c, how)
        /\ sendq' \in [Bots -> Seq(Calls)]

LEMMA EndingCases ==
    ASSUME TypeOK, CallsHaveTheirState, NEW c \in Calls,
           SendFails(c) \/ Resume(c) \/ TimeOut(c)
    PROVE  Ending(c)
<1> USE ApiAssumption
<1>1. CASE SendFails(c)
  <2>1. call[c] \in Open /\ target[c] \in Bots
    BY <1>1 DEF SendFails, Open, Sending, CallsHaveTheirState, TypeOK
  <2>2. Tail(sendq[target[c]]) \in Seq(Calls)
    BY <1>1, <2>1 DEF SendFails, HoldsLock, TypeOK
  <2>3. sendq' \in [Bots -> Seq(Calls)]
    BY <1>1, <2>1, <2>2 DEF SendFails, TypeOK
  <2> QED
    BY <1>1, <2>1, <2>3 DEF SendFails, Ending
<1>2. CASE Resume(c)
  <2>1. call[c] \in Open /\ sendq' \in [Bots -> Seq(Calls)]
    BY <1>2 DEF Resume, Open, TypeOK
  <2>2. CASE fut[c] = "exc"
    BY <1>2, <2>1, <2>2 DEF Resume, Ending
  <2>3. CASE fut[c] \in {"ok", "failed"}
    BY <1>2, <2>1, <2>3 DEF Resume, Ending
  <2> QED
    BY <1>2, <2>2, <2>3 DEF Resume
<1>3. CASE TimeOut(c)
  BY <1>3 DEF TimeOut, Ending, Open, TypeOK
<1> QED
  BY <1>1, <1>2, <1>3

LEMMA TypeStep ==
    ASSUME TypeOK, CallsHaveTheirState, [Next]_vars
    PROVE  TypeOK'
<1> USE ApiAssumption DEF TypeOK, Open, Sending
<1>1. ASSUME NEW c \in Calls, NEW b \in Bots, Begin(c, b)
      PROVE  TypeOK'
  <2>1. sendq[b] \in Seq(Calls)
    OBVIOUS
  <2>2. Append(sendq[b], c) \in Seq(Calls)
    BY <2>1
  <2>3. sendq' \in [Bots -> Seq(Calls)]
    BY <1>1, <2>2 DEF Begin
  <2>4. CASE closed[b]
    BY <1>1, <2>3, <2>4 DEF Begin, botVars
  <2>5. CASE ~closed[b]
    <3>1. pending' = [pending EXCEPT ![b] = pending[b] \cup {c}]
      BY <1>1, <2>5 DEF Begin
    <3>2. pending' \in [Bots -> SUBSET Calls]
      BY <3>1
    <3> QED
      BY <1>1, <2>3, <2>5, <3>2 DEF Begin, botVars
  <2> QED
    BY <2>4, <2>5
<1>2. ASSUME NEW c \in Calls, NEW b \in Bots, NEW ok \in BOOLEAN, Answer(b, c, ok)
      PROVE  TypeOK'
  BY <1>2 DEF Answer, botVars
<1>3. ASSUME NEW c \in Calls, Write(c)
      PROVE  TypeOK'
  BY <1>3 DEF Write, botVars
<1>4. ASSUME NEW c \in Calls, Drain(c)
      PROVE  TypeOK'
  <2>1. Tail(sendq[target[c]]) \in Seq(Calls)
    BY <1>4 DEF Drain, HoldsLock, CallsHaveTheirState
  <2> QED
    BY <1>4, <2>1 DEF Drain, botVars
<1>5. ASSUME NEW c \in Calls, Ending(c)
      PROVE  TypeOK'
  <2>1. PICK how \in {"ok", "failed", "timeout", "error"} : Finish(c, how)
    BY <1>5 DEF Ending
  <2>2. target[c] \in Bots
    BY <1>5 DEF Ending, CallsHaveTheirState
  <2>3. pending' \in [Bots -> SUBSET Calls]
    BY <2>1, <2>2 DEF Finish
  <2>4. fut' \in [Calls -> {"none", "pending", "ok", "failed", "exc", "cancelled"}]
    BY <2>1 DEF Finish
  <2>5. /\ call' \in [Calls -> {"idle", "done"} \cup Open]
        /\ outcome' \in [Calls -> {"none", "ok", "failed", "timeout", "error"}]
    BY <2>1 DEF Finish
  <2> QED
    BY <1>5, <2>1, <2>3, <2>4, <2>5 DEF Ending, Finish, botVars
<1>6. ASSUME NEW b \in Bots, LinkEnds(b)
      PROVE  TypeOK'
  BY <1>6 DEF LinkEnds, callVars
<1>7. ASSUME NEW b \in Bots, Close(b)
      PROVE  TypeOK'
  BY <1>7 DEF Close
<1>8. CASE UNCHANGED vars
  BY <1>8 DEF vars, botVars, callVars
<1> QED
  BY <1>1, <1>2, <1>3, <1>4, <1>5, <1>6, <1>7, <1>8, EndingCases DEF Next

LEMMA StateStep ==
    ASSUME TypeOK, CallsHaveTheirState, [Next]_vars
    PROVE  CallsHaveTheirState'
<1> USE ApiAssumption DEF TypeOK, CallsHaveTheirState, Open, Sending
<1>1. ASSUME NEW c \in Calls, NEW b \in Bots, Begin(c, b)
      PROVE  CallsHaveTheirState'
  BY <1>1 DEF Begin
<1>2. ASSUME NEW c \in Calls, NEW b \in Bots, NEW ok \in BOOLEAN, Answer(b, c, ok)
      PROVE  CallsHaveTheirState'
  BY <1>2 DEF Answer
<1>3. ASSUME NEW c \in Calls, Write(c)
      PROVE  CallsHaveTheirState'
  BY <1>3 DEF Write
<1>4. ASSUME NEW c \in Calls, Drain(c)
      PROVE  CallsHaveTheirState'
  BY <1>4 DEF Drain
<1>5. ASSUME NEW c \in Calls, Ending(c)
      PROVE  CallsHaveTheirState'
  BY <1>5 DEF Ending, Finish
<1>6. ASSUME NEW b \in Bots, LinkEnds(b)
      PROVE  CallsHaveTheirState'
  BY <1>6 DEF LinkEnds, callVars
<1>7. ASSUME NEW b \in Bots, Close(b)
      PROVE  CallsHaveTheirState'
  BY <1>7 DEF Close
<1>8. CASE UNCHANGED vars
  BY <1>8 DEF vars, callVars
<1> QED
  BY <1>1, <1>2, <1>3, <1>4, <1>5, <1>6, <1>7, <1>8, EndingCases DEF Next

\* Whatever opens, ends or closes, it keeps the table of a bot equal to its
\* open calls.
LEMMA PendingStep ==
    ASSUME TypeOK, CallsHaveTheirState, PendingIsUnfinished, [Next]_vars
    PROVE  PendingIsUnfinished'
<1> USE ApiAssumption DEF TypeOK, PendingIsUnfinished, Open, Sending
<1>1. ASSUME NEW c \in Calls, NEW b \in Bots, Begin(c, b)
      PROVE  PendingIsUnfinished'
  <2>1. CASE closed[b]
    BY <1>1, <2>1 DEF Begin, botVars, CallsHaveTheirState
  <2>2. CASE ~closed[b]
    BY <1>1, <2>2 DEF Begin, botVars, CallsHaveTheirState
  <2> QED
    BY <2>1, <2>2
<1>2. ASSUME NEW c \in Calls, NEW b \in Bots, NEW ok \in BOOLEAN, Answer(b, c, ok)
      PROVE  PendingIsUnfinished'
  BY <1>2 DEF Answer, botVars
<1>3. ASSUME NEW c \in Calls, Write(c)
      PROVE  PendingIsUnfinished'
  BY <1>3 DEF Write, botVars
<1>4. ASSUME NEW c \in Calls, Drain(c)
      PROVE  PendingIsUnfinished'
  BY <1>4 DEF Drain, botVars
<1>5. ASSUME NEW c \in Calls, Ending(c)
      PROVE  PendingIsUnfinished'
  BY <1>5 DEF Ending, Finish, botVars
<1>6. ASSUME NEW b \in Bots, LinkEnds(b)
      PROVE  PendingIsUnfinished'
  BY <1>6 DEF LinkEnds, callVars
<1>7. ASSUME NEW b \in Bots, Close(b)
      PROVE  PendingIsUnfinished'
  BY <1>7 DEF Close
<1>8. CASE UNCHANGED vars
  BY <1>8 DEF vars, callVars, botVars
<1> QED
  BY <1>1, <1>2, <1>3, <1>4, <1>5, <1>6, <1>7, <1>8, EndingCases DEF Next

\* Close fails every pending future: they all belong to calls in the table.
LEMMA ClosedStep ==
    ASSUME TypeOK, CallsHaveTheirState, PendingIsUnfinished, ClosedBotAwaitsNothing,
           [Next]_vars
    PROVE  ClosedBotAwaitsNothing'
<1> USE ApiAssumption DEF TypeOK, ClosedBotAwaitsNothing
<1>1. ASSUME NEW c \in Calls, NEW b \in Bots, Begin(c, b)
      PROVE  ClosedBotAwaitsNothing'
  <2>1. CASE closed[b]
    BY <1>1, <2>1 DEF Begin, botVars, CallsHaveTheirState
  <2>2. CASE ~closed[b]
    BY <1>1, <2>2 DEF Begin, botVars
  <2> QED
    BY <2>1, <2>2
<1>2. ASSUME NEW c \in Calls, NEW b \in Bots, NEW ok \in BOOLEAN, Answer(b, c, ok)
      PROVE  ClosedBotAwaitsNothing'
  BY <1>2 DEF Answer, botVars
<1>3. ASSUME NEW c \in Calls, Write(c)
      PROVE  ClosedBotAwaitsNothing'
  BY <1>3 DEF Write, botVars
<1>4. ASSUME NEW c \in Calls, Drain(c)
      PROVE  ClosedBotAwaitsNothing'
  BY <1>4 DEF Drain, botVars
<1>5. ASSUME NEW c \in Calls, Ending(c)
      PROVE  ClosedBotAwaitsNothing'
  BY <1>5 DEF Ending, Finish, botVars
<1>6. ASSUME NEW b \in Bots, LinkEnds(b)
      PROVE  ClosedBotAwaitsNothing'
  BY <1>6 DEF LinkEnds, callVars
<1>7. ASSUME NEW b \in Bots, Close(b)
      PROVE  ClosedBotAwaitsNothing'
  <2>1. \A c \in Calls : target[c] = b /\ fut[c] = "pending" => c \in pending[b]
    BY <1>7 DEF Close, CallsHaveTheirState, PendingIsUnfinished
  <2> QED
    BY <1>7, <2>1 DEF Close
<1>8. CASE UNCHANGED vars
  BY <1>8 DEF vars, callVars, botVars
<1> QED
  BY <1>1, <1>2, <1>3, <1>4, <1>5, <1>6, <1>7, <1>8, EndingCases DEF Next

\* deliver takes an answer only from the table of the bot it came over, so the
\* future it fills belongs to a call made on that bot; and call_api ends with
\* the answer its future holds.
LEMMA AnswerStep ==
    ASSUME TypeOK, PendingIsUnfinished, AnswersAreHeard, OutcomeWasAnswered,
           CallsHaveTheirState, [Next]_vars
    PROVE  AnswersAreHeard' /\ OutcomeWasAnswered'
<1> USE ApiAssumption DEF TypeOK, AnswersAreHeard, OutcomeWasAnswered
<1>1. ASSUME NEW c \in Calls, NEW b \in Bots, Begin(c, b)
      PROVE  AnswersAreHeard' /\ OutcomeWasAnswered'
  BY <1>1, ZenonT(60) DEF Begin
<1>2. ASSUME NEW c \in Calls, NEW b \in Bots, NEW ok \in BOOLEAN, Answer(b, c, ok)
      PROVE  AnswersAreHeard' /\ OutcomeWasAnswered'
  <2>1. heard \subseteq heard' /\ UNCHANGED outcome
    BY <1>2 DEF Answer
  <2>2. CASE Delivers(b, c) /\ fut[c] = "pending"
    <3>1. target[c] = b
      BY <2>2 DEF Delivers, PendingIsUnfinished
    <3>2. <<c, ok>> \in heard'
      BY <1>2, <3>1 DEF Answer
    <3>3. fut' = [fut EXCEPT ![c] = IF ok THEN "ok" ELSE "failed"]
      BY <1>2, <2>2 DEF Answer
    <3> QED
      BY <2>1, <3>2, <3>3
  <2>3. CASE ~(Delivers(b, c) /\ fut[c] = "pending")
    BY <1>2, <2>1, <2>3 DEF Answer
  <2> QED
    BY <2>2, <2>3
<1>3. ASSUME NEW c \in Calls, Write(c)
      PROVE  AnswersAreHeard' /\ OutcomeWasAnswered'
  BY <1>3 DEF Write
<1>4. ASSUME NEW c \in Calls, Drain(c)
      PROVE  AnswersAreHeard' /\ OutcomeWasAnswered'
  BY <1>4 DEF Drain
<1>5. ASSUME NEW c \in Calls, Ending(c)
      PROVE  AnswersAreHeard' /\ OutcomeWasAnswered'
  BY <1>5 DEF Ending, Finish
<1>6. ASSUME NEW b \in Bots, LinkEnds(b)
      PROVE  AnswersAreHeard' /\ OutcomeWasAnswered'
  BY <1>6 DEF LinkEnds, callVars
<1>7. ASSUME NEW b \in Bots, Close(b)
      PROVE  AnswersAreHeard' /\ OutcomeWasAnswered'
  BY <1>7 DEF Close
<1>8. CASE UNCHANGED vars
  BY <1>8 DEF vars, callVars, botVars
<1> HIDE DEF TypeOK, AnswersAreHeard, OutcomeWasAnswered
<1> QED
  BY <1>1, <1>2, <1>3, <1>4, <1>5, <1>6, <1>7, <1>8, EndingCases DEF Next

LEMMA InvStep == IInv /\ [Next]_vars => IInv'
<1> SUFFICES ASSUME IInv, [Next]_vars PROVE IInv'
  OBVIOUS
<1>1. TypeOK'
  BY TypeStep DEF IInv
<1>2. CallsHaveTheirState'
  BY StateStep DEF IInv
<1>3. PendingIsUnfinished'
  BY PendingStep DEF IInv
<1>4. ClosedBotAwaitsNothing'
  BY ClosedStep DEF IInv
<1>5. AnswersAreHeard' /\ OutcomeWasAnswered'
  BY AnswerStep DEF IInv
<1> QED
  BY <1>1, <1>2, <1>3, <1>4, <1>5 DEF IInv

-----------------------------------------------------------------------------
(***************************************************************************)
(* The theorems.                                                           *)
(***************************************************************************)

\* IInv holds in every reachable state.
THEOREM Invariant == Spec => []IInv
BY InvInit, InvStep, PTL DEF Spec

\* Every variable of ApiCalls keeps its type.
THEOREM TypeCorrect == Spec => []TypeOK
<1>1. IInv => TypeOK
  BY DEF IInv
<1> QED
  BY <1>1, Invariant, PTL

\* Bot._pending holds the echo of a call exactly while the call is open on a
\* bot that is not closed.
THEOREM PendingUnfinished == Spec => []PendingIsUnfinished
<1>1. IInv => PendingIsUnfinished
  BY DEF IInv
<1> QED
  BY <1>1, Invariant, PTL

\* Bot.close leaves no call of the bot waiting for an answer.
THEOREM ClosedAwaitsNothing == Spec => []ClosedBotAwaitsNothing
<1>1. IInv => ClosedBotAwaitsNothing
  BY DEF IInv
<1> QED
  BY <1>1, Invariant, PTL

\* call_api reports only what was answered on the connection of the call.
THEOREM OutcomeAnswered == Spec => []OutcomeWasAnswered
<1>1. IInv => OutcomeWasAnswered
  BY DEF IInv
<1> QED
  BY <1>1, Invariant, PTL

-----------------------------------------------------------------------------
(***************************************************************************)
(* ApiCalls implements the safety part of ApiContract.                     *)
(***************************************************************************)

\* The status of a call in the contract.
Status == [c \in Calls |-> IF call[c] \in Open THEN "open"
                           ELSE IF call[c] = "done" THEN outcome[c]
                           ELSE "idle"]

\* A step that leaves calls open, ended and heard as they are is a stutter.
LEMMA Stutter ==
    ASSUME UNCHANGED <<outcome, heard>>,
           \A c \in Calls : call'[c] = call[c] \/ {call[c], call'[c]} \subseteq Open
    PROVE  UNCHANGED Contract!vars
<1>1. ASSUME NEW c \in Calls
      PROVE  (IF call'[c] \in Open THEN "open"
              ELSE IF call'[c] = "done" THEN outcome'[c] ELSE "idle")
             = (IF call[c] \in Open THEN "open"
                ELSE IF call[c] = "done" THEN outcome[c] ELSE "idle")
  <2>1. CASE call'[c] = call[c]
    BY <2>1
  <2>2. CASE {call[c], call'[c]} \subseteq Open
    BY <2>2
  <2> QED
    BY <2>1, <2>2
<1> QED
  BY <1>1 DEF Contract!vars

\* Every step of ApiCalls is a step of the contract or a stutter.
LEMMA StepImplements == IInv /\ [Next]_vars => [Contract!Next]_(Contract!vars)
<1> SUFFICES ASSUME IInv, [Next]_vars PROVE [Contract!Next]_(Contract!vars)
  OBVIOUS
<1> USE ApiAssumption
<1>0. TypeOK /\ CallsHaveTheirState
  BY DEF IInv
<1>1. ASSUME NEW c \in Calls, NEW b \in Bots, Begin(c, b)
      PROVE  Contract!Begin(c)
  <2>1. Status[c] = "idle" /\ UNCHANGED heard
    BY <1>1 DEF Begin, Status, Open, Sending
  <2>2. CASE closed[b]
    <3>1. call' = [call EXCEPT ![c] = "done"] /\ outcome' = [outcome EXCEPT ![c] = "error"]
      BY <1>1, <2>2 DEF Begin
    <3>2. Status' = [Status EXCEPT ![c] = "error"]
      BY <1>0, <3>1 DEF Status, TypeOK, Open, Sending
    <3> QED
      BY <2>1, <3>2 DEF Contract!Begin, Status
  <2>3. CASE ~closed[b]
    <3>1. call' = [call EXCEPT ![c] = "queued"] /\ UNCHANGED outcome
      BY <1>1, <2>3 DEF Begin
    <3>2. Status' = [Status EXCEPT ![c] = "open"]
      BY <1>0, <3>1 DEF Status, TypeOK, Open, Sending
    <3> QED
      BY <2>1, <3>2 DEF Contract!Begin, Status
  <2> QED
    BY <2>2, <2>3
<1>2. ASSUME NEW c \in Calls, NEW b \in Bots, NEW ok \in BOOLEAN, Answer(b, c, ok)
      PROVE  Contract!Hear(c, ok) \/ UNCHANGED Contract!vars
  <2>1. UNCHANGED <<call, outcome>>
    BY <1>2 DEF Answer
  <2>2. UNCHANGED Status
    BY <2>1 DEF Status
  <2>3. CASE target[c] = b
    <3>1. call[c] # "idle"
      BY <1>0, <2>3 DEF CallsHaveTheirState
    <3>2. Status[c] # "idle"
      BY <1>0, <3>1 DEF Status, TypeOK
    <3>3. heard' = heard \cup {<<c, ok>>}
      BY <1>2, <2>3 DEF Answer
    <3> QED
      BY <2>2, <3>2, <3>3 DEF Contract!Hear, Status
  <2>4. CASE target[c] # b
    BY <1>2, <2>1, <2>4, Stutter DEF Answer
  <2> QED
    BY <2>3, <2>4
<1>3. ASSUME NEW c \in Calls, Write(c) \/ Drain(c)
      PROVE  UNCHANGED Contract!vars
  <2>1. UNCHANGED <<outcome, heard>>
    BY <1>3 DEF Write, Drain
  <2>2. \A d \in Calls : call'[d] = call[d] \/ {call[d], call'[d]} \subseteq Open
    BY <1>0, <1>3 DEF Write, Drain, TypeOK, Open, Sending
  <2> QED
    BY <2>1, <2>2, Stutter
<1>4. ASSUME NEW c \in Calls, Ending(c)
      PROVE  \E how \in Contract!Ends : Contract!End(c, how)
  <2>1. PICK how \in {"ok", "failed", "timeout", "error"} :
          /\ call[c] \in Open
          /\ how \in {"ok", "failed"} => fut[c] = how
          /\ Finish(c, how)
    BY <1>4 DEF Ending
  <2>2. Status[c] = "open" /\ UNCHANGED heard
    BY <2>1 DEF Status, Finish
  <2>3. how \in {"ok", "failed"} => <<c, how = "ok">> \in heard
    BY <2>1 DEF IInv, AnswersAreHeard
  <2>4. call' = [call EXCEPT ![c] = "done"] /\ outcome' = [outcome EXCEPT ![c] = how]
    BY <2>1 DEF Finish
  <2>5. Status' = [Status EXCEPT ![c] = how]
    BY <1>0, <2>4 DEF Status, TypeOK, Open, Sending
  <2>6. Contract!End(c, how)
    BY <2>2, <2>3, <2>5 DEF Contract!End, Status
  <2> QED
    BY <2>6 DEF Contract!Ends
<1>5. ASSUME NEW b \in Bots, LinkEnds(b) \/ Close(b)
      PROVE  UNCHANGED Contract!vars
  BY <1>5, Stutter DEF LinkEnds, Close, callVars
<1>6. CASE UNCHANGED vars
  BY <1>6, Stutter DEF vars, callVars
<1> QED
  BY <1>0, <1>1, <1>2, <1>3, <1>4, <1>5, <1>6, EndingCases DEF Next, Contract!Next

\* However its future, lock and echo are handled, call_api keeps the safety
\* part of its contract.
THEOREM Implements == Spec => Contract!SafeSpec
<1>1. Init => Contract!Init
  BY DEF Init, Contract!Init, Open, Sending
<1> QED
  BY <1>1, StepImplements, Invariant, PTL DEF Spec, Contract!SafeSpec

-----------------------------------------------------------------------------
(***************************************************************************)
(* The send lock.  A lock queue holds exactly the calls of its bot that    *)
(* are still sending, each once, and the one inside ws.send in front.      *)
(***************************************************************************)
Queued(c, b) == \E k \in 1..Len(sendq[b]) : sendq[b][k] = c

QueuesHoldSenders ==
    /\ \A b \in Bots, c \in Calls :
          Queued(c, b) <=> target[c] = b /\ call[c] \in Sending
    /\ \A b \in Bots : \A k, l \in 1..Len(sendq[b]) :
          sendq[b][k] = sendq[b][l] => k = l
    /\ \A c \in Calls : call[c] = "draining" => Head(sendq[target[c]]) = c

\* Appending to a queue and taking its head, as statements about its members.
LEMMA AppendMembers ==
    ASSUME NEW q \in Seq(Calls), NEW c \in Calls,
           \A k \in 1..Len(q) : q[k] # c,
           \A k, l \in 1..Len(q) : q[k] = q[l] => k = l
    PROVE  LET r == Append(q, c)
           IN  /\ \A d \in Calls : (\E k \in 1..Len(r) : r[k] = d)
                                     <=> d = c \/ \E k \in 1..Len(q) : q[k] = d
               /\ \A k, l \in 1..Len(r) : r[k] = r[l] => k = l
               /\ q # <<>> => Head(r) = Head(q)
<1> DEFINE r == Append(q, c)
<1>1. /\ Len(r) = Len(q) + 1
      /\ r[Len(r)] = c
      /\ \A k \in 1..Len(q) : r[k] = q[k]
  OBVIOUS
<1>2. Len(q) \in Nat
  OBVIOUS
<1>3. q # <<>> => Head(r) = Head(q)
  OBVIOUS
<1> HIDE DEF r
<1>4. \A k \in 1..Len(r) : k \in 1..Len(q) \/ k = Len(r)
  BY <1>1, <1>2
<1>5. 1..Len(q) \subseteq 1..Len(r) /\ Len(r) \in 1..Len(r)
  BY <1>1, <1>2
<1>6. \A d \in Calls : (\E k \in 1..Len(r) : r[k] = d)
                         <=> d = c \/ \E k \in 1..Len(q) : q[k] = d
  BY <1>1, <1>4, <1>5
<1>7. \A k, l \in 1..Len(r) : r[k] = r[l] => k = l
  BY <1>1, <1>4
<1> QED
  BY <1>3, <1>6, <1>7 DEF r

LEMMA TailMembers ==
    ASSUME NEW q \in Seq(Calls), NEW c \in Calls, q # <<>>, Head(q) = c,
           \A k, l \in 1..Len(q) : q[k] = q[l] => k = l
    PROVE  LET r == Tail(q)
           IN  /\ \A d \in Calls : (\E k \in 1..Len(r) : r[k] = d)
                                     <=> d # c /\ \E k \in 1..Len(q) : q[k] = d
               /\ \A k, l \in 1..Len(r) : r[k] = r[l] => k = l
<1> DEFINE r == Tail(q)
<1>1. /\ Len(q) \in Nat /\ Len(q) > 0
      /\ Len(r) = Len(q) - 1
      /\ q[1] = c
      /\ \A k \in 1..Len(r) : r[k] = q[k + 1]
  OBVIOUS
<1> HIDE DEF r
<1>2. \A k \in 1..Len(r) : k + 1 \in 1..Len(q) /\ k + 1 # 1
  BY <1>1
<1>3. \A k \in 1..Len(q) : k = 1 \/ k - 1 \in 1..Len(r)
  BY <1>1
<1>4. 1 \in 1..Len(q)
  BY <1>1
<1>5. ASSUME NEW d \in Calls
      PROVE  (\E k \in 1..Len(r) : r[k] = d) <=> d # c /\ \E k \in 1..Len(q) : q[k] = d
  <2>1. ASSUME NEW k \in 1..Len(r), r[k] = d
        PROVE  d # c /\ \E m \in 1..Len(q) : q[m] = d
    BY <1>1, <1>2, <1>4, <2>1
  <2>2. ASSUME d # c, NEW k \in 1..Len(q), q[k] = d
        PROVE  \E m \in 1..Len(r) : r[m] = d
    <3>1. k - 1 \in 1..Len(r) /\ (k - 1) + 1 = k
      BY <1>1, <1>3, <2>2
    <3>2. r[k - 1] = q[k]
      BY <1>1, <3>1
    <3> QED
      BY <2>2, <3>1, <3>2
  <2> QED
    BY <2>1, <2>2
<1>6. ASSUME NEW k \in 1..Len(r), NEW l \in 1..Len(r), r[k] = r[l]
      PROVE  k = l
  <2>1. q[k + 1] = q[l + 1]
    BY <1>1, <1>6
  <2>2. k + 1 = l + 1
    BY <1>2, <2>1
  <2> QED
    BY <2>2
<1> QED
  BY <1>5, <1>6 DEF r

\* The holder of the lock leaves the queue and is no longer sending.
Passes(c) ==
    /\ call[c] \in Sending /\ HoldsLock(c)
    /\ sendq' = [sendq EXCEPT ![target[c]] = Tail(@)]
    /\ UNCHANGED target
    /\ \E how \in {"waiting", "done"} : call' = [call EXCEPT ![c] = how]

LEMMA QueueStep ==
    ASSUME TypeOK, CallsHaveTheirState, QueuesHoldSenders, [Next]_vars
    PROVE  QueuesHoldSenders'
<1> USE ApiAssumption DEF Sending
<1>1. ASSUME NEW c \in Calls, NEW b \in Bots, Begin(c, b)
      PROVE  QueuesHoldSenders'
  <2>1. target[c] = NoBot /\ target' = [target EXCEPT ![c] = b]
    BY <1>1 DEF Begin, CallsHaveTheirState
  <2>2. \A a \in Bots : ~Queued(c, a)
    BY <2>1 DEF QueuesHoldSenders
  <2>3. CASE closed[b]
    <3>1. UNCHANGED sendq /\ call' = [call EXCEPT ![c] = "done"]
      BY <1>1, <2>3 DEF Begin
    <3> QED
      BY <2>1, <2>2, <3>1 DEF QueuesHoldSenders, Queued, TypeOK
  <2>4. CASE ~closed[b]
    <3> DEFINE q == sendq[b]
    <3>1. call' = [call EXCEPT ![c] = "queued"] /\ sendq' = [sendq EXCEPT ![b] = Append(q, c)]
      BY <1>1, <2>4 DEF Begin
    <3>2. /\ q \in Seq(Calls)
          /\ \A k \in 1..Len(q) : q[k] # c
          /\ \A k, l \in 1..Len(q) : q[k] = q[l] => k = l
      BY <2>2 DEF TypeOK, QueuesHoldSenders, Queued
    <3>3. /\ \A d \in Calls : Queued(d, b)' <=> d = c \/ Queued(d, b)
          /\ \A k, l \in 1..Len(sendq'[b]) : sendq'[b][k] = sendq'[b][l] => k = l
          /\ q # <<>> => Head(sendq'[b]) = Head(q)
      <4>1. sendq'[b] = Append(q, c)
        BY <3>1 DEF TypeOK
      <4> QED
        BY <3>2, <4>1, AppendMembers DEF Queued
    <3>4. \A a \in Bots \ {b} : sendq'[a] = sendq[a]
      BY <3>1 DEF TypeOK
    <3>5. \A a \in Bots, d \in Calls : Queued(d, a)' <=> target'[d] = a /\ call'[d] \in Sending
      <4> SUFFICES ASSUME NEW a \in Bots, NEW d \in Calls
                   PROVE  Queued(d, a)' <=> target'[d] = a /\ call'[d] \in Sending
        OBVIOUS
      <4>1. d # c => target'[d] = target[d] /\ call'[d] = call[d]
        BY <2>1, <3>1 DEF TypeOK
      <4>2. target'[c] = b /\ call'[c] = "queued"
        BY <2>1, <3>1 DEF TypeOK
      <4>3. a # b => (Queued(d, a)' <=> Queued(d, a))
        BY <3>4 DEF Queued
      <4>4. Queued(d, a) <=> target[d] = a /\ call[d] \in Sending
        BY DEF QueuesHoldSenders
      <4>5. CASE d = c
        BY <2>2, <3>3, <4>2, <4>3, <4>5
      <4>6. CASE d # c
        BY <3>3, <4>1, <4>3, <4>4, <4>6
      <4> QED
        BY <4>5, <4>6
    <3>6. ASSUME NEW d \in Calls, call'[d] = "draining"
          PROVE  Head(sendq'[target'[d]]) = d
      <4>1. d # c /\ call[d] = "draining" /\ target'[d] = target[d]
        BY <2>1, <3>1, <3>6 DEF TypeOK
      <4>2. target[d] \in Bots /\ Queued(d, target[d]) /\ Head(sendq[target[d]]) = d
        BY <4>1 DEF QueuesHoldSenders, CallsHaveTheirState, TypeOK
      <4>3. CASE target[d] = b
        <5>1. q # <<>>
          BY <3>2, <4>2, <4>3 DEF Queued
        <5> QED
          BY <3>3, <4>1, <4>2, <4>3, <5>1
      <4>4. CASE target[d] # b
        BY <3>4, <4>1, <4>2, <4>4
      <4> QED
        BY <4>3, <4>4
    <3>7. \A a \in Bots : \A k, l \in 1..Len(sendq'[a]) : sendq'[a][k] = sendq'[a][l] => k = l
      BY <3>3, <3>4 DEF QueuesHoldSenders
    <3> QED
      BY <3>5, <3>6, <3>7 DEF QueuesHoldSenders
  <2> QED
    BY <2>3, <2>4
<1>2. ASSUME NEW c \in Calls, Passes(c)
      PROVE  QueuesHoldSenders'
  <2>0. PICK b \in Bots : target[c] = b
    BY <1>2 DEF Passes, CallsHaveTheirState, TypeOK
  <2> DEFINE q == sendq[b]
  <2>1. q \in Seq(Calls) /\ q # <<>> /\ Head(q) = c
    BY <1>2, <2>0 DEF Passes, HoldsLock, TypeOK
  <2>2. \A k, l \in 1..Len(q) : q[k] = q[l] => k = l
    BY <2>1 DEF QueuesHoldSenders
  <2>3. /\ \A d \in Calls : Queued(d, b)' <=> d # c /\ Queued(d, b)
        /\ \A k, l \in 1..Len(sendq'[b]) : sendq'[b][k] = sendq'[b][l] => k = l
    <3>1. sendq'[b] = Tail(q)
      BY <1>2, <2>0 DEF Passes, TypeOK
    <3> QED
      BY <2>1, <2>2, <3>1, TailMembers DEF Queued
  <2>4. \A a \in Bots \ {b} : sendq'[a] = sendq[a]
    BY <1>2, <2>0 DEF Passes, TypeOK
  <2>5. /\ call'[c] \notin Sending
        /\ \A d \in Calls \ {c} : call'[d] = call[d]
        /\ UNCHANGED target
    BY <1>2 DEF Passes, TypeOK
  <2>6. \A a \in Bots, d \in Calls : Queued(d, a)' <=> target'[d] = a /\ call'[d] \in Sending
    <3> SUFFICES ASSUME NEW a \in Bots, NEW d \in Calls
                 PROVE  Queued(d, a)' <=> target'[d] = a /\ call'[d] \in Sending
      OBVIOUS
    <3>1. a # b => (Queued(d, a)' <=> Queued(d, a))
      BY <2>4 DEF Queued
    <3>2. Queued(d, a) <=> target[d] = a /\ call[d] \in Sending
      BY DEF QueuesHoldSenders
    <3>3. a = b => (Queued(d, a)' <=> d # c /\ Queued(d, a))
      BY <2>3
    <3> QED
      BY <2>0, <2>5, <3>1, <3>2, <3>3
  <2>7. ASSUME NEW d \in Calls, call'[d] = "draining"
        PROVE  Head(sendq'[target'[d]]) = d
    <3>1. d # c /\ call[d] = "draining" /\ target'[d] = target[d]
      BY <2>5, <2>7
    <3>2. target[d] \in Bots /\ Head(sendq[target[d]]) = d
      BY <3>1 DEF QueuesHoldSenders, CallsHaveTheirState, TypeOK
    <3>3. target[d] # b
      BY <2>1, <3>1, <3>2
    <3> QED
      BY <2>4, <3>1, <3>2, <3>3
  <2>8. \A a \in Bots : \A k, l \in 1..Len(sendq'[a]) : sendq'[a][k] = sendq'[a][l] => k = l
    BY <2>3, <2>4 DEF QueuesHoldSenders
  <2> QED
    BY <2>6, <2>7, <2>8 DEF QueuesHoldSenders
<1>3. ASSUME NEW c \in Calls, Drain(c) \/ SendFails(c)
      PROVE  QueuesHoldSenders'
  <2>1. Passes(c)
    BY <1>3 DEF Drain, SendFails, Finish, Passes
  <2> QED
    BY <2>1, <1>2
<1>4. ASSUME NEW c \in Calls, Write(c)
      PROVE  QueuesHoldSenders'
  BY <1>4 DEF Write, HoldsLock, QueuesHoldSenders, Queued, TypeOK
<1>5. ASSUME NEW c \in Calls, Resume(c) \/ TimeOut(c)
      PROVE  QueuesHoldSenders'
  <2>1. /\ UNCHANGED <<sendq, target>>
        /\ call[c] = "waiting"
        /\ call' = [call EXCEPT ![c] = "done"]
    BY <1>5 DEF Resume, TimeOut, Finish
  <2> QED
    BY <2>1 DEF QueuesHoldSenders, Queued, TypeOK
<1>6. CASE UNCHANGED <<sendq, target, call>>
  BY <1>6 DEF QueuesHoldSenders, Queued
<1>7. ASSUME NEW c \in Calls, NEW b \in Bots, NEW ok \in BOOLEAN, Answer(b, c, ok)
      PROVE  QueuesHoldSenders'
  BY <1>6, <1>7 DEF Answer
<1>8. ASSUME NEW b \in Bots, LinkEnds(b) \/ Close(b)
      PROVE  QueuesHoldSenders'
  BY <1>6, <1>8 DEF LinkEnds, Close, callVars
<1>9. CASE UNCHANGED vars
  BY <1>6, <1>9 DEF vars, callVars
<1> QED
  BY <1>1, <1>3, <1>4, <1>5, <1>7, <1>8, <1>9 DEF Next

\* At most one call of a bot is inside ws.send, and every sender is in the
\* queue of its bot, for any number of concurrent calls.
THEOREM OneSender == Spec => []OneSenderPerBot
<1>1. Init => QueuesHoldSenders
  BY ApiAssumption DEF Init, QueuesHoldSenders, Queued, Sending
<1>2. IInv /\ QueuesHoldSenders /\ [Next]_vars => QueuesHoldSenders'
  BY QueueStep DEF IInv
<1>3. IInv /\ QueuesHoldSenders => OneSenderPerBot
  <2> SUFFICES ASSUME TypeOK, CallsHaveTheirState, QueuesHoldSenders, NEW c \in Calls
               PROVE  /\ call[c] = "draining" => Head(sendq[target[c]]) = c
                      /\ call[c] \in Sending <=>
                           target[c] # NoBot /\ Queued(c, target[c])
    BY DEF IInv, OneSenderPerBot, Queued
  <2> QED
    BY ApiAssumption DEF QueuesHoldSenders, CallsHaveTheirState, TypeOK, Sending
<1> QED
  BY <1>1, <1>2, <1>3, Invariant, PTL DEF Spec
=============================================================================
