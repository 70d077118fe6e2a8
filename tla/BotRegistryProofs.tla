-------------------------- MODULE BotRegistryProofs --------------------------
(***************************************************************************)
(* Safety of the instances that MCEvents runs: the registry, the settings, *)
(* the monitor of models, the pictures of a message, and the dispatch of   *)
(* events, each with its inductive invariant and for any sets and bounds.  *)
(*                                                                         *)
(* The registry (BotRegistry): an entry always carries its session's       *)
(* current account (RegistryMatchesSelfId), so unregister_bot, which looks *)
(* under that account only, removes every trace of the session.  With it,  *)
(* hooks and evictions can be counted entry by entry; and a session that   *)
(* is not open has nothing left to run that could register it again        *)
(* (OnlyOpenSessionsRun), unless its login call woke up late.              *)
(***************************************************************************)
EXTENDS MCEvents, SequenceTheorems, FiniteSetTheorems, TLAPS

\* A session that is not open has no event task, is not being read, and has no
\* login answer to act on, except with the late wake-up of LoginMayLag.
OnlyOpenSessionsRun ==
    \A s \in Sessions :
        phase[s] # "open" =>
            /\ tasks[s] = <<>>
            /\ reader[s] # "reading"
            /\ login[s] = "answered" => LoginMayLag

\* The inductive invariant.
IInv ==
    /\ TypeOK
    /\ RegistryMatchesSelfId
    /\ HooksMatchRegistry
    /\ UnregisteredTwinIsClosed
    /\ OnlyOpenSessionsRun
    /\ ~LoginMayLag => EndedIsUnregistered

-----------------------------------------------------------------------------
(***************************************************************************)
(* What the operators on the registry do.                                  *)
(***************************************************************************)

\* unregister_bot leaves no entry of the session, and every other entry.
LEMMA UnregisterRemoves ==
    ASSUME TypeOK, RegistryMatchesSelfId, NEW s \in Sessions
    PROVE  Unregister(registry, s)
             = [j \in SelfIds |-> IF registry[j] = s THEN NoBot ELSE registry[j]]
<1> USE RegistryAssumption
<1>1. \A j \in SelfIds : registry[j] = s => selfId[s] = j
  BY DEF RegistryMatchesSelfId
<1>2. registry = [j \in SelfIds |-> registry[j]] /\ selfId[s] \in Ids
  BY DEF TypeOK
<1>3. CASE selfId[s] # NoId /\ registry[selfId[s]] = s
  <2>1. selfId[s] \in SelfIds
    BY <1>2, <1>3 DEF Ids
  <2> QED
    BY <1>1, <1>2, <1>3, <2>1 DEF Unregister
<1>4. CASE ~(selfId[s] # NoId /\ registry[selfId[s]] = s)
  <2>1. \A j \in SelfIds : registry[j] # s
    BY <1>1, <1>4
  <2> QED
    BY <1>2, <1>4, <2>1 DEF Unregister
<1> QED
  BY <1>3, <1>4

\* What a session that adopts account i does to the registry.
Moved(s, i) ==
    /\ i \in SelfIds
    /\ registry' = [j \in SelfIds |-> IF j = i THEN s
                                      ELSE IF registry[j] = s THEN NoBot
                                      ELSE registry[j]]
    /\ selfId' = [selfId EXCEPT ![s] = i]
    /\ closeTasks' = closeTasks \cup ({registry[i]} \ {s, NoBot})
    /\ hooks' = [t \in Sessions |-> IF t = s THEN IF Registered(s) THEN hooks[s] ELSE hooks[s] + 1
                                    ELSE IF t = registry[i] THEN hooks[t] - 1
                                    ELSE hooks[t]]

\* AdoptId changes nothing or moves the session as Moved says.
LEMMA AdoptMoves ==
    ASSUME TypeOK, RegistryMatchesSelfId,
           NEW s \in Sessions, NEW i \in Ids, AdoptId(s, i)
    PROVE  UNCHANGED registryVars \/ Moved(s, i)
<1> USE RegistryAssumption
<1> DEFINE left == Unregister(registry, s)
<1>1. left = [j \in SelfIds |-> IF registry[j] = s THEN NoBot ELSE registry[j]]
  BY UnregisterRemoves
<1>2. CASE i \in {NoId, selfId[s]}
  BY <1>2 DEF AdoptId
<1>3. CASE i \notin {NoId, selfId[s]}
  <2>1. i \in SelfIds /\ registry[i] # s
    BY <1>3 DEF Ids, RegistryMatchesSelfId
  <2>2. Register(left, s, i) /\ selfId' = [selfId EXCEPT ![s] = i]
    BY <1>3 DEF AdoptId
  <2>3. left[i] = registry[i]
    BY <1>1, <2>1
  <2>4. registry' = [j \in SelfIds |-> IF j = i THEN s
                                       ELSE IF registry[j] = s THEN NoBot
                                       ELSE registry[j]]
    BY <1>1, <2>1, <2>2 DEF Register
  <2>5. Evicted(left, s, i) = {registry[i]} \ {s, NoBot}
    BY <2>3 DEF Evicted
  <2>6. closeTasks' = closeTasks \cup ({registry[i]} \ {s, NoBot})
    BY <2>2, <2>5 DEF Register
  <2>7. (left # registry) <=> Registered(s)
    <3>1. registry = [j \in SelfIds |-> registry[j]]
      BY DEF TypeOK
    <3>2. CASE Registered(s)
      <4>1. PICK j \in SelfIds : registry[j] = s
        BY <3>2 DEF Registered
      <4>2. left[j] = NoBot
        BY <1>1, <4>1
      <4> QED
        BY <3>2, <4>1, <4>2
    <3>3. CASE ~Registered(s)
      <4>1. left = [j \in SelfIds |-> registry[j]]
        BY <1>1, <3>3 DEF Registered
      <4> QED
        BY <3>1, <3>3, <4>1
    <3> QED
      BY <3>2, <3>3
  <2>8. hooks' = [t \in Sessions |->
                    IF t = s THEN IF Registered(s) THEN hooks[s] ELSE hooks[s] + 1
                    ELSE IF t = registry[i] THEN hooks[t] - 1
                    ELSE hooks[t]]
    <3>1. hooks' = [t \in Sessions |->
                      hooks[t] + (IF t = s /\ left[i] # s THEN 1 ELSE 0)
                               - (IF t = s /\ left # registry THEN 1 ELSE 0)
                               - (IF t \in Evicted(left, s, i) THEN 1 ELSE 0)]
      BY <2>2 DEF Register
    <3>2. ASSUME NEW t \in Sessions
          PROVE  hooks[t] + (IF t = s /\ left[i] # s THEN 1 ELSE 0)
                          - (IF t = s /\ left # registry THEN 1 ELSE 0)
                          - (IF t \in Evicted(left, s, i) THEN 1 ELSE 0)
                 = IF t = s THEN IF Registered(s) THEN hooks[s] ELSE hooks[s] + 1
                   ELSE IF t = registry[i] THEN hooks[t] - 1
                   ELSE hooks[t]
      <4>1. hooks[t] \in Int
        BY DEF TypeOK
      <4>2. t = s => t \notin Evicted(left, s, i)
        BY <2>5
      <4>3. t # s => (t \in Evicted(left, s, i) <=> t = registry[i])
        BY <2>5
      <4> HIDE DEF left
      <4> QED
        BY <2>1, <2>3, <2>7, <4>1, <4>2, <4>3
    <3> QED
      BY <3>1, <3>2
  <2> QED
    BY <2>1, <2>2, <2>4, <2>6, <2>8 DEF Moved
<1> QED
  BY <1>2, <1>3

-----------------------------------------------------------------------------
(***************************************************************************)
(* What a step does to the registry.                                       *)
(***************************************************************************)

\* Every step moves a session to an account, ends a session, closes an evicted
\* one, or leaves the registry and the bots as they are.
LEMMA StepOnRegistry ==
    ASSUME TypeOK, RegistryMatchesSelfId, [Next]_vars
    PROVE  \/ \E s \in Sessions, i \in Ids : Moved(s, i) /\ UNCHANGED closed
           \/ \E s \in Sessions : EndSession(s)
           \/ \E s \in Sessions : CloseEvicted(s)
           \/ UNCHANGED <<registryVars, closed>>
<1>1. CASE UNCHANGED vars
  BY <1>1 DEF vars
<1>2. ASSUME NEW s \in Sessions, SessionNext(s)
      PROVE  \/ \E i \in Ids : Moved(s, i) /\ UNCHANGED closed
             \/ EndSession(s)
             \/ CloseEvicted(s)
             \/ UNCHANGED <<registryVars, closed>>
  <2>1. CASE \E i \in Ids : Connect(s, i)
    BY <2>1, AdoptMoves DEF Connect
  <2>2. CASE HandlePayload(s)
    <3>1. Head(tasks[s]) \in Ids
      BY <2>2 DEF TypeOK, HandlePayload
    <3> QED
      BY <2>2, <3>1, AdoptMoves DEF HandlePayload
  <2>3. CASE LoginSucceeds(s)
    <3>1. loginId[s] \in Ids
      BY DEF TypeOK
    <3> QED
      BY <2>3, <3>1, AdoptMoves DEF LoginSucceeds
  <2>4. CASE \/ Refuse(s) \/ LoginStarts(s) \/ LoginFails(s)
             \/ \E i \in Ids : ReadEvent(s, i) \/ LoginAnswered(s, i)
             \/ \E how \in {"returned", "raised"} : ReaderEnds(s, how)
    BY <2>4 DEF Refuse, LoginStarts, LoginFails, ReadEvent, LoginAnswered, ReaderEnds
  <2> QED
    BY <1>2, <2>1, <2>2, <2>3, <2>4 DEF SessionNext
<1> QED
  BY <1>1, <1>2 DEF Next

\* The end of a session takes it out of the registry.
LEMMA EndUnregisters ==
    ASSUME TypeOK, RegistryMatchesSelfId, NEW s \in Sessions, EndSession(s)
    PROVE  /\ registry' = [j \in SelfIds |-> IF registry[j] = s THEN NoBot ELSE registry[j]]
           /\ hooks' = [hooks EXCEPT ![s] = IF Registered(s) THEN @ - 1 ELSE @]
           /\ closed' = [closed EXCEPT ![s] = TRUE]
           /\ UNCHANGED <<selfId, closeTasks>>
<1> USE RegistryAssumption
<1> DEFINE left == Unregister(registry, s)
<1>1. left = [j \in SelfIds |-> IF registry[j] = s THEN NoBot ELSE registry[j]]
  BY UnregisterRemoves
<1>2. registry' = left /\ UNCHANGED <<selfId, closeTasks>>
  BY DEF EndSession
<1>3. closed' = [closed EXCEPT ![s] = TRUE]
  BY DEF EndSession, CloseBot
<1>4. hooks' = [hooks EXCEPT ![s] = @ - (IF left # registry THEN 1 ELSE 0)]
  BY DEF EndSession
<1>5. registry = [j \in SelfIds |-> registry[j]] /\ hooks[s] \in Int
  BY DEF TypeOK
<1>6. (left # registry) <=> Registered(s)
  <2>1. CASE Registered(s)
    <3>1. PICK j \in SelfIds : registry[j] = s
      BY <2>1 DEF Registered
    <3>2. left[j] = NoBot
      BY <1>1, <3>1
    <3> QED
      BY <2>1, <3>1, <3>2
  <2>2. CASE ~Registered(s)
    <3>1. left = [j \in SelfIds |-> registry[j]]
      BY <1>1, <2>2 DEF Registered
    <3> QED
      BY <1>5, <2>2, <3>1
  <2> QED
    BY <2>1, <2>2
<1>7. hooks' = [hooks EXCEPT ![s] = IF Registered(s) THEN @ - 1 ELSE @]
  <2>1. hooks[s] - (IF left # registry THEN 1 ELSE 0)
          = IF Registered(s) THEN hooks[s] - 1 ELSE hooks[s]
    <3> HIDE DEF left
    <3> QED
      BY <1>5, <1>6
  <2> QED
    BY <1>4, <2>1, Zenon
<1> QED
  BY <1>1, <1>2, <1>3, <1>7

-----------------------------------------------------------------------------
(***************************************************************************)
(* The conjuncts of the invariant, one step each.                          *)
(***************************************************************************)

LEMMA TypeInit == Init => TypeOK
BY RegistryAssumption DEF Init, TypeOK, Ids

LEMMA TypeStep ==
    ASSUME TypeOK, RegistryMatchesSelfId, [Next]_vars
    PROVE  TypeOK'
<1> USE RegistryAssumption DEF TypeOK
<1>1. ASSUME NEW s \in Sessions, NEW i \in Ids, Moved(s, i)
      PROVE  /\ registry' \in [SelfIds -> Sessions \cup {NoBot}]
             /\ selfId' \in [Sessions -> Ids]
             /\ closeTasks' \in SUBSET Sessions
             /\ hooks' \in [Sessions -> Int]
  BY <1>1 DEF Moved, Ids
<1>2. ASSUME NEW s \in Sessions, NEW i \in Ids, AdoptId(s, i)
      PROVE  /\ registry' \in [SelfIds -> Sessions \cup {NoBot}]
             /\ selfId' \in [Sessions -> Ids]
             /\ closeTasks' \in SUBSET Sessions
             /\ hooks' \in [Sessions -> Int]
  BY <1>1, <1>2, AdoptMoves DEF registryVars
<1>3. CASE UNCHANGED vars
  BY <1>3 DEF vars, registryVars, sessionVars, loginVars
<1>4. ASSUME NEW s \in Sessions, SessionNext(s)
      PROVE  TypeOK'
  <2> USE DEF registryVars, sessionVars, loginVars
  <2>1. CASE Refuse(s)
    BY <2>1 DEF Refuse
  <2>2. CASE \E i \in Ids : Connect(s, i)
    BY <2>2, <1>2 DEF Connect
  <2>3. CASE \E i \in Ids : ReadEvent(s, i)
    BY <2>3 DEF ReadEvent
  <2>4. CASE \E i \in Ids : LoginAnswered(s, i)
    BY <2>4 DEF LoginAnswered
  <2>5. CASE HandlePayload(s)
    <3>1. Head(tasks[s]) \in Ids /\ Tail(tasks[s]) \in Seq(Ids)
      BY <2>5 DEF HandlePayload
    <3>2. /\ registry' \in [SelfIds -> Sessions \cup {NoBot}]
          /\ selfId' \in [Sessions -> Ids]
          /\ closeTasks' \in SUBSET Sessions
          /\ hooks' \in [Sessions -> Int]
      BY <2>5, <3>1, <1>2 DEF HandlePayload
    <3>3. tasks' \in [Sessions -> Seq(Ids)]
      BY <2>5, <3>1 DEF HandlePayload
    <3> QED
      BY <2>5, <3>2, <3>3 DEF HandlePayload
  <2>6. CASE \E how \in {"returned", "raised"} : ReaderEnds(s, how)
    BY <2>6 DEF ReaderEnds
  <2>7. CASE LoginStarts(s)
    BY <2>7 DEF LoginStarts
  <2>8. CASE LoginSucceeds(s)
    BY <2>8, <1>2 DEF LoginSucceeds
  <2>9. CASE LoginFails(s)
    BY <2>9 DEF LoginFails
  <2>10. CASE CloseEvicted(s)
    BY <2>10 DEF CloseEvicted, CloseBot
  <2>11. CASE EndSession(s)
    <3>1. registry' \in [SelfIds -> Sessions \cup {NoBot}] /\ hooks' \in [Sessions -> Int]
      BY <2>11, EndUnregisters
    <3> QED
      BY <2>11, <3>1 DEF EndSession, CloseBot
  <2> QED
    BY <1>4, <2>1, <2>2, <2>3, <2>4, <2>5, <2>6, <2>7, <2>8, <2>9, <2>10, <2>11
       DEF SessionNext
<1> QED
  BY <1>3, <1>4 DEF Next

LEMMA MatchesStep ==
    ASSUME TypeOK, RegistryMatchesSelfId, [Next]_vars
    PROVE  RegistryMatchesSelfId'
<1> USE RegistryAssumption
<1>1. ASSUME NEW s \in Sessions, NEW i \in Ids, Moved(s, i)
      PROVE  RegistryMatchesSelfId'
  <2> SUFFICES ASSUME NEW j \in SelfIds, registry'[j] # NoBot
               PROVE  selfId'[registry'[j]] = j
    BY DEF RegistryMatchesSelfId
  <2>1. CASE j = i
    BY <1>1, <2>1 DEF Moved, TypeOK
  <2>2. CASE j # i
    <3>1. registry'[j] = registry[j] /\ registry[j] # s
      BY <1>1, <2>2 DEF Moved
    <3>2. selfId[registry[j]] = j /\ registry[j] \in Sessions
      BY <3>1 DEF RegistryMatchesSelfId, TypeOK
    <3> QED
      BY <1>1, <3>1, <3>2 DEF Moved, TypeOK
  <2> QED
    BY <2>1, <2>2
<1>2. ASSUME NEW s \in Sessions, EndSession(s)
      PROVE  RegistryMatchesSelfId'
  BY <1>2, EndUnregisters DEF RegistryMatchesSelfId
<1>3. ASSUME NEW s \in Sessions, CloseEvicted(s)
      PROVE  RegistryMatchesSelfId'
  BY <1>3 DEF CloseEvicted, RegistryMatchesSelfId
<1>4. CASE UNCHANGED <<registryVars, closed>>
  BY <1>4 DEF registryVars, RegistryMatchesSelfId
<1> QED
  BY <1>1, <1>2, <1>3, <1>4, StepOnRegistry

\* The one entry a session can have is the one a newer session takes over.
LEMMA HooksStep ==
    ASSUME TypeOK, RegistryMatchesSelfId, HooksMatchRegistry, [Next]_vars
    PROVE  HooksMatchRegistry'
<1> USE RegistryAssumption
<1>1. ASSUME NEW s \in Sessions, NEW i \in Ids, Moved(s, i)
      PROVE  HooksMatchRegistry'
  <2> SUFFICES ASSUME NEW t \in Sessions
               PROVE  hooks'[t] = IF Registered(t)' THEN 1 ELSE 0
    BY DEF HooksMatchRegistry
  <2>1. CASE t = s
    <3>1. Registered(s)'
      BY <1>1 DEF Moved, Registered
    <3>2. hooks'[s] = 1
      BY <1>1 DEF Moved, HooksMatchRegistry
    <3> QED
      BY <2>1, <3>1, <3>2
  <2>2. CASE t # s /\ t = registry[i]
    <3>1. \A j \in SelfIds \ {i} : registry[j] # t
      BY <1>1, <2>2 DEF Moved, RegistryMatchesSelfId
    <3>2. ~Registered(t)'
      BY <1>1, <2>2, <3>1 DEF Moved, Registered
    <3>3. Registered(t)
      BY <1>1, <2>2 DEF Moved, Registered
    <3>4. hooks'[t] = 0
      BY <1>1, <2>2, <3>3 DEF Moved, HooksMatchRegistry
    <3> QED
      BY <3>2, <3>4
  <2>3. CASE t # s /\ t # registry[i]
    <3>1. Registered(t)' <=> Registered(t)
      BY <1>1, <2>3 DEF Moved, Registered
    <3>2. hooks'[t] = hooks[t]
      BY <1>1, <2>3 DEF Moved
    <3> QED
      BY <3>1, <3>2 DEF HooksMatchRegistry
  <2> QED
    BY <2>1, <2>2, <2>3
<1>2. ASSUME NEW s \in Sessions, EndSession(s)
      PROVE  HooksMatchRegistry'
  <2> SUFFICES ASSUME NEW t \in Sessions
               PROVE  hooks'[t] = IF Registered(t)' THEN 1 ELSE 0
    BY DEF HooksMatchRegistry
  <2>1. ~Registered(s)' /\ (t # s => (Registered(t)' <=> Registered(t)))
    BY <1>2, EndUnregisters DEF Registered
  <2>2. hooks'[t] = IF t = s /\ Registered(s) THEN hooks[t] - 1 ELSE hooks[t]
    BY <1>2, EndUnregisters DEF TypeOK
  <2> QED
    BY <2>1, <2>2 DEF HooksMatchRegistry
<1>3. ASSUME NEW s \in Sessions, CloseEvicted(s)
      PROVE  HooksMatchRegistry'
  BY <1>3 DEF CloseEvicted, HooksMatchRegistry, Registered
<1>4. CASE UNCHANGED <<registryVars, closed>>
  BY <1>4 DEF registryVars, HooksMatchRegistry, Registered
<1> QED
  BY <1>1, <1>2, <1>3, <1>4, StepOnRegistry

\* A session loses its entry by eviction, which schedules its close, or by its
\* own end, which closes it.
LEMMA TwinStep ==
    ASSUME TypeOK, RegistryMatchesSelfId, UnregisteredTwinIsClosed, [Next]_vars
    PROVE  UnregisteredTwinIsClosed'
<1> USE RegistryAssumption
<1>1. ASSUME NEW s \in Sessions, NEW i \in Ids, Moved(s, i), UNCHANGED closed
      PROVE  UnregisteredTwinIsClosed'
  <2> SUFFICES ASSUME NEW t \in Sessions, selfId'[t] # NoId, ~Registered(t)'
               PROVE  closed'[t] \/ t \in closeTasks'
    BY DEF UnregisteredTwinIsClosed
  <2>1. t # s
    BY <1>1 DEF Moved, Registered
  <2>2. CASE Registered(t)
    <3>1. t = registry[i]
      BY <1>1, <2>1, <2>2 DEF Moved, Registered
    <3> QED
      BY <1>1, <2>1, <3>1 DEF Moved
  <2>3. CASE ~Registered(t)
    <3>1. selfId[t] # NoId
      BY <1>1, <2>1 DEF Moved, TypeOK
    <3> QED
      BY <1>1, <2>3, <3>1 DEF Moved, UnregisteredTwinIsClosed
  <2> QED
    BY <2>2, <2>3
<1>2. ASSUME NEW s \in Sessions, EndSession(s)
      PROVE  UnregisteredTwinIsClosed'
  <2> SUFFICES ASSUME NEW t \in Sessions, selfId'[t] # NoId, ~Registered(t)'
               PROVE  closed'[t] \/ t \in closeTasks'
    BY DEF UnregisteredTwinIsClosed
  <2>1. CASE t = s
    BY <1>2, <2>1, EndUnregisters DEF TypeOK
  <2>2. CASE t # s
    <3>1. ~Registered(t) /\ selfId[t] # NoId
      BY <1>2, <2>2, EndUnregisters DEF Registered
    <3> QED
      BY <1>2, <2>2, <3>1, EndUnregisters DEF UnregisteredTwinIsClosed, TypeOK
  <2> QED
    BY <2>1, <2>2
<1>3. ASSUME NEW s \in Sessions, CloseEvicted(s)
      PROVE  UnregisteredTwinIsClosed'
  BY <1>3 DEF CloseEvicted, CloseBot, UnregisteredTwinIsClosed, Registered, TypeOK
<1>4. CASE UNCHANGED <<registryVars, closed>>
  BY <1>4 DEF registryVars, UnregisteredTwinIsClosed, Registered
<1> QED
  BY <1>1, <1>2, <1>3, <1>4, StepOnRegistry

\* Only an open session gets tasks, frames and login answers, and EndSession
\* waits until they are used up.
LEMMA OnlyOpenRunStep ==
    ASSUME TypeOK, OnlyOpenSessionsRun, [Next]_vars
    PROVE  OnlyOpenSessionsRun'
<1> USE DEF OnlyOpenSessionsRun, TypeOK
<1>1. CASE UNCHANGED vars
  BY <1>1 DEF vars, sessionVars, loginVars
<1>2. ASSUME NEW s \in Sessions, SessionNext(s)
      PROVE  OnlyOpenSessionsRun'
  <2> USE DEF sessionVars, loginVars
  <2>1. CASE Refuse(s)
    BY <2>1 DEF Refuse
  <2>2. CASE \E i \in Ids : Connect(s, i)
    BY <2>2 DEF Connect
  <2>3. CASE \E i \in Ids : ReadEvent(s, i)
    BY <2>3 DEF ReadEvent
  <2>4. CASE \E i \in Ids : LoginAnswered(s, i)
    BY <2>4 DEF LoginAnswered
  <2>5. CASE HandlePayload(s)
    BY <2>5 DEF HandlePayload
  <2>6. CASE \E how \in {"returned", "raised"} : ReaderEnds(s, how)
    BY <2>6 DEF ReaderEnds
  <2>7. CASE LoginStarts(s)
    BY <2>7 DEF LoginStarts
  <2>8. CASE LoginSucceeds(s)
    BY <2>8 DEF LoginSucceeds
  <2>9. CASE LoginFails(s)
    BY <2>9 DEF LoginFails
  <2>10. CASE CloseEvicted(s)
    BY <2>10 DEF CloseEvicted
  <2>11. CASE EndSession(s)
    BY <2>11 DEF EndSession, GatherOver
  <2> QED
    BY <1>2, <2>1, <2>2, <2>3, <2>4, <2>5, <2>6, <2>7, <2>8, <2>9, <2>10, <2>11
       DEF SessionNext
<1> QED
  BY <1>1, <1>2 DEF Next

\* Without a late login no session that is over can be registered again: what
\* registers is an event task or a login answer, and those are gone.
LEMMA EndedStep ==
    ASSUME TypeOK, RegistryMatchesSelfId, OnlyOpenSessionsRun, EndedIsUnregistered,
           ~LoginMayLag, [Next]_vars
    PROVE  EndedIsUnregistered'
<1> USE RegistryAssumption
<1>1. CASE UNCHANGED vars
  BY <1>1 DEF vars, registryVars, sessionVars, EndedIsUnregistered
<1>2. ASSUME NEW s \in Sessions, SessionNext(s)
      PROVE  EndedIsUnregistered'
  <2>1. ASSUME NEW i \in Ids, AdoptId(s, i), phase'[s] = "open",
               \A t \in Sessions \ {s} : phase'[t] = phase[t],
               phase[s] = "open" => phase' = phase
        PROVE  EndedIsUnregistered'
    <3>1. CASE UNCHANGED registryVars
      BY <2>1, <3>1 DEF registryVars, EndedIsUnregistered, TypeOK
    <3>2. CASE Moved(s, i)
      <4> SUFFICES ASSUME NEW j \in SelfIds, registry'[j] # NoBot
                   PROVE  phase'[registry'[j]] = "open"
        BY DEF EndedIsUnregistered
      <4>1. registry'[j] = s \/ (registry'[j] = registry[j] /\ registry[j] # s)
        BY <3>2 DEF Moved
      <4> QED
        BY <2>1, <4>1 DEF EndedIsUnregistered, TypeOK
    <3> QED
      BY <2>1, <3>1, <3>2, AdoptMoves
  <2>2. CASE \E i \in Ids : Connect(s, i)
    BY <2>1, <2>2 DEF Connect, TypeOK
  <2>3. CASE HandlePayload(s)
    <3>1. Head(tasks[s]) \in Ids /\ phase[s] = "open"
      BY <2>3 DEF HandlePayload, TypeOK, OnlyOpenSessionsRun
    <3> QED
      BY <2>1, <2>3, <3>1 DEF HandlePayload
  <2>4. CASE LoginSucceeds(s)
    <3>1. loginId[s] \in Ids /\ phase[s] = "open"
      BY <2>4 DEF LoginSucceeds, TypeOK, OnlyOpenSessionsRun
    <3> QED
      BY <2>1, <2>4, <3>1 DEF LoginSucceeds, sessionVars
  <2>5. CASE EndSession(s)
    <3> SUFFICES ASSUME NEW j \in SelfIds, registry'[j] # NoBot
                 PROVE  phase'[registry'[j]] = "open"
      BY DEF EndedIsUnregistered
    <3>1. registry'[j] = registry[j] /\ registry[j] # s
      BY <2>5, EndUnregisters
    <3>2. phase' = [phase EXCEPT ![s] = "ended"]
      BY <2>5 DEF EndSession
    <3> QED
      BY <3>1, <3>2 DEF EndedIsUnregistered, TypeOK
  <2>6. CASE Refuse(s)
    BY <2>6 DEF Refuse, registryVars, EndedIsUnregistered, TypeOK
  <2>7. CASE \/ LoginStarts(s) \/ LoginFails(s) \/ CloseEvicted(s)
             \/ \E i \in Ids : ReadEvent(s, i) \/ LoginAnswered(s, i)
             \/ \E how \in {"returned", "raised"} : ReaderEnds(s, how)
    BY <2>7 DEF LoginStarts, LoginFails, CloseEvicted, ReadEvent, LoginAnswered,
                ReaderEnds, registryVars, sessionVars, EndedIsUnregistered
  <2> QED
    BY <1>2, <2>2, <2>3, <2>4, <2>5, <2>6, <2>7 DEF SessionNext
<1> QED
  BY <1>1, <1>2 DEF Next

-----------------------------------------------------------------------------
(***************************************************************************)
(* The theorems.                                                           *)
(***************************************************************************)

LEMMA InvInit == Init => IInv
<1> SUFFICES ASSUME Init PROVE IInv
  OBVIOUS
<1> USE RegistryAssumption DEF Init
<1>1. TypeOK
  BY TypeInit
<1>2. \A s \in Sessions : ~Registered(s)
  BY DEF Registered
<1> QED
  BY <1>1, <1>2 DEF IInv, RegistryMatchesSelfId, HooksMatchRegistry,
     UnregisteredTwinIsClosed, OnlyOpenSessionsRun, EndedIsUnregistered

LEMMA InvStep == IInv /\ [Next]_vars => IInv'
<1> SUFFICES ASSUME IInv, [Next]_vars PROVE IInv'
  OBVIOUS
<1>1. TypeOK'
  BY TypeStep DEF IInv
<1>2. RegistryMatchesSelfId'
  BY MatchesStep DEF IInv
<1>3. HooksMatchRegistry'
  BY HooksStep DEF IInv
<1>4. UnregisteredTwinIsClosed'
  BY TwinStep DEF IInv
<1>5. OnlyOpenSessionsRun'
  BY OnlyOpenRunStep DEF IInv
<1>6. ~LoginMayLag => EndedIsUnregistered'
  BY EndedStep DEF IInv
<1> QED
  BY <1>1, <1>2, <1>3, <1>4, <1>5, <1>6 DEF IInv

\* IInv holds in every reachable state.
THEOREM Invariant == Spec => []IInv
BY InvInit, InvStep, PTL DEF Spec

\* Every variable of BotRegistry keeps its type.
THEOREM TypeCorrect == Spec => []TypeOK
<1>1. IInv => TypeOK
  BY DEF IInv
<1> QED
  BY <1>1, Invariant, PTL

\* register_bot and unregister_bot keep every entry under the account its
\* session carries, for any number of connections and account changes.
THEOREM RegistryMatches == Spec => []RegistryMatchesSelfId
<1>1. IInv => RegistryMatchesSelfId
  BY DEF IInv
<1> QED
  BY <1>1, Invariant, PTL

\* Connect and disconnect hooks are fired exactly with the changes of _bots.
THEOREM HooksMatch == Spec => []HooksMatchRegistry
<1>1. IInv => HooksMatchRegistry
  BY DEF IInv
<1> QED
  BY <1>1, Invariant, PTL

\* The older of two connections of one account is closed or about to be.
THEOREM TwinIsClosed == Spec => []UnregisteredTwinIsClosed
<1>1. IInv => UnregisteredTwinIsClosed
  BY DEF IInv
<1> QED
  BY <1>1, Invariant, PTL

\* Where wait_for wakes its caller at once (Python 3.12 and newer), get_bot
\* never answers with a session past its finally block.
THEOREM EndedUnregistered == ~LoginMayLag => (Spec => []EndedIsUnregistered)
<1> SUFFICES ASSUME ~LoginMayLag PROVE Spec => []EndedIsUnregistered
  OBVIOUS
<1>1. IInv => EndedIsUnregistered
  BY DEF IInv
<1> QED
  BY <1>1, Invariant, PTL

\* An evicted session that ends does not unregister the session that evicted it.
THEOREM SelfOrSuccessorUnregisters == Spec => OnlySelfOrSuccessorUnregisters
<1> DEFINE Fair(i) == registry[i] # NoBot /\ registry'[i] = NoBot =>
                        LET s == registry[i]
                        IN  selfId'[s] # i \/ phase'[s] = "ended"
<1>1. IInv /\ [Next]_vars => [\A i \in SelfIds : Fair(i)]_vars
  <2> SUFFICES ASSUME TypeOK, RegistryMatchesSelfId, [Next]_vars, NEW i \in SelfIds,
                      registry[i] # NoBot, registry'[i] = NoBot
               PROVE  selfId'[registry[i]] # i \/ phase'[registry[i]] = "ended"
    BY DEF IInv
  <2> USE RegistryAssumption
  <2>1. registry[i] \in Sessions
    BY DEF TypeOK
  <2>2. ASSUME NEW s \in Sessions, NEW k \in Ids, Moved(s, k)
        PROVE  selfId'[registry[i]] # i
    <3>1. registry[i] = s /\ i # k
      BY <2>2 DEF Moved
    <3> QED
      BY <2>2, <3>1 DEF Moved, TypeOK
  <2>3. ASSUME NEW s \in Sessions, EndSession(s)
        PROVE  phase'[registry[i]] = "ended"
    <3>1. registry[i] = s
      BY <2>3, EndUnregisters
    <3> QED
      BY <2>3, <3>1 DEF EndSession, TypeOK
  <2>4. ASSUME NEW s \in Sessions, CloseEvicted(s)
        PROVE  FALSE
    BY <2>4 DEF CloseEvicted
  <2>5. CASE UNCHANGED <<registryVars, closed>>
    BY <2>5 DEF registryVars
  <2> QED
    BY <2>2, <2>3, <2>4, <2>5, StepOnRegistry
<1> QED
  BY <1>1, Invariant, PTL DEF Spec, OnlySelfOrSuccessorUnregisters

-----------------------------------------------------------------------------
(***************************************************************************)
(* Settings: the data that is in use is as new as the last look.           *)
(***************************************************************************)

\* The time of the file that the cache remembers is no later than the file's own,
\* and when it is the same the cache holds that file, whole; and an object that has
\* looked since the file was written has left the cache as the file says.
CacheFollowsFile ==
    /\ TicksPerSecond <= setFile.at
    /\ setCache.mtime <= Config!Second(setFile.at)
    /\ setCache.mtime = Config!Second(setFile.at) =>
          setCache.version = setFile.version /\ setFile.state = "good"
    /\ \A r \in ConfigReaders :
          setChecked[r] > setFile.at =>
             /\ setFile.state = "good" => setCache.version = setFile.version
             /\ setFile.state = "missing" => setCache.version = 0

ConfigInv == Config!TypeOK /\ CacheFollowsFile /\ Config!EditsTakeEffect

\* Whole seconds are in the order of the moments they hold.
LEMMA SecondsAreInOrder ==
    /\ TicksPerSecond \in Nat \ {0} /\ Config!Second(TicksPerSecond) = 1
    /\ \A t \in Nat : Config!Second(t) \in Nat
    /\ \A t, u \in Nat : t <= u => Config!Second(t) <= Config!Second(u)
<1>1. TicksPerSecond \in Nat \ {0}
  BY InstancesAreSound DEF Config!SettingsAssumption
<1>2. \A t \in Nat : Config!Second(t) \in Nat
  BY <1>1 DEF Config!Second
<1>3. Config!Second(TicksPerSecond) = 1
  BY <1>1 DEF Config!Second
<1>4. \A t, u \in Nat : t <= u => Config!Second(t) <= Config!Second(u)
  BY <1>1 DEF Config!Second
<1> QED
  BY <1>1, <1>2, <1>3, <1>4

LEMMA ConfigAssumed ==
    /\ ReloadInterval * TicksPerSecond \in Nat \ {0}
    /\ {TicksPerSecond, ConfigTime, ConfigVersions} \subseteq Nat \ {0}
    /\ TicksPerSecond <= ConfigTime
<1>1. {ReloadInterval, TicksPerSecond, ConfigTime, ConfigVersions} \subseteq Nat \ {0}
      /\ TicksPerSecond <= ConfigTime
  BY InstancesAreSound DEF Config!SettingsAssumption
<1>2. \A m, n \in Nat \ {0} : m * n \in Nat \ {0}
  OBVIOUS
<1> QED
  BY <1>1, <1>2

LEMMA ConfigStarts == Config!Init => ConfigInv
<1> SUFFICES ASSUME Config!Init PROVE ConfigInv
  OBVIOUS
<1> USE SecondsAreInOrder, ConfigAssumed
<1>1. Config!TypeOK
  BY DEF Config!Init, Config!TypeOK, Config!States
<1>2. CacheFollowsFile /\ Config!EditsTakeEffect
  BY DEF Config!Init, CacheFollowsFile, Config!EditsTakeEffect
<1> QED
  BY <1>1, <1>2 DEF ConfigInv

\* What a look at the file leaves in the cache.
LEMMA LookedAt ==
    ASSUME ConfigInv, NEW force \in BOOLEAN, NEW looked, looked = Config!Loaded(force)
    PROVE  /\ looked \in [version : 0 .. setFile.version, mtime : 0 .. Config!Second(setNow)]
           /\ looked.mtime <= Config!Second(setFile.at)
           /\ looked.mtime = Config!Second(setFile.at) =>
                 looked.version = setFile.version /\ setFile.state = "good"
           /\ setFile.state = "good" => looked.version = setFile.version
           /\ setFile.state = "missing" => looked.version = 0
           /\ setFile.state = "broken" => looked = setCache
<1> USE SecondsAreInOrder, ConfigAssumed DEF ConfigInv
<1>1. /\ setFile.at \in Nat /\ setNow \in Nat /\ setFile.at <= setNow
      /\ setFile.version \in 1 .. ConfigVersions
      /\ setFile.state \in {"good", "broken", "missing"}
      /\ setCache \in [version : 0 .. setFile.version, mtime : 0 .. Config!Second(setNow)]
  BY DEF Config!TypeOK, Config!States
<1>2. 1 <= Config!Second(setFile.at) /\ Config!Second(setFile.at) <= Config!Second(setNow)
  BY <1>1 DEF CacheFollowsFile
<1>3. CASE setFile.state = "missing"
  BY <1>1, <1>2, <1>3 DEF Config!Loaded, Config!None
<1>4. CASE setFile.state = "broken"
  BY <1>1, <1>2, <1>4 DEF Config!Loaded, CacheFollowsFile
<1>5. CASE setFile.state = "good" /\ looked = setCache
  <2>1. setCache.version = setFile.version
    BY <1>1, <1>2, <1>5 DEF Config!Loaded, CacheFollowsFile
  <2> QED
    BY <1>1, <1>2, <1>5, <2>1 DEF CacheFollowsFile
<1>6. CASE setFile.state = "good" /\ looked # setCache
  BY <1>1, <1>2, <1>6 DEF Config!Loaded
<1> QED
  BY <1>1, <1>3, <1>4, <1>5, <1>6

LEMMA ConfigTicks == ConfigInv /\ Config!Tick => ConfigInv'
<1> SUFFICES ASSUME ConfigInv, Config!Tick PROVE ConfigInv'
  OBVIOUS
<1> USE SecondsAreInOrder, ConfigAssumed DEF ConfigInv, Config!Tick
<1>1. setNow \in Nat /\ setNow' \in Nat /\ Config!Second(setNow) <= Config!Second(setNow')
  BY DEF Config!TypeOK
<1>2. (Config!TypeOK)'
  BY <1>1 DEF Config!TypeOK
<1>3. CacheFollowsFile'
  BY DEF CacheFollowsFile, Config!Second
<1>4. (Config!EditsTakeEffect)'
  BY DEF Config!EditsTakeEffect
<1> QED
  BY <1>2, <1>3, <1>4

LEMMA ConfigEdited == ConfigInv /\ Config!Edit => ConfigInv'
<1> SUFFICES ASSUME ConfigInv, Config!Edit PROVE ConfigInv'
  OBVIOUS
<1> USE SecondsAreInOrder, ConfigAssumed DEF ConfigInv
<1>1. /\ setNow' = setNow /\ setCache' = setCache /\ setChecked' = setChecked
      /\ setGot' = setGot /\ setFile.version < ConfigVersions
      /\ Config!Second(setFile.at) < Config!Second(setNow)
  BY DEF Config!Edit, Config!TypeOK
<1>2. /\ setNow \in 1 .. ConfigTime /\ setFile.at \in 1 .. setNow
      /\ setFile.version \in 1 .. ConfigVersions
      /\ setCache \in [version : 0 .. setFile.version, mtime : 0 .. Config!Second(setNow)]
      /\ setChecked \in [ConfigReaders -> 1 .. setNow]
      /\ setGot \in [version : 0 .. setFile.version, at : 1 .. setNow]
  BY DEF Config!TypeOK
<1>3. /\ setFile' \in [version : 1 .. ConfigVersions, at : 1 .. setNow,
                       state : Config!States]
      /\ setFile'.version = setFile.version + 1 /\ setFile'.at = setNow
  BY <1>1, <1>2 DEF Config!Edit
<1>4. (Config!TypeOK)'
  <2>1. setCache.version \in 0 .. setFile'.version /\ setCache.mtime \in 0 .. Config!Second(setNow)
    BY <1>2, <1>3
  <2>2. setGot.version \in 0 .. setFile'.version /\ setGot.at \in 1 .. setNow
    BY <1>2, <1>3
  <2>3. /\ setCache \in [version : 0 .. setFile'.version, mtime : 0 .. Config!Second(setNow)]
        /\ setGot \in [version : 0 .. setFile'.version, at : 1 .. setNow]
    BY <1>2, <2>1, <2>2
  <2> QED
    BY <1>1, <1>2, <1>3, <2>3 DEF Config!TypeOK, Config!Second
<1>5. CacheFollowsFile'
  <2>1. setCache.mtime <= Config!Second(setFile.at) /\ TicksPerSecond <= setNow
    BY <1>2 DEF CacheFollowsFile
  <2>2. (Config!Second(setFile.at))' = Config!Second(setNow)
    BY <1>3 DEF Config!Second
  <2>3. \A r \in ConfigReaders : ~(setChecked[r] > setNow)
    BY <1>2
  <2>4. setCache.mtime < Config!Second(setNow)
    BY <1>1, <1>2, <2>1
  <2> QED
    BY <1>1, <1>2, <1>3, <2>1, <2>2, <2>3, <2>4 DEF CacheFollowsFile
<1>6. (Config!EditsTakeEffect)'
  BY <1>1, <1>2, <1>3 DEF Config!EditsTakeEffect
<1> QED
  BY <1>4, <1>5, <1>6

LEMMA ConfigGot ==
    ASSUME ConfigInv, NEW r \in ConfigReaders, Config!Get(r)
    PROVE  ConfigInv'
<1> USE SecondsAreInOrder, ConfigAssumed DEF ConfigInv
<1>1. /\ setNow' = setNow /\ setFile' = setFile
      /\ setChecked' = [setChecked EXCEPT ![r] = IF Config!Due(r) THEN setNow ELSE @]
      /\ setCache' = IF Config!Due(r) THEN Config!Loaded(FALSE) ELSE setCache
      /\ setGot' = IF Config!Due(r) /\ Config!Raises(FALSE) THEN setGot
                   ELSE [version |-> setCache'.version, at |-> setNow]
  BY DEF Config!Get
<1>2. /\ setNow \in 1 .. ConfigTime /\ setFile.at \in 1 .. setNow
      /\ setFile.version \in 1 .. ConfigVersions
      /\ setCache \in [version : 0 .. setFile.version, mtime : 0 .. Config!Second(setNow)]
      /\ setChecked \in [ConfigReaders -> 1 .. setNow]
      /\ setGot \in [version : 0 .. setFile.version, at : 1 .. setNow]
  BY DEF Config!TypeOK
<1>3. CASE Config!Due(r)
  <2> DEFINE looked == Config!Loaded(FALSE)
  <2>1. /\ looked \in [version : 0 .. setFile.version, mtime : 0 .. Config!Second(setNow)]
        /\ looked.mtime <= Config!Second(setFile.at)
        /\ looked.mtime = Config!Second(setFile.at) =>
              looked.version = setFile.version /\ setFile.state = "good"
        /\ setFile.state = "good" => looked.version = setFile.version
        /\ setFile.state = "missing" => looked.version = 0
        /\ setFile.state = "broken" => looked = setCache
    BY LookedAt
  <2>2. setCache' = looked /\ setChecked' = [setChecked EXCEPT ![r] = setNow]
    BY <1>1, <1>3
  <2> HIDE DEF looked
  <2>3. setGot' \in {setGot, [version |-> looked.version, at |-> setNow]}
    BY <1>1, <2>2
  <2>4. (Config!TypeOK)'
    <3>1. setGot' \in [version : 0 .. setFile.version, at : 1 .. setNow]
      BY <1>2, <2>1, <2>3
    <3>2. setChecked' \in [ConfigReaders -> 1 .. setNow]
      BY <1>2, <2>2
    <3>3. setFile \in [version : 1 .. ConfigVersions, at : 1 .. setNow, state : Config!States]
      BY DEF Config!TypeOK
    <3> QED
      BY <1>1, <1>2, <2>1, <2>2, <3>1, <3>2, <3>3 DEF Config!TypeOK, Config!Second
  <2>5. CacheFollowsFile'
    BY <1>1, <1>2, <2>1, <2>2 DEF CacheFollowsFile, Config!Second
  <2>6. (Config!EditsTakeEffect)'
    BY <1>1, <1>2, <2>1, <2>3 DEF Config!EditsTakeEffect
  <2> QED
    BY <2>4, <2>5, <2>6
<1>4. CASE ~Config!Due(r)
  <2>1. /\ setCache' = setCache /\ setChecked' = setChecked
        /\ setGot' = [version |-> setCache.version, at |-> setNow]
    BY <1>1, <1>2, <1>4
  <2>2. setNow >= setFile.at + ReloadInterval * TicksPerSecond => setChecked[r] > setFile.at
    BY <1>2, <1>4 DEF Config!Due
  <2>3. (Config!TypeOK)'
    <3>1. setGot' \in [version : 0 .. setFile.version, at : 1 .. setNow]
      BY <1>2, <2>1
    <3>2. setFile \in [version : 1 .. ConfigVersions, at : 1 .. setNow, state : Config!States]
      BY DEF Config!TypeOK
    <3> QED
      BY <1>1, <1>2, <2>1, <3>1, <3>2 DEF Config!TypeOK, Config!Second
  <2>4. CacheFollowsFile'
    BY <1>1, <2>1 DEF CacheFollowsFile, Config!Second
  <2>5. (Config!EditsTakeEffect)'
    <3>1. setChecked[r] > setFile.at =>
             /\ setFile.state = "good" => setCache.version = setFile.version
             /\ setFile.state = "missing" => setCache.version = 0
      BY DEF CacheFollowsFile
    <3>2. setGot'.at = setNow /\ setGot'.version = setCache.version
      BY <2>1
    <3> QED
      BY <1>1, <2>2, <3>1, <3>2 DEF Config!EditsTakeEffect
  <2> QED
    BY <2>3, <2>4, <2>5
<1> QED
  BY <1>3, <1>4

LEMMA ConfigMade ==
    ASSUME ConfigInv, NEW r \in ConfigReaders, Config!Make(r)
    PROVE  ConfigInv'
<1> USE SecondsAreInOrder, ConfigAssumed DEF ConfigInv
<1> DEFINE looked == Config!Loaded(TRUE)
<1>1. /\ setNow' = setNow /\ setFile' = setFile /\ setGot' = setGot
      /\ setChecked' = [setChecked EXCEPT ![r] = setNow] /\ setCache' = looked
  BY DEF Config!Make
<1>2. /\ setNow \in 1 .. ConfigTime /\ setFile.at \in 1 .. setNow
      /\ setFile.version \in 1 .. ConfigVersions
      /\ setCache \in [version : 0 .. setFile.version, mtime : 0 .. Config!Second(setNow)]
      /\ setChecked \in [ConfigReaders -> 1 .. setNow]
      /\ setGot \in [version : 0 .. setFile.version, at : 1 .. setNow]
  BY DEF Config!TypeOK
<1>3. /\ looked \in [version : 0 .. setFile.version, mtime : 0 .. Config!Second(setNow)]
      /\ looked.mtime <= Config!Second(setFile.at)
      /\ looked.mtime = Config!Second(setFile.at) =>
            looked.version = setFile.version /\ setFile.state = "good"
      /\ setFile.state = "good" => looked.version = setFile.version
      /\ setFile.state = "missing" => looked.version = 0
      /\ setFile.state = "broken" => looked = setCache
  BY LookedAt
<1> HIDE DEF looked
<1>4. (Config!TypeOK)'
  BY <1>1, <1>2, <1>3 DEF Config!TypeOK, Config!Second
<1>5. CacheFollowsFile'
  BY <1>1, <1>2, <1>3 DEF CacheFollowsFile, Config!Second
<1>6. (Config!EditsTakeEffect)'
  BY <1>1 DEF Config!EditsTakeEffect
<1> QED
  BY <1>4, <1>5, <1>6

LEMMA ConfigGoesOn == ConfigInv /\ [Config!Next]_setVars => ConfigInv'
<1> SUFFICES ASSUME ConfigInv, [Config!Next]_setVars PROVE ConfigInv'
  OBVIOUS
<1>1. CASE UNCHANGED setVars
  BY <1>1 DEF setVars, ConfigInv, Config!TypeOK, CacheFollowsFile, Config!EditsTakeEffect,
              Config!Second
<1>2. CASE Config!Next
  BY <1>2, ConfigTicks, ConfigEdited, ConfigGot, ConfigMade DEF Config!Next
<1> QED
  BY <1>1, <1>2

-----------------------------------------------------------------------------
(***************************************************************************)
(* ModelStatus: the verdicts alternate, and no outage is overlooked.       *)
(***************************************************************************)

\* The last calls failed, as many as make an outage.
Failing == Status!Among(monCalls, FailStreak, FailStreak, FALSE)

\* An odd number of notices means that the model was last told to be bad; once the
\* task of the latest call has judged, the verdict on failing calls has been spoken.
VerdictIsSpoken ==
    /\ monSaved = "bad" <=> Len(monFlips) % 2 = 1
    /\ monCalls # <<>> => monNewest \in StatusTasks
    /\ /\ Failing /\ ~monUnheard /\ monNewest \in StatusTasks
       /\ monPc[monNewest] \notin {"hooked", "waiting", "judging"}
       => monSaved = "bad"

StatusInv ==
    Status!TypeOK /\ Status!FlipsAlternate /\ VerdictIsSpoken

LEMMA StatusAssumed ==
    /\ {FailStreak, FailWindow, FailCount, RecoverStreak, RecoverWindow, RecoverCount}
          \subseteq Nat \ {0}
    /\ EvalLimit \in Nat /\ NoStatusTask \notin StatusTasks
    /\ RecoverCount + FailStreak > RecoverWindow
    /\ Status!Limit \in Nat /\ FailStreak <= Status!Limit
<1> DEFINE S == {EvalLimit, FailStreak, FailWindow, RecoverStreak, RecoverWindow}
<1>1. /\ {FailStreak, FailWindow, FailCount, RecoverStreak, RecoverWindow, RecoverCount}
            \subseteq Nat \ {0}
      /\ EvalLimit \in Nat /\ NoStatusTask \notin StatusTasks
      /\ RecoverCount + FailStreak > RecoverWindow
  BY InstancesAreSound DEF Status!StatusAssumption, Status!RulesExcludeEachOther
<1>2. \A m, n \in Nat : \E k \in {m, n} : m <= k /\ n <= k
  OBVIOUS
<1>3. PICK a \in {EvalLimit, FailStreak} : EvalLimit <= a /\ FailStreak <= a
  BY <1>1, <1>2
<1>4. PICK b \in {a, FailWindow} : a <= b /\ FailWindow <= b
  BY <1>1, <1>2, <1>3
<1>5. PICK c \in {b, RecoverStreak} : b <= c /\ RecoverStreak <= c
  BY <1>1, <1>2, <1>3, <1>4
<1>6. PICK d \in {c, RecoverWindow} : c <= d /\ RecoverWindow <= d
  BY <1>1, <1>2, <1>3, <1>4, <1>5
<1>7. d \in S /\ \A m \in S : m <= d
  BY <1>1, <1>3, <1>4, <1>5, <1>6
<1>8. Status!Limit \in S /\ \A m \in S : m <= Status!Limit
  BY <1>7 DEF Status!Limit, Status!Largest
<1> QED
  BY <1>1, <1>8

LEMMA StatusCounts == \A S : Status!Cardinality(S) = Cardinality(S)
  BY DEF Status!Cardinality, Status!IsFiniteSet, Cardinality, IsFiniteSet

\* Calls that end with n of one outcome, when n are asked for, have no other there.
LEMMA AllOfThem ==
    ASSUME NEW s \in Seq(BOOLEAN), NEW n \in Nat \ {0}, Len(s) >= n
    PROVE  Status!Among(s, n, n, FALSE) <=> \A i \in Len(s) - n + 1 .. Len(s) : s[i] = FALSE
<1> DEFINE I == Len(s) - n + 1 .. Len(s)
           F == {i \in I : s[i] = FALSE}
<1>1. Len(s) \in Nat /\ IsFiniteSet(I) /\ Cardinality(I) = n
  BY FS_Interval
<1>2. F \subseteq I /\ IsFiniteSet(F)
  BY <1>1, FS_Subset
<1>3. Cardinality(F) \in Nat /\ Cardinality(F) <= n /\ (Cardinality(F) = n => F = I)
  BY <1>1, <1>2, FS_Subset, FS_CardinalityType
<1>4. Status!Among(s, n, n, FALSE) <=> Cardinality(F) >= n
  BY StatusCounts DEF Status!Among
<1>5. Cardinality(F) >= n <=> F = I
  <2> HIDE DEF F, I
  <2> QED
    BY <1>1, <1>3
<1>6. F = I <=> \A i \in I : s[i] = FALSE
  OBVIOUS
<1> QED
  BY <1>4, <1>5, <1>6

\* An outage is one for whom looks at the latest calls only, and is no recovery.
LEMMA OutageIsJudged ==
    ASSUME Status!TypeOK, Failing
    PROVE  Status!JudgeFail(Status!Recent) /\ ~Status!JudgeRecover(Status!Recent)
<1> DEFINE r == Status!Recent
<1> USE StatusAssumed
<1>1. monCalls \in Seq(BOOLEAN) /\ Len(monCalls) \in Nat /\ FailStreak <= Len(monCalls)
  <2>1. Len(monCalls) >= FailStreak
    BY DEF Failing, Status!Among
  <2>2. monCalls \in Seq(BOOLEAN)
    BY DEF Status!TypeOK
  <2> QED
    BY <2>1, <2>2
<1>2. \A i \in Len(monCalls) - FailStreak + 1 .. Len(monCalls) : monCalls[i] = FALSE
  BY <1>1, AllOfThem DEF Failing
<1>3. /\ r \in Seq(BOOLEAN) /\ Len(r) \in Nat /\ FailStreak <= Len(r)
      /\ \A i \in Len(r) - FailStreak + 1 .. Len(r) : r[i] = FALSE
  <2>1. CASE Len(monCalls) <= Status!Limit
    <3>1. r = monCalls
      BY <2>1 DEF Status!Recent
    <3> QED
      BY <1>1, <1>2, <3>1
  <2>2. CASE Len(monCalls) > Status!Limit
    <3> DEFINE k == Len(monCalls) - Status!Limit + 1
    <3>1. r = SubSeq(monCalls, k, Len(monCalls)) /\ k \in 1 .. Len(monCalls)
      BY <1>1, <2>2 DEF Status!Recent
    <3>2. /\ r \in Seq(BOOLEAN) /\ Len(r) = Status!Limit
          /\ \A i \in 1 .. Status!Limit : r[i] = monCalls[k + i - 1]
      BY <1>1, <2>2, <3>1, SubSeqProperties
    <3> HIDE DEF r
    <3>3. \A i \in Len(r) - FailStreak + 1 .. Len(r) : r[i] = FALSE
      <4> SUFFICES ASSUME NEW i \in Len(r) - FailStreak + 1 .. Len(r) PROVE r[i] = FALSE
        OBVIOUS
      <4>1. /\ i \in 1 .. Status!Limit
            /\ k + i - 1 \in Len(monCalls) - FailStreak + 1 .. Len(monCalls)
        BY <1>1, <2>2, <3>2
      <4> QED
        BY <1>2, <3>2, <4>1
    <3> QED
      BY <3>2, <3>3
  <2>3. Len(monCalls) <= Status!Limit \/ Len(monCalls) > Status!Limit
    BY <1>1
  <2> QED
    BY <2>1, <2>2, <2>3
<1> HIDE DEF r
<1>4. Status!JudgeFail(r)
  BY <1>3, AllOfThem DEF Status!JudgeFail
<1>5. ASSUME NEW w \in Nat \ {0}, NEW k \in Nat \ {0}, Len(r) >= w, k + FailStreak > w
      PROVE  ~Status!Among(r, w, k, TRUE)
  <2> DEFINE O == {i \in Len(r) - w + 1 .. Len(r) : r[i] = TRUE}
             J == Len(r) - w + 1 .. Len(r) - FailStreak
  <2>1. O \subseteq J
    <3> SUFFICES ASSUME NEW i \in O PROVE i \in J
      OBVIOUS
    <3>1. i \in Len(r) - w + 1 .. Len(r) /\ r[i] = TRUE
      OBVIOUS
    <3>2. i \notin Len(r) - FailStreak + 1 .. Len(r)
      BY <1>3, <3>1
    <3> QED
      BY <1>3, <3>1, <3>2
  <2>2. IsFiniteSet(J) /\ Cardinality(J) \in Nat /\ Cardinality(J) < k
    <3>1. CASE w >= FailStreak
      <4> DEFINE a == Len(r) - w + 1
                 b == Len(r) - FailStreak
      <4>1. a \in Int /\ b \in Int /\ b - a + 1 = w - FailStreak /\ a <= b + 1
        BY <1>3, <3>1
      <4>2. J = a .. b
        OBVIOUS
      <4> HIDE DEF J, a, b
      <4>3. IsFiniteSet(J) /\ Cardinality(J) = IF a <= b THEN b - a + 1 ELSE 0
        <5>1. IsFiniteSet(a .. b) /\ Cardinality(a .. b) = IF a > b THEN 0 ELSE b - a + 1
          BY ONLY <4>1, FS_Interval
        <5> QED
          BY ONLY <4>1, <4>2, <5>1
      <4>4. Cardinality(J) = w - FailStreak
        BY <4>1, <4>3
      <4> QED
        BY <1>5, <3>1, <4>3, <4>4
    <3>2. CASE w < FailStreak
      <4>1. J = {}
        BY <1>3, <1>5, <3>2
      <4> HIDE DEF J
      <4> QED
        BY <4>1, FS_EmptySet
    <3> QED
      BY <3>1, <3>2
  <2>3. Cardinality(O) \in Nat /\ Cardinality(O) <= Cardinality(J)
    <3> HIDE DEF J, O
    <3> QED
      BY <2>1, <2>2, FS_Subset, FS_CardinalityType
  <2>4. ~(Cardinality(O) >= k)
    <3> HIDE DEF J, O
    <3> QED
      BY <2>2, <2>3
  <2> QED
    BY <2>4, StatusCounts DEF Status!Among
<1>6. ~Status!Among(r, RecoverStreak, RecoverStreak, TRUE)
  <2>1. Status!Among(r, RecoverStreak, RecoverStreak, TRUE) => Len(r) >= RecoverStreak
    BY DEF Status!Among
  <2>2. RecoverStreak \in Nat \ {0} /\ RecoverStreak + FailStreak > RecoverStreak
    OBVIOUS
  <2> QED
    BY <1>5, <2>1, <2>2
<1>7. ~Status!Among(r, RecoverWindow, RecoverCount, TRUE)
  <2>1. Status!Among(r, RecoverWindow, RecoverCount, TRUE) => Len(r) >= RecoverWindow
    BY DEF Status!Among
  <2>2. RecoverWindow \in Nat \ {0} /\ RecoverCount \in Nat \ {0}
    OBVIOUS
  <2> QED
    BY <1>5, <2>1, <2>2
<1> QED
  BY <1>4, <1>6, <1>7 DEF r, Status!JudgeRecover

LEMMA StatusStarts == Status!Init => StatusInv
<1> SUFFICES ASSUME Status!Init PROVE StatusInv
  OBVIOUS
<1> USE StatusAssumed
<1>1. Status!TypeOK
  <2>1. \A t \in StatusTasks : monPc[t] = "judging" <=> monHolder = t
    BY DEF Status!Init
  <2>2. monUnheard \in BOOLEAN
    BY DEF Status!Init
  <2>3. /\ monPc \in [StatusTasks -> {"free", "hooked", "waiting", "judging", "bad", "ok"}]
        /\ monTo \in [StatusTasks -> SUBSET StatusGroups]
    BY DEF Status!Init
  <2>4. /\ monCalls = <<>> /\ monFlips = <<>> /\ monOn \subseteq StatusGroups
        /\ monSaved = "unset" /\ monNewest = NoStatusTask /\ monHolder = NoStatusTask
    BY DEF Status!Init
  <2> QED
    BY <2>1, <2>2, <2>3, <2>4 DEF Status!TypeOK
<1>2. Status!FlipsAlternate
  BY DEF Status!Init, Status!FlipsAlternate
<1>3. VerdictIsSpoken
  <2>1. monCalls = <<>> /\ monFlips = <<>> /\ monSaved # "bad"
    BY DEF Status!Init
  <2>2. ~Failing
    BY <2>1 DEF Failing, Status!Among
  <2> QED
    BY <2>1, <2>2 DEF VerdictIsSpoken
<1> QED
  BY <1>1, <1>2, <1>3 DEF StatusInv

LEMMA StatusRecorded ==
    ASSUME StatusInv, NEW t \in StatusTasks, NEW ok \in BOOLEAN, Status!Record(t, ok)
    PROVE  StatusInv'
<1> USE DEF StatusInv
<1>1. /\ monPc[t] = "free" /\ monCalls' = Append(monCalls, ok) /\ monNewest' = t
      /\ monPc' = [monPc EXCEPT ![t] = "hooked"] /\ monHolder' = monHolder
      /\ monSaved' = monSaved /\ monTo' = monTo /\ monOn' = monOn /\ monFlips' = monFlips
  BY DEF Status!Record
<1>2. monUnheard' = FALSE
  BY DEF Status!Record
<1>3. (Status!TypeOK)'
  <2>1. monCalls' \in Seq(BOOLEAN)
    BY <1>1 DEF Status!TypeOK
  <2>2. \A u \in StatusTasks : monPc'[u] = "judging" <=> monHolder' = u
    BY <1>1 DEF Status!TypeOK
  <2>3. monPc' \in [StatusTasks -> {"free", "hooked", "waiting", "judging", "bad", "ok"}]
    BY <1>1 DEF Status!TypeOK
  <2>4. monUnheard' \in BOOLEAN
    BY <1>2
  <2> QED
    BY <1>1, <2>1, <2>2, <2>3, <2>4 DEF Status!TypeOK
<1>4. (Status!FlipsAlternate)'
  BY <1>1 DEF Status!FlipsAlternate
<1>5. VerdictIsSpoken'
  <2>1. monPc'[monNewest'] = "hooked"
    BY <1>1 DEF Status!TypeOK
  <2> QED
    BY <1>1, <2>1 DEF VerdictIsSpoken
<1> QED
  BY <1>3, <1>4, <1>5

LEMMA StatusEntered ==
    ASSUME StatusInv, NEW t \in StatusTasks, Status!Enter(t)
    PROVE  StatusInv'
<1> USE DEF StatusInv
<1>1. /\ monPc[t] = "hooked"
      /\ monPc' = [monPc EXCEPT ![t] = IF monOn = {} THEN "free" ELSE "waiting"]
      /\ monTo' = [monTo EXCEPT ![t] = monOn]
      /\ monCalls' = monCalls /\ monNewest' = monNewest /\ monHolder' = monHolder
      /\ monSaved' = monSaved /\ monOn' = monOn /\ monFlips' = monFlips
  BY DEF Status!Enter
<1>2. monUnheard' = (monUnheard \/ (monOn = {} /\ monNewest = t))
  BY DEF Status!Enter
<1>3. (Status!TypeOK)'
  <2>1. monTo' \in [StatusTasks -> SUBSET StatusGroups]
    BY <1>1 DEF Status!TypeOK
  <2>2. \A u \in StatusTasks : monPc'[u] = "judging" <=> monHolder' = u
    BY <1>1 DEF Status!TypeOK
  <2>3. monPc' \in [StatusTasks -> {"free", "hooked", "waiting", "judging", "bad", "ok"}]
    BY <1>1 DEF Status!TypeOK
  <2>4. monUnheard' \in BOOLEAN
    BY <1>2
  <2> QED
    BY <1>1, <2>1, <2>2, <2>3, <2>4 DEF Status!TypeOK
<1>4. (Status!FlipsAlternate)'
  BY <1>1 DEF Status!FlipsAlternate
<1>5. VerdictIsSpoken'
  <2>1. Failing' = Failing
    BY <1>1 DEF Failing, Status!Among
  <2>2. CASE monNewest = t
    <3>1. monPc'[t] = "free" => monOn = {}
      BY <1>1 DEF Status!TypeOK
    <3>2. monPc'[t] = "free" \/ monPc'[t] = "waiting"
      BY <1>1 DEF Status!TypeOK
    <3>3. monPc'[monNewest'] \notin {"hooked", "waiting", "judging"} => monUnheard'
      BY <1>1, <1>2, <2>2, <3>1, <3>2
    <3> QED
      BY <1>1, <3>3 DEF VerdictIsSpoken
  <2>3. CASE monNewest # t
    <3>1. monNewest \in StatusTasks => monPc'[monNewest] = monPc[monNewest]
      BY <1>1, <2>3 DEF Status!TypeOK
    <3>2. ~monUnheard' => ~monUnheard
      BY <1>2
    <3> QED
      BY <1>1, <2>1, <3>1, <3>2 DEF VerdictIsSpoken
  <2> QED
    BY <2>2, <2>3
<1> QED
  BY <1>3, <1>4, <1>5

LEMMA StatusLocked ==
    ASSUME StatusInv, NEW t \in StatusTasks, Status!Lock(t)
    PROVE  StatusInv'
<1> USE StatusAssumed DEF StatusInv
<1>1. /\ monPc[t] = "waiting" /\ monHolder = NoStatusTask /\ monHolder' = t
      /\ monPc' = [monPc EXCEPT ![t] = "judging"]
      /\ monCalls' = monCalls /\ monNewest' = monNewest /\ monTo' = monTo
      /\ monSaved' = monSaved /\ monOn' = monOn /\ monFlips' = monFlips
  BY DEF Status!Lock, Status!callVars
<1>2. monUnheard' = monUnheard
  BY DEF Status!Lock, Status!callVars
<1>3. (Status!TypeOK)'
  <2>1. \A u \in StatusTasks : monPc'[u] = "judging" <=> monHolder' = u
    BY <1>1 DEF Status!TypeOK
  <2>2. monPc' \in [StatusTasks -> {"free", "hooked", "waiting", "judging", "bad", "ok"}]
    BY <1>1 DEF Status!TypeOK
  <2> QED
    BY <1>1, <1>2, <2>1, <2>2 DEF Status!TypeOK
<1>4. (Status!FlipsAlternate)'
  BY <1>1 DEF Status!FlipsAlternate
<1>5. VerdictIsSpoken'
  <2>1. Failing' = Failing
    BY <1>1 DEF Failing, Status!Among
  <2>2. monNewest \in StatusTasks => monPc'[monNewest] \in {monPc[monNewest], "judging"}
    BY <1>1 DEF Status!TypeOK
  <2> QED
    BY <1>1, <1>2, <2>1, <2>2 DEF VerdictIsSpoken
<1> QED
  BY <1>3, <1>4, <1>5

LEMMA StatusTold ==
    ASSUME StatusInv, NEW t \in StatusTasks, NEW g \in StatusGroups, Status!Tell(t, g)
    PROVE  StatusInv'
<1> USE DEF StatusInv
<1>1. /\ monPc[t] \in {"bad", "ok"} /\ monTo' = [monTo EXCEPT ![t] = monTo[t] \ {g}]
      /\ monPc' = IF monTo[t] = {g} THEN [monPc EXCEPT ![t] = "free"] ELSE monPc
      /\ monCalls' = monCalls /\ monNewest' = monNewest /\ monHolder' = monHolder
      /\ monSaved' = monSaved /\ monOn' = monOn /\ monFlips' = monFlips
  BY DEF Status!Tell, Status!callVars
<1>2. monUnheard' = monUnheard
  BY DEF Status!Tell, Status!callVars
<1>3. (Status!TypeOK)'
  <2>1. \A u \in StatusTasks : monPc'[u] = "judging" <=> monHolder' = u
    BY <1>1 DEF Status!TypeOK
  <2>2. monPc' \in [StatusTasks -> {"free", "hooked", "waiting", "judging", "bad", "ok"}]
    BY <1>1 DEF Status!TypeOK
  <2>3. monTo' \in [StatusTasks -> SUBSET StatusGroups]
    BY <1>1 DEF Status!TypeOK
  <2> QED
    BY <1>1, <1>2, <2>1, <2>2, <2>3 DEF Status!TypeOK
<1>4. (Status!FlipsAlternate)'
  BY <1>1 DEF Status!FlipsAlternate
<1>5. VerdictIsSpoken'
  <2>1. Failing' = Failing
    BY <1>1 DEF Failing, Status!Among
  <2>2. monNewest \in StatusTasks =>
           monPc'[monNewest] = monPc[monNewest] \/ monPc[monNewest] \in {"bad", "ok"}
    BY <1>1 DEF Status!TypeOK
  <2> QED
    BY <1>1, <1>2, <2>1, <2>2 DEF VerdictIsSpoken
<1> QED
  BY <1>3, <1>4, <1>5

LEMMA StatusSwitched ==
    ASSUME StatusInv, NEW g \in StatusGroups, Status!Switch(g)
    PROVE  StatusInv'
<1> USE DEF StatusInv
<1>1. /\ monOn' \subseteq StatusGroups
      /\ monCalls' = monCalls /\ monNewest' = monNewest /\ monHolder' = monHolder
      /\ monPc' = monPc /\ monTo' = monTo /\ monSaved' = monSaved /\ monFlips' = monFlips
  BY DEF Status!Switch, Status!callVars, Status!TypeOK
<1>2. monUnheard' = monUnheard
  BY DEF Status!Switch, Status!callVars
<1>3. (Status!TypeOK)'
  BY <1>1, <1>2 DEF Status!TypeOK
<1>4. (Status!FlipsAlternate)'
  BY <1>1 DEF Status!FlipsAlternate
<1>5. VerdictIsSpoken'
  BY <1>1, <1>2 DEF VerdictIsSpoken, Failing, Status!Among
<1> QED
  BY <1>3, <1>4, <1>5

\* The lock is given back, and the state changes to what calls for a notice.
LEMMA StatusJudged ==
    ASSUME StatusInv, NEW t \in StatusTasks, Status!Judge(t)
    PROVE  StatusInv'
<1> USE StatusAssumed DEF StatusInv
<1>1. /\ monPc[t] = "judging" /\ monHolder = t /\ monHolder' = NoStatusTask
      /\ monCalls' = monCalls /\ monNewest' = monNewest /\ monOn' = monOn
  BY DEF Status!Judge, Status!Unlocks, Status!callVars
<1>2. monUnheard' = monUnheard
  BY DEF Status!Judge, Status!callVars
<1>3. \/ /\ monSaved # "bad" /\ Status!JudgeFail(Status!Recent)
         /\ monSaved' = "bad" /\ monFlips' = Append(monFlips, "bad")
         /\ monPc' = [monPc EXCEPT ![t] = "bad"] /\ monTo' = monTo
      \/ /\ monSaved = "bad" /\ Status!JudgeRecover(Status!Recent)
         /\ monSaved' = "ok" /\ monFlips' = Append(monFlips, "ok")
         /\ monPc' = [monPc EXCEPT ![t] = "ok"] /\ monTo' = monTo
      \/ /\ monSaved # "bad" => ~Status!JudgeFail(Status!Recent)
         /\ monSaved' = monSaved /\ monFlips' = monFlips
         /\ monPc' = [monPc EXCEPT ![t] = "free"] /\ monTo' = [monTo EXCEPT ![t] = {}]
  BY DEF Status!Judge, Status!Flip, Status!Settles
<1>4. /\ monSaved' \in {"unset", "bad", "ok"} /\ monFlips' \in Seq({"bad", "ok"})
      /\ monTo' \in [StatusTasks -> SUBSET StatusGroups]
  <2>1. /\ monSaved \in {"unset", "bad", "ok"} /\ monFlips \in Seq({"bad", "ok"})
        /\ monTo \in [StatusTasks -> SUBSET StatusGroups]
    BY DEF Status!TypeOK
  <2>2. monTo' \in {monTo, [monTo EXCEPT ![t] = {}]}
        /\ monFlips' \in {monFlips, Append(monFlips, "bad"), Append(monFlips, "ok")}
        /\ monSaved' \in {monSaved, "bad", "ok"}
    BY <1>3
  <2>3. monTo' \in [StatusTasks -> SUBSET StatusGroups]
    BY <2>1, <2>2
  <2>4. \A v \in {"bad", "ok"} : Append(monFlips, v) \in Seq({"bad", "ok"})
    BY <2>1
  <2>5. monFlips' \in Seq({"bad", "ok"})
    BY <2>1, <2>2, <2>4
  <2>6. monSaved' \in {"unset", "bad", "ok"}
    BY <2>1, <2>2
  <2> QED
    BY <2>3, <2>5, <2>6
<1>5. \E to \in {"free", "bad", "ok"} : monPc' = [monPc EXCEPT ![t] = to]
  BY <1>3
<1>6. (Status!TypeOK)'
  <2>1. monPc' \in [StatusTasks -> {"free", "hooked", "waiting", "judging", "bad", "ok"}]
    BY <1>5 DEF Status!TypeOK
  <2>2. \A u \in StatusTasks : monPc'[u] = "judging" <=> monHolder' = u
    BY <1>1, <1>5 DEF Status!TypeOK
  <2> QED
    BY <1>1, <1>2, <1>4, <2>1, <2>2 DEF Status!TypeOK
<1>7. /\ (Status!FlipsAlternate)'
      /\ (monSaved = "bad" <=> Len(monFlips) % 2 = 1)'
  <2>1. monSaved = "bad" <=> Len(monFlips) % 2 = 1
    BY DEF VerdictIsSpoken
  <2>2. monFlips \in Seq({"bad", "ok"}) /\ Len(monFlips) \in Nat
    BY DEF Status!TypeOK
  <2>3. CASE monFlips' = monFlips /\ monSaved' = monSaved
    BY <2>1, <2>3 DEF Status!FlipsAlternate
  <2>4. ASSUME NEW v \in {"bad", "ok"}, monFlips' = Append(monFlips, v),
               v = "bad" <=> (Len(monFlips) + 1) % 2 = 1, monSaved' = v
        PROVE  /\ (Status!FlipsAlternate)'
               /\ (monSaved = "bad" <=> Len(monFlips) % 2 = 1)'
    <3>1. /\ Len(monFlips') = Len(monFlips) + 1 /\ monFlips'[Len(monFlips) + 1] = v
          /\ \A i \in 1 .. Len(monFlips) : monFlips'[i] = monFlips[i]
          /\ DOMAIN monFlips' = 1 .. Len(monFlips) + 1 /\ DOMAIN monFlips = 1 .. Len(monFlips)
      BY <2>2, <2>4
    <3>2. \A i \in 1 .. Len(monFlips) + 1 : monFlips'[i] = IF i % 2 = 1 THEN "bad" ELSE "ok"
      <4> SUFFICES ASSUME NEW i \in 1 .. Len(monFlips) + 1
                   PROVE  monFlips'[i] = IF i % 2 = 1 THEN "bad" ELSE "ok"
        OBVIOUS
      <4>1. CASE i \in 1 .. Len(monFlips)
        BY <3>1, <4>1 DEF Status!FlipsAlternate
      <4>2. CASE i = Len(monFlips) + 1
        BY <2>4, <3>1, <4>2
      <4> QED
        BY <2>2, <4>1, <4>2
    <3> QED
      BY <2>4, <3>1, <3>2 DEF Status!FlipsAlternate
  <2>5. CASE monSaved # "bad" /\ monFlips' = Append(monFlips, "bad") /\ monSaved' = "bad"
    <3>1. (Len(monFlips) + 1) % 2 = 1
      BY <2>1, <2>2, <2>5
    <3> QED
      BY <2>4, <2>5, <3>1
  <2>6. CASE monSaved = "bad" /\ monFlips' = Append(monFlips, "ok") /\ monSaved' = "ok"
    <3>1. \A n \in Nat : n % 2 = 1 => (n + 1) % 2 # 1
      OBVIOUS
    <3>2. (Len(monFlips) + 1) % 2 # 1
      BY <2>1, <2>2, <2>6, <3>1
    <3> QED
      BY <2>4, <2>6, <3>2
  <2> QED
    BY <1>3, <2>3, <2>5, <2>6
<1>8. VerdictIsSpoken'
  <2>1. Failing' = Failing
    BY <1>1 DEF Failing, Status!Among
  <2>2. Failing => Status!JudgeFail(Status!Recent) /\ ~Status!JudgeRecover(Status!Recent)
    BY OutageIsJudged
  <2>3. CASE Failing
    BY <1>1, <1>3, <1>7, <2>2, <2>3 DEF VerdictIsSpoken
  <2>4. CASE ~Failing
    BY <1>1, <1>7, <2>1, <2>4 DEF VerdictIsSpoken
  <2> QED
    BY <2>3, <2>4
<1> QED
  BY <1>6, <1>7, <1>8

LEMMA StatusGoesOn == StatusInv /\ [Status!Next]_monVars => StatusInv'
<1> SUFFICES ASSUME StatusInv, [Status!Next]_monVars PROVE StatusInv'
  OBVIOUS
<1>1. CASE UNCHANGED monVars
  <2>1. /\ monCalls' = monCalls /\ monNewest' = monNewest /\ monHolder' = monHolder
        /\ monPc' = monPc /\ monTo' = monTo /\ monSaved' = monSaved /\ monFlips' = monFlips
        /\ monOn' = monOn
    BY <1>1 DEF monVars
  <2>2. monUnheard' = monUnheard
    BY <1>1 DEF monVars
  <2> QED
    BY <2>1, <2>2 DEF StatusInv, Status!TypeOK, Status!FlipsAlternate, VerdictIsSpoken,
                      Failing, Status!Among
<1>2. CASE Status!Next
  BY <1>2, StatusRecorded, StatusEntered, StatusLocked, StatusJudged, StatusTold,
     StatusSwitched DEF Status!Next, Status!Works
<1> QED
  BY <1>1, <1>2

\* With nobody about to judge, the verdict on the latest calls has been spoken.
LEMMA OutagesAreSeen == StatusInv => Status!OutageIsSeen
<1> SUFFICES ASSUME StatusInv, Status!Quiet, ~monUnheard, Failing PROVE monSaved = "bad"
  BY DEF Status!OutageIsSeen, Failing
<1>1. monCalls # <<>>
  BY StatusAssumed DEF Failing, Status!Among
<1> QED
  BY <1>1 DEF StatusInv, VerdictIsSpoken, Status!Quiet

-----------------------------------------------------------------------------
(***************************************************************************)
(* Incoming: a handler has found what lies behind it on its way.           *)
(***************************************************************************)

\* The message and the forward of it, in order.
Shown == incEvent.message.own \o Incoming!Forwarded(incEvent.message)

\* What a handler has found where it is, as long as no call failed.
FoundOnTheWay(h) ==
    /\ incAt[h] \in {"waits", "own"} => incFound[h] = <<>>
    /\ incAt[h] = "forward" =>
          incFound[h] = incEvent.message.own /\ incEvent.message.forwards
    /\ incAt[h] \in {"reply", "replyOwn"} => incFound[h] = Shown
    /\ incAt[h] = "replyForward" =>
          incFound[h] = Shown \o incReplyTo.own /\ incReplyTo.forwards
    /\ incAt[h] \in {"count", "found"} => incFound[h] = Incoming!AllOf(h)
    /\ incAt[h] = "refused" =>
          \/ incEvent.fromSelf /\ incEvent.message.json
          \/ Len(Incoming!AllOf(h)) \notin incWants[h].least .. incWants[h].most

\* Whoever is at the reply wants it, and the event has it.
ReplyIsThere ==
    /\ \A h \in PictureHandlers :
          incAt[h] \in {"replyOwn", "replyForward"} => incWants[h].reply /\ incCarried = "yes"
    /\ incFetched \in {0, 1} /\ (incCarried = "no" => incFetched = 0)

IncomingInv ==
    /\ Incoming!TypeOK
    /\ incFound \in [PictureHandlers -> Seq(Pictures)]
    /\ ReplyIsThere
    /\ incFaults = 0 => \A h \in PictureHandlers : FoundOnTheWay(h)

LEMMA IncomingAssumed ==
    /\ \A m \in Pictured : m.own \in Seq(Pictures) /\ m.forwarded \in Seq(Pictures)
    /\ \A m \in Pictured : Incoming!Forwarded(m) \in Seq(Pictures)
    /\ PictureFaults \in Nat /\ FewestPictures # {} /\ MostPictures # {}
<1>1. /\ \A m \in Pictured : m.own \in Seq(Pictures) /\ m.forwarded \in Seq(Pictures)
      /\ PictureFaults \in Nat /\ FewestPictures # {} /\ MostPictures # {}
  BY InstancesAreSound DEF Incoming!IncomingAssumption
<1>2. <<>> \in Seq(Pictures)
  OBVIOUS
<1> QED
  BY <1>1, <1>2 DEF Incoming!Forwarded

LEMMA IncomingStarts == Incoming!Init => IncomingInv
<1> SUFFICES ASSUME Incoming!Init PROVE IncomingInv
  OBVIOUS
<1> USE IncomingAssumed
<1>1. incWants \in [PictureHandlers -> Incoming!Wants]
  <2>1. PICK w : w \in Incoming!Wants
    <3>1. PICK a \in FewestPictures, b \in MostPictures : TRUE
      OBVIOUS
    <3>2. [least |-> a, most |-> b, reply |-> TRUE] \in Incoming!Wants
      BY DEF Incoming!Wants
    <3> QED
      BY <3>2
  <2> QED
    BY <2>1 DEF Incoming!Init
<1>2. Incoming!TypeOK
  BY <1>1 DEF Incoming!Init, Incoming!TypeOK
<1>3. incFound \in [PictureHandlers -> Seq(Pictures)]
  BY DEF Incoming!Init
<1>4. ReplyIsThere
  BY DEF Incoming!Init, ReplyIsThere
<1>5. \A h \in PictureHandlers : FoundOnTheWay(h)
  BY DEF Incoming!Init, FoundOnTheWay
<1> QED
  BY <1>2, <1>3, <1>4, <1>5 DEF IncomingInv

\* What a handler is to find does not depend on the others.
LEMMA OthersFound ==
    ASSUME IncomingInv, NEW h \in PictureHandlers, NEW g \in PictureHandlers \ {h},
           incFaults = 0, incEvent' = incEvent, incReplyTo' = incReplyTo,
           incAt'[g] = incAt[g], incWants'[g] = incWants[g], incFound'[g] = incFound[g],
           incCarried' = "none" <=> incCarried = "none"
    PROVE  FoundOnTheWay(g)'
<1>1. FoundOnTheWay(g)
  BY DEF IncomingInv
<1>2. Shown' = Shown /\ Incoming!AllOf(g)' = Incoming!AllOf(g)
  BY DEF Shown, Incoming!AllOf, Incoming!Forwarded
<1> QED
  BY <1>1, <1>2 DEF FoundOnTheWay

\* A handler goes on, and has found more; all else stands, but that a call may have
\* failed, or the reply come.
Moves(h, place, pictures) ==
    /\ incEvent' = incEvent /\ incReplyTo' = incReplyTo
    /\ incAt' = [incAt EXCEPT ![h] = place]
    /\ incWants' \in [PictureHandlers -> Incoming!Wants]
    /\ \A g \in PictureHandlers \ {h} : incWants'[g] = incWants[g]
    /\ pictures \in Seq(Pictures)
    /\ incFound' = [incFound EXCEPT ![h] = incFound[h] \o pictures]
    /\ incCarried' = incCarried \/ (incCarried = "no" /\ incCarried' = "yes")
    /\ incFaults' \in 0 .. PictureFaults /\ (incFaults' = 0 => incFaults = 0)
    /\ \/ incFetched' = incFetched /\ (incCarried' = "no" => incCarried = "no")
       \/ incFetched' = incFetched + 1 /\ incFetched = 0 /\ incCarried' = "yes"

\* What is left to show of such a step.
LEMMA HandlerMoves ==
    ASSUME IncomingInv, NEW h \in PictureHandlers,
           NEW place \in {"found", "refused", "failed"} \cup Incoming!Places, NEW pictures,
           Moves(h, place, pictures),
           place \in {"replyOwn", "replyForward"} =>
              incWants'[h].reply /\ incCarried' = "yes",
           incFaults' = 0 => FoundOnTheWay(h)'
    PROVE  IncomingInv'
<1> USE IncomingAssumed DEF IncomingInv
<1>1. /\ incAt \in [PictureHandlers ->
             {"waits", "found", "refused", "failed"} \cup Incoming!Places]
      /\ incFetched \in {0, 1} /\ (incCarried = "no" => incFetched = 0)
      /\ incCarried \in {"none", "no", "yes"}
  BY DEF Incoming!TypeOK, ReplyIsThere
<1>2. /\ incEvent' = incEvent /\ incReplyTo' = incReplyTo
      /\ incAt' = [incAt EXCEPT ![h] = place]
      /\ incWants' \in [PictureHandlers -> Incoming!Wants]
      /\ \A g \in PictureHandlers \ {h} : incWants'[g] = incWants[g]
      /\ incCarried' = incCarried \/ (incCarried = "no" /\ incCarried' = "yes")
      /\ incFaults' \in 0 .. PictureFaults /\ (incFaults' = 0 => incFaults = 0)
  BY DEF Moves
<1>3. incFetched' \in {0, 1} /\ (incCarried' = "no" => incFetched' = 0)
  BY <1>1 DEF Moves
<1>4. (Incoming!TypeOK)'
  <2>1. incFetched' \in 0 .. 2 * PictureFaults + 2
    BY <1>3
  <2>2. incAt' \in [PictureHandlers ->
             {"waits", "found", "refused", "failed"} \cup Incoming!Places]
    BY <1>1, <1>2
  <2>3. incCarried' \in {"none", "no", "yes"}
    BY <1>1, <1>2
  <2> QED
    BY <1>2, <2>1, <2>2, <2>3 DEF Incoming!TypeOK, Incoming!Places, Incoming!Wants
<1>5. incFound' \in [PictureHandlers -> Seq(Pictures)]
  <2>1. incFound[h] \o pictures \in Seq(Pictures)
    BY ConcatProperties DEF Moves
  <2> QED
    BY <2>1 DEF Moves
<1>6. ReplyIsThere'
  <2>1. ASSUME NEW g \in PictureHandlers, incAt'[g] \in {"replyOwn", "replyForward"}
        PROVE  incWants'[g].reply /\ incCarried' = "yes"
    <3>1. CASE g = h
      BY <1>1, <1>2, <2>1, <3>1
    <3>2. CASE g # h
      <4>1. incWants[g].reply /\ incCarried = "yes"
        BY <1>1, <1>2, <2>1, <3>2 DEF ReplyIsThere
      <4> QED
        BY <1>2, <3>2, <4>1
    <3> QED
      BY <3>1, <3>2
  <2> QED
    BY <1>3, <2>1 DEF ReplyIsThere
<1>7. ASSUME incFaults' = 0, NEW g \in PictureHandlers PROVE FoundOnTheWay(g)'
  <2>1. CASE g = h
    BY <1>7, <2>1
  <2>2. CASE g # h
    <3>1. incAt'[g] = incAt[g] /\ incFound'[g] = incFound[g]
      BY <1>1, <1>2, <2>2 DEF Moves
    <3> QED
      BY <1>2, <1>7, <2>2, <3>1, OthersFound
  <2> QED
    BY <2>1, <2>2
<1> QED
  BY <1>4, <1>5, <1>6, <1>7

\* The sequences a handler has found, in the order it finds them.
LEMMA FoundInOrder ==
    ASSUME IncomingInv
    PROVE  /\ incEvent.message \in Pictured /\ incReplyTo \in Pictured
           /\ Shown \in Seq(Pictures)
           /\ <<>> \o incEvent.message.own = incEvent.message.own
           /\ ~incEvent.message.forwards => Shown = incEvent.message.own
           /\ Shown \o <<>> = Shown
           /\ ~incReplyTo.forwards =>
                Shown \o incReplyTo.own = Shown \o (incReplyTo.own \o Incoming!Forwarded(incReplyTo))
           /\ (Shown \o incReplyTo.own) \o Incoming!Forwarded(incReplyTo)
                = Shown \o (incReplyTo.own \o Incoming!Forwarded(incReplyTo))
<1>1. incEvent.message \in Pictured /\ incReplyTo \in Pictured
  BY DEF IncomingInv, Incoming!TypeOK
<1>2. Shown \in Seq(Pictures)
  BY <1>1, IncomingAssumed, ConcatProperties DEF Shown
<1>3. \A s \in Seq(Pictures) : s \o <<>> = s /\ <<>> \o s = s
  BY ConcatEmptySeq
<1>4. ~incEvent.message.forwards => Shown = incEvent.message.own
  BY <1>1, <1>3, IncomingAssumed DEF Shown, Incoming!Forwarded
<1>5. (Shown \o incReplyTo.own) \o Incoming!Forwarded(incReplyTo)
        = Shown \o (incReplyTo.own \o Incoming!Forwarded(incReplyTo))
  <2>1. incReplyTo.own \in Seq(Pictures) /\ Incoming!Forwarded(incReplyTo) \in Seq(Pictures)
    BY <1>1, IncomingAssumed
  <2>2. \A s, t, u \in Seq(Pictures) : (s \o t) \o u = s \o (t \o u)
    BY ConcatAssociative
  <2> QED
    BY ONLY <1>2, <2>1, <2>2
<1>6. ~incReplyTo.forwards => incReplyTo.own \o Incoming!Forwarded(incReplyTo) = incReplyTo.own
  BY <1>1, <1>3, IncomingAssumed DEF Incoming!Forwarded
<1> QED
  BY <1>1, <1>2, <1>3, <1>4, <1>5, <1>6, IncomingAssumed

LEMMA HandlerGoesOn ==
    ASSUME IncomingInv, NEW h \in PictureHandlers,
           \/ Incoming!Start(h) \/ Incoming!TakeOwn(h) \/ Incoming!TakeForward(h)
           \/ Incoming!FetchReply(h) \/ Incoming!MissReply(h) \/ Incoming!HaveReply(h)
           \/ Incoming!TakeReply(h) \/ Incoming!TakeReplyForward(h) \/ Incoming!Count(h)
    PROVE  IncomingInv'
<1> USE IncomingAssumed, FoundInOrder
<1>1. /\ incAt \in [PictureHandlers ->
             {"waits", "found", "refused", "failed"} \cup Incoming!Places]
      /\ incFound \in [PictureHandlers -> Seq(Pictures)] /\ incFaults \in 0 .. PictureFaults
      /\ incWants \in [PictureHandlers -> Incoming!Wants]
      /\ incFetched \in {0, 1} /\ (incCarried = "no" => incFetched = 0)
      /\ incCarried \in {"none", "no", "yes"}
  BY DEF IncomingInv, Incoming!TypeOK, ReplyIsThere
<1>2. incFound = [incFound EXCEPT ![h] = incFound[h] \o <<>>] /\ <<>> \in Seq(Pictures)
  BY <1>1, ConcatEmptySeq
<1>3. incFaults = 0 => FoundOnTheWay(h)
  BY DEF IncomingInv
<1>4. incAt[h] \in {"replyOwn", "replyForward"} => incWants[h].reply /\ incCarried = "yes"
  BY DEF IncomingInv, ReplyIsThere
<1>5. ASSUME incEvent' = incEvent, incReplyTo' = incReplyTo
      PROVE  Shown' = Shown /\ Incoming!Forwarded(incReplyTo)' = Incoming!Forwarded(incReplyTo)
  BY <1>5 DEF Shown, Incoming!Forwarded
<1>6. CASE Incoming!Start(h)
  <2> DEFINE place == IF incEvent.fromSelf /\ incEvent.message.json THEN "refused" ELSE "own"
  <2>1. place \in {"found", "refused", "failed"} \cup Incoming!Places
    BY DEF Incoming!Places
  <2>2. PICK w \in Incoming!Wants : incWants' = [incWants EXCEPT ![h] = w]
    BY <1>6 DEF Incoming!Start
  <2>3. Moves(h, place, <<>>)
    BY <1>1, <1>2, <1>6, <2>2 DEF Incoming!Start, Incoming!Goes, Moves
  <2>4. incAt[h] = "waits" /\ incAt'[h] = place /\ incFaults' = incFaults
        /\ incFound' = incFound /\ incEvent' = incEvent
    BY <1>1, <1>6 DEF Incoming!Start, Incoming!Goes
  <2>5. incFaults' = 0 => FoundOnTheWay(h)'
    BY <1>3, <2>4 DEF FoundOnTheWay
  <2> QED
    BY <2>1, <2>3, <2>5, HandlerMoves
<1>7. CASE Incoming!TakeOwn(h)
  <2> DEFINE place == IF incEvent.message.forwards THEN "forward" ELSE "reply"
  <2>1. place \in {"found", "refused", "failed"} \cup Incoming!Places
    BY DEF Incoming!Places
  <2>2. Moves(h, place, incEvent.message.own)
    BY <1>1, <1>7 DEF Incoming!TakeOwn, Incoming!Goes, Incoming!Adds, Moves
  <2>3. incAt[h] = "own" /\ incAt'[h] = place /\ incFaults' = incFaults
        /\ incFound'[h] = incFound[h] \o incEvent.message.own
        /\ incEvent' = incEvent /\ incReplyTo' = incReplyTo
    BY <1>1, <1>7 DEF Incoming!TakeOwn, Incoming!Goes, Incoming!Adds
  <2>4. incFaults' = 0 => FoundOnTheWay(h)'
    BY <1>3, <1>5, <2>3 DEF FoundOnTheWay
  <2> QED
    BY <2>1, <2>2, <2>4, HandlerMoves
<1>8. ASSUME NEW place, NEW then, NEW of \in Pictured,
             Incoming!TakeForwarded(h, place, of, then),
             <<place, of, then>> \in {<<"forward", incEvent.message, "reply">>,
                                      <<"replyForward", incReplyTo, "count">>}
      PROVE  IncomingInv'
  <2>1. /\ incAt[h] = place /\ incEvent' = incEvent /\ incReplyTo' = incReplyTo
        /\ incCarried' = incCarried /\ incWants' = incWants /\ incFetched' = incFetched
    BY <1>8 DEF Incoming!TakeForwarded
  <2>2. CASE Incoming!Adds(h, Incoming!Forwarded(of)) /\ Incoming!Goes(h, then)
             /\ incFaults' = incFaults
    <3>1. then \in {"found", "refused", "failed"} \cup Incoming!Places
          /\ then \notin {"replyOwn", "replyForward"}
      BY <1>8 DEF Incoming!Places
    <3>2. Moves(h, then, Incoming!Forwarded(of))
      BY <1>1, <1>8, <2>1, <2>2 DEF Incoming!Goes, Incoming!Adds, Moves
    <3>3. incAt'[h] = then /\ incFound'[h] = incFound[h] \o Incoming!Forwarded(of)
      BY <1>1, <2>2 DEF Incoming!Goes, Incoming!Adds
    <3>4. CASE place = "forward" /\ then = "reply" /\ of = incEvent.message
      <4>1. incFaults' = 0 => FoundOnTheWay(h)'
        BY <1>3, <1>5, <2>1, <2>2, <3>3, <3>4 DEF FoundOnTheWay, Shown
      <4> QED
        BY <3>1, <3>2, <4>1, HandlerMoves
    <3>5. CASE place = "replyForward" /\ then = "count" /\ of = incReplyTo
      <4>1. Incoming!AllOf(h)' = Shown \o (incReplyTo.own \o Incoming!Forwarded(incReplyTo))
        BY <1>4, <1>5, <2>1, <3>5 DEF Incoming!AllOf, Shown
      <4>2. incFaults' = 0 => FoundOnTheWay(h)'
        BY <1>3, <2>1, <2>2, <3>3, <3>5, <4>1 DEF FoundOnTheWay
      <4> QED
        BY <3>1, <3>2, <4>2, HandlerMoves
    <3> QED
      BY <1>8, <3>4, <3>5
  <2>3. CASE incFaults < PictureFaults /\ incFaults' = incFaults + 1
             /\ Incoming!Goes(h, "failed") /\ incFound' = incFound
    <3>1. Moves(h, "failed", <<>>) /\ incFaults' # 0
      BY <1>1, <1>2, <2>1, <2>3 DEF Incoming!Goes, Moves
    <3> QED
      BY <3>1, HandlerMoves
  <2> QED
    BY <1>8, <2>2, <2>3 DEF Incoming!TakeForwarded
<1>9. CASE Incoming!TakeForward(h) \/ Incoming!TakeReplyForward(h)
  BY <1>8, <1>9 DEF Incoming!TakeForward, Incoming!TakeReplyForward
<1>10. CASE Incoming!FetchReply(h)
  <2>1. Moves(h, "replyOwn", <<>>)
    BY <1>1, <1>2, <1>10 DEF Incoming!FetchReply, Incoming!Goes, Moves
  <2>2. incAt[h] = "reply" /\ incAt'[h] = "replyOwn" /\ incFaults' = incFaults
        /\ incFound' = incFound /\ incEvent' = incEvent /\ incReplyTo' = incReplyTo
        /\ incWants'[h].reply /\ incCarried' = "yes"
    BY <1>1, <1>10 DEF Incoming!FetchReply, Incoming!Goes
  <2>3. incFaults' = 0 => FoundOnTheWay(h)'
    BY <1>3, <1>5, <2>2 DEF FoundOnTheWay
  <2> QED
    BY <2>1, <2>2, <2>3, HandlerMoves DEF Incoming!Places
<1>11. CASE Incoming!MissReply(h)
  <2>1. Moves(h, "count", <<>>) /\ incFaults' # 0
    BY <1>1, <1>2, <1>11 DEF Incoming!MissReply, Incoming!Goes, Moves
  <2> QED
    BY <2>1, HandlerMoves DEF Incoming!Places
<1>12. CASE Incoming!HaveReply(h)
  <2>1. /\ incAt[h] = "reply" /\ incFaults' = incFaults /\ incFound' = incFound
        /\ incEvent' = incEvent /\ incReplyTo' = incReplyTo /\ incWants' = incWants
        /\ incCarried' = incCarried /\ incFetched' = incFetched
    BY <1>12 DEF Incoming!HaveReply
  <2>2. CASE incWants[h].reply /\ incCarried = "yes" /\ Incoming!Goes(h, "replyOwn")
    <3>1. Moves(h, "replyOwn", <<>>) /\ incAt'[h] = "replyOwn"
      BY <1>1, <1>2, <2>1, <2>2 DEF Incoming!Goes, Moves
    <3>2. incFaults' = 0 => FoundOnTheWay(h)'
      BY <1>3, <1>5, <2>1, <3>1 DEF FoundOnTheWay
    <3> QED
      BY <2>1, <2>2, <3>1, <3>2, HandlerMoves DEF Incoming!Places
  <2>3. CASE (~incWants[h].reply \/ incCarried = "none") /\ Incoming!Goes(h, "count")
    <3>1. Moves(h, "count", <<>>) /\ incAt'[h] = "count"
      BY <1>1, <1>2, <2>1, <2>3 DEF Incoming!Goes, Moves
    <3>2. Incoming!AllOf(h)' = Shown \o <<>>
      BY <1>5, <2>1, <2>3 DEF Incoming!AllOf, Shown
    <3>3. incFaults' = 0 => FoundOnTheWay(h)'
      BY <1>3, <2>1, <3>1, <3>2 DEF FoundOnTheWay
    <3> QED
      BY <3>1, <3>3, HandlerMoves DEF Incoming!Places
  <2> QED
    BY <1>12, <2>2, <2>3 DEF Incoming!HaveReply
<1>13. CASE Incoming!TakeReply(h)
  <2> DEFINE place == IF incReplyTo.forwards THEN "replyForward" ELSE "count"
  <2>1. place \in {"found", "refused", "failed"} \cup Incoming!Places
    BY DEF Incoming!Places
  <2>2. Moves(h, place, incReplyTo.own)
    BY <1>1, <1>13 DEF Incoming!TakeReply, Incoming!Goes, Incoming!Adds, Moves
  <2>3. incAt[h] = "replyOwn" /\ incAt'[h] = place /\ incFaults' = incFaults
        /\ incFound'[h] = incFound[h] \o incReplyTo.own /\ incWants' = incWants
        /\ incEvent' = incEvent /\ incReplyTo' = incReplyTo /\ incCarried' = incCarried
    BY <1>1, <1>13 DEF Incoming!TakeReply, Incoming!Goes, Incoming!Adds
  <2>4. Incoming!AllOf(h)' = Shown \o (incReplyTo.own \o Incoming!Forwarded(incReplyTo))
    BY <1>4, <1>5, <2>3 DEF Incoming!AllOf, Shown
  <2>5. incFaults' = 0 => FoundOnTheWay(h)'
    BY <1>3, <1>5, <2>3, <2>4 DEF FoundOnTheWay
  <2>6. incWants'[h].reply /\ incCarried' = "yes"
    BY <1>4, <2>3
  <2> QED
    BY <2>1, <2>2, <2>5, <2>6, HandlerMoves
<1>14. CASE Incoming!Count(h)
  <2> DEFINE place == IF Len(incFound[h]) \in incWants[h].least .. incWants[h].most
                      THEN "found" ELSE "refused"
  <2>1. Moves(h, place, <<>>)
    BY <1>1, <1>2, <1>14 DEF Incoming!Count, Incoming!Goes, Moves
  <2>2. incAt[h] = "count" /\ incAt'[h] = place /\ incFaults' = incFaults
        /\ incFound' = incFound /\ incWants' = incWants /\ incCarried' = incCarried
        /\ incEvent' = incEvent /\ incReplyTo' = incReplyTo
    BY <1>1, <1>14 DEF Incoming!Count, Incoming!Goes
  <2>3. Incoming!AllOf(h)' = Incoming!AllOf(h)
    BY <1>5, <2>2 DEF Incoming!AllOf, Incoming!Forwarded
  <2>4. incFaults' = 0 => FoundOnTheWay(h)'
    BY <1>3, <2>2, <2>3 DEF FoundOnTheWay
  <2> QED
    BY <2>1, <2>4, HandlerMoves
<1> QED
  BY <1>6, <1>7, <1>9, <1>10, <1>11, <1>12, <1>13, <1>14

LEMMA IncomingGoesOn == IncomingInv /\ [Incoming!Next]_incVars => IncomingInv'
<1> SUFFICES ASSUME IncomingInv, [Incoming!Next]_incVars PROVE IncomingInv'
  OBVIOUS
<1>1. CASE UNCHANGED incVars
  BY <1>1 DEF incVars, IncomingInv, Incoming!TypeOK, ReplyIsThere, FoundOnTheWay, Shown,
              Incoming!AllOf, Incoming!Forwarded
<1>2. CASE Incoming!Next
  BY <1>2, HandlerGoesOn DEF Incoming!Next
<1> QED
  BY <1>1, <1>2

LEMMA PicturesAreFound ==
    IncomingInv => Incoming!EveryPictureIsFound /\ Incoming!ReplyIsAskedOnce
  BY DEF IncomingInv, FoundOnTheWay, ReplyIsThere, Incoming!EveryPictureIsFound,
         Incoming!ReplyIsAskedOnce

-----------------------------------------------------------------------------
(***************************************************************************)
(* Dispatch: what is logged, recorded and run for a message.               *)
(***************************************************************************)

\* Where the task of a report is while the dispatcher tries the handlers.
Dispatched == {"trying", "asking", "noticing", "running", "replying"}

\* The lines of the log about a message, and the reports of it that will write one.
LogLines(i) == {n \in DOMAIN dispLogged : dispLogged[n] = i}
Naming(i) == {r \in Reported : r[1] = i /\ dispPc[r] = "naming"}

\* The types that the log, the queue of the recorder and the runs have besides, and what
\* is known of a message that was reported.
Typed ==
    /\ Events!TypeOK
    /\ dispLogged \in Seq(MessageIds) /\ dispRecorded \in Seq(MessageIds)
    /\ dispRuns \in Seq([report : Reported, handler : DOMAIN Commands, at : Nat])
    /\ \A r \in Reported : dispPc[r] # "unread" => Events!Message(r) \in Events!Contents
    /\ \A r \in Reported : dispPc[r] = "naming" => Events!Message(r).group \in EventGroups

\* A message that was logged, or will be, is remembered, or was when the set of seen
\* ids was emptied.
LoggedOnce ==
    /\ IsFiniteSet(dispSeen)
    /\ \A i \in MessageIds :
          /\ IsFiniteSet(Naming(i))
          /\ i \in dispSeen =>
                Cardinality(LogLines(i)) + Cardinality(Naming(i)) <= 1 + dispOverflows
          /\ i \notin dispSeen =>
                Cardinality(LogLines(i)) + Cardinality(Naming(i)) <= dispOverflows

\* A message that waits for its hooks is noted, is the only one of its id that waits,
\* and is not yet recorded; what has handlers to try is noted.
HooksOnce ==
    /\ \A n \in DOMAIN dispRecorded : dispRecorded[n] \in dispNoted
    /\ \A m, n \in DOMAIN dispRecorded : dispRecorded[m] = dispRecorded[n] => m = n
    /\ \A r \in Reported : dispPc[r] = "hooks" =>
          /\ r[1] \in dispNoted
          /\ \A n \in DOMAIN dispRecorded : dispRecorded[n] # r[1]
          /\ \A q \in Reported : dispPc[q] = "hooks" /\ q[1] = r[1] => q = r
    /\ \A r \in Reported : dispPc[r] \in Dispatched /\ dispRank[r] # {} => r[1] \in dispNoted

\* A run is not later than the last one its cooldown knows of; and while a blocking
\* command has not let go of its report, it is the one the dispatcher is at.
RunsAreKept ==
    \A n \in DOMAIN dispRuns :
        LET r == dispRuns[n].report
            h == dispRuns[n].handler
            u == Events!Message(r).user
        IN  /\ dispPc[r] \in Dispatched \cup {"done"} /\ r[1] \in dispNoted
            /\ dispRuns[n].at <= dispClock
            /\ Commands[h].cd \in Cooldowns /\ u \notin Superusers =>
                  dispRuns[n].at <= dispLast[Commands[h].cd][u]
            /\ Commands[h].block => dispPc[r] \in {"running", "replying", "done"}
            /\ \A q \in Reported : q = r /\ Commands[h].block
                                  /\ dispPc[q] \in {"running", "replying"} => h = Events!Best(q)

EventsInv ==
    /\ Typed /\ LoggedOnce /\ HooksOnce /\ RunsAreKept
    /\ Events!CooldownSpaces /\ Events!NothingAfterABlock

LEMMA EventsAssumed ==
    /\ {CoolSeconds, NoticeSeconds, SeenLimit, EventTime} \subseteq Nat
    /\ Reported \subseteq MessageIds \X Nat
    /\ \A r \in Reported : r[1] \in MessageIds
    /\ NoEventGroup \notin EventGroups /\ NoCooldown \notin Cooldowns
    /\ Events!Long \in Int /\ 0 \in 0 .. EventTime
<1>1. /\ {CoolSeconds, NoticeSeconds, SeenLimit, EventTime} \subseteq Nat
      /\ Reported \subseteq MessageIds \X Nat
      /\ NoEventGroup \notin EventGroups /\ NoCooldown \notin Cooldowns
  BY InstancesAreSound DEF Events!DispatchAssumption
<1>2. \A r \in Reported : r[1] \in MessageIds
  BY <1>1
<1>3. Events!Long \in Int /\ 0 \in 0 .. EventTime
  BY <1>1 DEF Events!Long
<1> QED
  BY <1>1, <1>2, <1>3

LEMMA EventCounts == \A S : Events!Cardinality(S) = Cardinality(S)
  BY DEF Events!Cardinality, Events!IsFiniteSet, Cardinality, IsFiniteSet

LEMMA EventsStart == Events!Init => EventsInv
<1> SUFFICES ASSUME Events!Init PROVE EventsInv
  OBVIOUS
<1> USE EventsAssumed DEF Events!Init
<1>1. IsFiniteSet({}) /\ Cardinality({}) = 0
  BY FS_EmptySet
<1>2. Events!TypeOK
  <2>1. Events!Cardinality(dispSeen) <= SeenLimit
    BY <1>1, EventCounts
  <2>2. /\ dispContent \in [MessageIds -> Events!Contents \cup {Events!NoContent}]
        /\ dispPc \in [Reported -> Events!Places]
        /\ dispRank \in [Reported -> SUBSET DOMAIN Commands]
    BY DEF Events!Places
  <2>3. {dispLast, dispLastNotice}
          \subseteq [Cooldowns -> [Events!Users -> {Events!Long} \cup 0 .. EventTime]]
    OBVIOUS
  <2>4. Events!Range(dispLogged) = {} /\ Events!Range(dispRecorded) = {}
    BY DEF Events!Range
  <2> QED
    BY <2>1, <2>2, <2>3, <2>4 DEF Events!TypeOK
<1>3. Typed
  BY <1>2 DEF Typed
<1>4. LoggedOnce
  <2>1. \A i \in MessageIds : Naming(i) = {} /\ LogLines(i) = {}
    BY DEF Naming, LogLines
  <2>2. \A i \in MessageIds : /\ Cardinality(LogLines(i)) = 0 /\ Cardinality(Naming(i)) = 0
                              /\ IsFiniteSet(Naming(i))
    BY <1>1, <2>1
  <2>3. dispOverflows = 0 /\ dispSeen = {}
    OBVIOUS
  <2> QED
    BY ONLY <1>1, <2>2, <2>3 DEF LoggedOnce
<1>5. HooksOnce
  BY DEF HooksOnce, Dispatched
<1>6. RunsAreKept /\ Events!CooldownSpaces /\ Events!NothingAfterABlock
  BY DEF RunsAreKept, Events!CooldownSpaces, Events!NothingAfterABlock
<1> QED
  BY <1>3, <1>4, <1>5, <1>6 DEF EventsInv

\* What is known of one run.
LEMMA RunIsKept ==
    ASSUME RunsAreKept, NEW n \in DOMAIN dispRuns, dispRuns[n].report \in Reported
    PROVE  LET q == dispRuns[n].report
               k == dispRuns[n].handler
               u == Events!Message(q).user
           IN  /\ dispPc[q] \in Dispatched \cup {"done"} /\ q[1] \in dispNoted
               /\ dispRuns[n].at <= dispClock
               /\ Commands[k].cd \in Cooldowns /\ u \notin Superusers =>
                     dispRuns[n].at <= dispLast[Commands[k].cd][u]
               /\ Commands[k].block => dispPc[q] \in {"running", "replying", "done"}
               /\ Commands[k].block /\ dispPc[q] \in {"running", "replying"} => k = Events!Best(q)
<1> DEFINE q == dispRuns[n].report
           k == dispRuns[n].handler
<1>1. \A p \in Reported : p = q /\ Commands[k].block
                              /\ dispPc[p] \in {"running", "replying"} => k = Events!Best(p)
  BY DEF RunsAreKept
<1>2. Commands[k].block /\ dispPc[q] \in {"running", "replying"} => k = Events!Best(q)
  <2> HIDE DEF q, k
  <2> QED
    BY <1>1 DEF q
<1> QED
  BY <1>2 DEF RunsAreKept

\* A task between two awaits: the handlers that are left may become fewer.
Passes(r, to) ==
    /\ dispPc' = [dispPc EXCEPT ![r] = to]
    /\ dispContent' = dispContent /\ dispSeen' = dispSeen
    /\ dispOverflows' = dispOverflows /\ dispLogged' = dispLogged /\ dispNamed' = dispNamed
    /\ dispNoted' = dispNoted /\ dispRecorded' = dispRecorded
    /\ dispClock' = dispClock /\ dispLast' = dispLast /\ dispRuns' = dispRuns
    /\ dispLastNotice' \in [Cooldowns -> [Events!Users -> {Events!Long} \cup 0 .. EventTime]]
    /\ dispToMe' \subseteq Reported /\ dispOn' \subseteq EventGroups
    /\ dispRank' = dispRank \/ dispRank' = [dispRank EXCEPT ![r] = @ \ {Events!Best(r)}]

LEMMA TaskPasses ==
    ASSUME EventsInv, NEW r \in Reported, dispPc[r] \in Dispatched,
           NEW to \in Dispatched \cup {"done"}, Passes(r, to),
           \/ dispPc[r] \notin {"running", "replying"} \/ to = "done"
           \/ to \in {"running", "replying"} /\ dispRank' = dispRank
           \/ ~Commands[Events!Best(r)].block
    PROVE  EventsInv'
<1> USE EventsAssumed DEF EventsInv, Passes
<1>1. /\ dispPc \in [Reported -> Events!Places]
      /\ dispRank \in [Reported -> SUBSET DOMAIN Commands]
  BY DEF Typed, Events!TypeOK
<1>2. /\ dispPc' \in [Reported -> Events!Places] /\ dispPc'[r] = to
      /\ \A q \in Reported \ {r} : dispPc'[q] = dispPc[q]
  BY <1>1 DEF Events!Places, Dispatched
<1>3. /\ dispRank' \in [Reported -> SUBSET DOMAIN Commands]
      /\ \A q \in Reported : dispRank'[q] \subseteq dispRank[q]
      /\ \A q \in Reported \ {r} : dispRank'[q] = dispRank[q]
  BY <1>1
<1>4. \A q \in Reported : Events!Message(q)' = Events!Message(q)
  BY DEF Events!Message
<1>5. Typed'
  <2>1. (Events!TypeOK)'
    BY <1>2, <1>3 DEF Typed, Events!TypeOK
  <2>2. \A q \in Reported : /\ dispPc'[q] # "unread" => dispPc[q] # "unread"
                            /\ dispPc'[q] = "naming" => dispPc[q] = "naming"
    BY <1>2 DEF Dispatched
  <2> QED
    BY <1>4, <2>1, <2>2 DEF Typed
<1>6. LoggedOnce'
  <2>1. \A i \in MessageIds : Naming(i)' = Naming(i) /\ LogLines(i)' = LogLines(i)
    BY <1>2 DEF Naming, LogLines, Dispatched
  <2> QED
    BY <2>1 DEF LoggedOnce
<1>7. HooksOnce'
  <2>1. \A q \in Reported : dispPc'[q] = "hooks" => q # r /\ dispPc[q] = "hooks"
    BY <1>2 DEF Dispatched
  <2>2. \A q \in Reported : dispPc'[q] \in Dispatched /\ dispRank'[q] # {}
                            => dispPc[q] \in Dispatched /\ dispRank[q] # {}
    BY <1>2, <1>3
  <2> QED
    BY <2>1, <2>2 DEF HooksOnce
<1>8. RunsAreKept'
  <2> SUFFICES ASSUME NEW n \in DOMAIN dispRuns
               PROVE  LET q == dispRuns[n].report
                          h == dispRuns[n].handler
                          u == Events!Message(q).user
                      IN  /\ dispPc'[q] \in Dispatched \cup {"done"} /\ q[1] \in dispNoted
                          /\ dispRuns[n].at <= dispClock
                          /\ Commands[h].cd \in Cooldowns /\ u \notin Superusers =>
                                dispRuns[n].at <= dispLast[Commands[h].cd][u]
                          /\ Commands[h].block => dispPc'[q] \in {"running", "replying", "done"}
                          /\ Commands[h].block /\ dispPc'[q] \in {"running", "replying"}
                                => h = Events!Best(q)'
    BY <1>4 DEF RunsAreKept, Events!Message
  <2> DEFINE q == dispRuns[n].report
             h == dispRuns[n].handler
  <2>1. q \in Reported
    <3>1. dispRuns \in Seq([report : Reported, handler : DOMAIN Commands, at : Nat])
      BY DEF Typed
    <3>2. n \in 1 .. Len(dispRuns)
      BY <3>1
    <3>3. dispRuns[n] \in [report : Reported, handler : DOMAIN Commands, at : Nat]
      BY ONLY <3>1, <3>2, ElementOfSeq
    <3> QED
      BY <3>3
  <2>2. /\ dispPc[q] \in Dispatched \cup {"done"} /\ q[1] \in dispNoted
        /\ dispRuns[n].at <= dispClock
        /\ Commands[h].cd \in Cooldowns /\ Events!Message(q).user \notin Superusers =>
              dispRuns[n].at <= dispLast[Commands[h].cd][Events!Message(q).user]
        /\ Commands[h].block => dispPc[q] \in {"running", "replying", "done"}
        /\ Commands[h].block /\ dispPc[q] \in {"running", "replying"} => h = Events!Best(q)
    BY <2>1, RunIsKept
  <2>3. dispRank'[q] = dispRank[q] => Events!Best(q)' = Events!Best(q)
    BY DEF Events!Best, Events!Message
  <2> DEFINE Held == /\ dispPc'[q] \in Dispatched \cup {"done"}
                     /\ Commands[h].block => dispPc'[q] \in {"running", "replying", "done"}
                     /\ Commands[h].block /\ dispPc'[q] \in {"running", "replying"}
                           => h = Events!Best(q)'
  <2>4. Held
    <3> HIDE DEF q, h
    <3>1. CASE q # r
      BY <1>2, <1>3, <2>1, <2>2, <2>3, <3>1
    <3>2. CASE q = r
      <4>1. dispPc'[q] = to
        BY <1>2, <3>2
      <4>2. Commands[h].block =>
               \/ to = "done"
               \/ to \in {"running", "replying"} /\ dispRank' = dispRank
        <5> HIDE DEF Passes, EventsInv
        <5>1. Commands[h].block => dispPc[r] \in {"running", "replying"}
          BY <2>2, <3>2 DEF Dispatched
        <5>2. Commands[h].block => Commands[Events!Best(r)].block
          <6>1. Commands[h].block => h = Events!Best(q)
            BY <2>2, <3>2, <5>1
          <6> QED
            BY <3>2, <6>1
        <5>3. \/ dispPc[r] \notin {"running", "replying"} \/ to = "done"
              \/ to \in {"running", "replying"} /\ dispRank' = dispRank
              \/ ~Commands[Events!Best(r)].block
          OBVIOUS
        <5> QED
          BY ONLY <5>1, <5>2, <5>3
      <4> HIDE DEF Passes, EventsInv
      <4> QED
        BY <2>2, <2>3, <3>2, <4>1, <4>2 DEF Dispatched
    <3> QED
      BY <3>1, <3>2
  <2> HIDE DEF Held
  <2> QED
    BY <2>2, <2>4 DEF Held
<1>9. (Events!CooldownSpaces)' /\ (Events!NothingAfterABlock)'
  BY DEF Events!CooldownSpaces, Events!NothingAfterABlock, Events!Message
<1> QED
  BY <1>5, <1>6, <1>7, <1>8, <1>9

LEMMA TaskGoesOn ==
    ASSUME EventsInv, NEW r \in Reported,
           \/ \E h \in dispRank[r] : Events!Refuse(r, h) \/ Events!Ask(r, h) \/ Events!Cool(r, h)
           \/ \E mine \in BOOLEAN : Events!AskAnswered(r, mine)
           \/ Events!NoticeSent(r) \/ Events!Exhaust(r)
           \/ Events!RunEnds(r) \/ Events!RunFails(r)
           \/ \E g \in EventGroups : Events!Switch(r, g)
           \/ \E sent \in BOOLEAN : Events!ReplySent(r, sent)
    PROVE  EventsInv'
<1> USE EventsAssumed
<1>1. /\ dispPc \in [Reported -> Events!Places]
      /\ dispRank \in [Reported -> SUBSET DOMAIN Commands]
      /\ dispLastNotice \in [Cooldowns -> [Events!Users -> {Events!Long} \cup 0 .. EventTime]]
      /\ dispToMe \subseteq Reported /\ dispOn \subseteq EventGroups
      /\ dispClock \in 0 .. EventTime
  BY DEF EventsInv, Typed, Events!TypeOK
<1> USE DEF Passes, Dispatched, Events!Goes, Events!Next1, Events!logVars, Events!recVars,
            Events!cdVars
<1>2. ASSUME NEW h \in dispRank[r], Events!Refuse(r, h)
      PROVE  EventsInv'
  <2>1. Passes(r, "trying") /\ dispPc[r] = "trying"
    BY <1>1, <1>2 DEF Events!Refuse, Events!Tries
  <2> QED
    BY <2>1, TaskPasses
<1>3. ASSUME NEW h \in dispRank[r], Events!Ask(r, h)
      PROVE  EventsInv'
  <2>1. Passes(r, "asking") /\ dispPc[r] = "trying"
    BY <1>1, <1>3 DEF Events!Ask, Events!Tries
  <2> QED
    BY <2>1, TaskPasses
<1>4. ASSUME NEW h \in dispRank[r], Events!Cool(r, h)
      PROVE  EventsInv'
  <2>1. dispPc[r] = "trying"
    BY <1>4 DEF Events!Cool, Events!Tries
  <2>2. \A d, u : [dispLastNotice EXCEPT ![d][u] = dispClock]
                    \in [Cooldowns -> [Events!Users -> {Events!Long} \cup 0 .. EventTime]]
    BY <1>1
  <2>3. Passes(r, "noticing") \/ Passes(r, "trying")
    BY <1>1, <1>4, <2>1, <2>2 DEF Events!Cool
  <2> QED
    BY <2>1, <2>3, TaskPasses
<1>5. ASSUME NEW mine \in BOOLEAN, Events!AskAnswered(r, mine)
      PROVE  EventsInv'
  <2>1. Passes(r, "trying") /\ dispPc[r] = "asking"
    BY <1>1, <1>5 DEF Events!AskAnswered
  <2> QED
    BY <2>1, TaskPasses
<1>6. CASE Events!NoticeSent(r)
  <2>1. Passes(r, "trying") /\ dispPc[r] = "noticing"
    BY <1>1, <1>6 DEF Events!NoticeSent
  <2> QED
    BY <2>1, TaskPasses
<1>7. CASE Events!Exhaust(r)
  <2>1. Passes(r, "done") /\ dispPc[r] = "trying"
    BY <1>1, <1>7 DEF Events!Exhaust
  <2> QED
    BY <2>1, TaskPasses
<1>8. ASSUME Events!Leaves(r), dispPc[r] \in {"running", "replying"},
             UNCHANGED <<dispContent, dispToMe, Events!logVars, Events!recVars, Events!cdVars,
                         dispClock, dispOn, dispRuns>>
      PROVE  EventsInv'
  <2>1. CASE Commands[Events!Best(r)].block
    <3>1. Passes(r, "done")
      BY <1>1, <1>8, <2>1 DEF Events!Leaves
    <3> QED
      BY <1>8, <3>1, TaskPasses
  <2>2. CASE ~Commands[Events!Best(r)].block
    <3>1. Passes(r, "trying")
      BY <1>1, <1>8, <2>2 DEF Events!Leaves
    <3> QED
      BY <1>8, <2>2, <3>1, TaskPasses
  <2> QED
    BY <2>1, <2>2
<1>9. CASE Events!RunEnds(r)
  BY <1>8, <1>9 DEF Events!RunEnds
<1>10. CASE Events!RunFails(r)
  <2>1. Passes(r, "replying") /\ dispPc[r] = "running" /\ dispRank' = dispRank
    BY <1>1, <1>10 DEF Events!RunFails
  <2> QED
    BY <2>1, TaskPasses
<1>11. ASSUME NEW g \in EventGroups, Events!Switch(r, g)
       PROVE  EventsInv'
  <2>1. Passes(r, "replying") /\ dispPc[r] = "running" /\ dispRank' = dispRank
    BY <1>1, <1>11 DEF Events!Switch
  <2> QED
    BY <2>1, TaskPasses
<1>12. ASSUME NEW sent \in BOOLEAN, Events!ReplySent(r, sent)
       PROVE  EventsInv'
  <2>1. CASE sent
    BY <1>8, <1>12, <2>1 DEF Events!ReplySent
  <2>2. CASE ~sent
    <3>1. Passes(r, "done") /\ dispPc[r] = "replying"
      BY <1>1, <1>12, <2>2 DEF Events!ReplySent
    <3> QED
      BY <3>1, TaskPasses
  <2> QED
    BY <2>1, <2>2
<1> QED
  BY <1>2, <1>3, <1>4, <1>5, <1>6, <1>7, <1>9, <1>10, <1>11, <1>12

\* A command starts: the cooldown it was checked against has let go of every earlier run,
\* and no earlier command has blocked the report.
LEMMA CommandRuns ==
    ASSUME EventsInv, NEW r \in Reported, NEW h \in dispRank[r], Events!Run(r, h)
    PROVE  EventsInv'
<1> DEFINE c == Events!Message(r)
           d == Commands[h].cd
           run == [report |-> r, handler |-> h, at |-> dispClock]
           L == Len(dispRuns)
<1> USE EventsAssumed DEF EventsInv
<1>1. /\ dispPc \in [Reported -> Events!Places]
      /\ dispRank \in [Reported -> SUBSET DOMAIN Commands]
      /\ dispLast \in [Cooldowns -> [Events!Users -> {Events!Long} \cup 0 .. EventTime]]
      /\ dispClock \in 0 .. EventTime
      /\ dispRuns \in Seq([report : Reported, handler : DOMAIN Commands, at : Nat])
      /\ dispClock \in Nat
  BY DEF Typed, Events!TypeOK
<1>2. /\ dispContent' = dispContent /\ dispRank' = dispRank /\ dispToMe' = dispToMe
      /\ dispSeen' = dispSeen /\ dispOverflows' = dispOverflows /\ dispLogged' = dispLogged
      /\ dispNamed' = dispNamed /\ dispNoted' = dispNoted /\ dispRecorded' = dispRecorded
      /\ dispLastNotice' = dispLastNotice /\ dispClock' = dispClock /\ dispOn' = dispOn
      /\ dispPc' = [dispPc EXCEPT ![r] = "running"] /\ dispRuns' = Append(dispRuns, run)
      /\ dispPc[r] = "trying" /\ h = Events!Best(r) /\ ~Events!Cooling(h, c)
  BY DEF Events!Run, Events!Goes, Events!logVars, Events!recVars, Events!Tries
<1>3. dispLast' = IF d \in Cooldowns /\ c.user \notin Superusers
                  THEN [dispLast EXCEPT ![d][c.user] = dispClock] ELSE dispLast
  BY DEF Events!Run
<1>4. /\ dispPc' \in [Reported -> Events!Places] /\ dispPc'[r] = "running"
      /\ \A q \in Reported \ {r} : dispPc'[q] = dispPc[q]
  BY <1>1, <1>2 DEF Events!Places
<1>5. c \in Events!Contents /\ c.user \in Events!Users /\ r[1] \in dispNoted
  <2>1. c \in Events!Contents
    BY <1>2 DEF Typed
  <2>2. r[1] \in dispNoted
    BY <1>2 DEF HooksOnce, Dispatched
  <2> QED
    BY <2>1, <2>2 DEF Events!Users
<1>6. /\ run \in [report : Reported, handler : DOMAIN Commands, at : Nat]
      /\ L \in Nat /\ DOMAIN dispRuns = 1 .. L /\ DOMAIN dispRuns' = 1 .. L + 1
      /\ dispRuns'[L + 1] = run /\ \A n \in 1 .. L : dispRuns'[n] = dispRuns[n]
      /\ dispRuns' \in Seq([report : Reported, handler : DOMAIN Commands, at : Nat])
  <2>1. run \in [report : Reported, handler : DOMAIN Commands, at : Nat]
    BY <1>1
  <2> HIDE DEF run
  <2> QED
    BY <1>1, <1>2, <2>1, AppendProperties
<1>7. \A n \in 1 .. L : /\ dispRuns[n] \in [report : Reported, handler : DOMAIN Commands, at : Nat]
                        /\ dispRuns[n].report \in Reported /\ dispRuns[n].at \in Nat
  <2>1. \A n \in 1 .. L : dispRuns[n] \in [report : Reported, handler : DOMAIN Commands, at : Nat]
    BY <1>1, ElementOfSeq
  <2> QED
    BY <2>1
<1>8. \A n, k \in 1 .. L + 1 : /\ n \in 1 .. L \/ n = L + 1
                               /\ n < k => n \in 1 .. L /\ dispRuns'[n] = dispRuns[n]
  <2>1. L \in Nat /\ \A n \in 1 .. L : dispRuns'[n] = dispRuns[n]
    BY <1>6
  <2> HIDE DEF L
  <2>2. \A n, k \in 1 .. L + 1 : /\ n \in 1 .. L \/ n = L + 1
                                 /\ n < k => n \in 1 .. L
    BY ONLY <2>1
  <2> QED
    BY ONLY <2>1, <2>2
<1>9. /\ dispLast' \in [Cooldowns -> [Events!Users -> {Events!Long} \cup 0 .. EventTime]]
      /\ \A e, u : e \in Cooldowns /\ u \in Events!Users =>
            dispLast'[e][u] = IF e = d /\ u = c.user /\ u \notin Superusers
                              THEN dispClock ELSE dispLast[e][u]
  BY <1>1, <1>3
<1>10. \A q \in Reported : Events!Message(q)' = Events!Message(q) /\ Events!Best(q)' = Events!Best(q)
  BY <1>2 DEF Events!Message, Events!Best
<1> HIDE DEF L, d, c, run
<1>11. Typed'
  <2>1. (Events!TypeOK)'
    BY <1>2, <1>4, <1>9 DEF Typed, Events!TypeOK
  <2> QED
    BY <1>2, <1>4, <1>6, <1>10, <2>1 DEF Typed
<1>12. LoggedOnce'
  <2>1. \A i \in MessageIds : Naming(i)' = Naming(i) /\ LogLines(i)' = LogLines(i)
    BY <1>2, <1>4 DEF Naming, LogLines
  <2> QED
    BY <1>2, <2>1 DEF LoggedOnce
<1>13. HooksOnce'
  <2>1. \A q \in Reported : dispPc'[q] = "hooks" => dispPc[q] = "hooks"
    BY <1>4
  <2>2. \A q \in Reported : dispPc'[q] \in Dispatched => dispPc[q] \in Dispatched
    BY <1>2, <1>4 DEF Dispatched
  <2> QED
    BY <1>2, <2>1, <2>2 DEF HooksOnce
\* What is known of the runs before this one.
<1>14. ASSUME NEW n \in 1 .. L
       PROVE  LET q == dispRuns[n].report
                  k == dispRuns[n].handler
                  u == Events!Message(q).user
              IN  /\ dispPc[q] \in Dispatched \cup {"done"} /\ q[1] \in dispNoted
                  /\ dispRuns[n].at <= dispClock
                  /\ Commands[k].cd \in Cooldowns /\ u \notin Superusers =>
                        dispRuns[n].at <= dispLast[Commands[k].cd][u] /\ u \in Events!Users
                  /\ Commands[k].block => dispPc[q] \in {"running", "replying", "done"}
                  /\ Commands[k].block /\ dispPc[q] \in {"running", "replying"} => k = Events!Best(q)
                  /\ q = r => ~Commands[k].block
  <2>1. dispRuns[n].report \in Reported
    BY <1>7
  <2>2. dispPc[dispRuns[n].report] \in Dispatched \cup {"done"}
    BY <1>6 DEF RunsAreKept
  <2>3. Events!Message(dispRuns[n].report).user \in Events!Users
    BY <2>1, <2>2 DEF Typed, Dispatched, Events!Users
  <2> QED
    BY <1>2, <1>6, <2>1, <2>3, RunIsKept
<1>15. RunsAreKept'
  <2> SUFFICES ASSUME NEW n \in DOMAIN dispRuns'
               PROVE  LET q == dispRuns'[n].report
                          k == dispRuns'[n].handler
                          u == dispContent'[q[1]].user
                      IN  /\ dispPc'[q] \in Dispatched \cup {"done"} /\ q[1] \in dispNoted'
                          /\ dispRuns'[n].at <= dispClock'
                          /\ Commands[k].cd \in Cooldowns /\ u \notin Superusers =>
                                dispRuns'[n].at <= dispLast'[Commands[k].cd][u]
                          /\ Commands[k].block => dispPc'[q] \in {"running", "replying", "done"}
                          /\ \A p \in Reported : p = q /\ Commands[k].block
                                /\ dispPc'[p] \in {"running", "replying"} => k = Events!Best(p)'
    BY DEF RunsAreKept, Events!Message
  <2>1. n \in 1 .. L + 1
    BY <1>6
  <2> SUFFICES LET q == dispRuns'[n].report
                   k == dispRuns'[n].handler
                   u == Events!Message(q).user
               IN  /\ dispPc'[q] \in Dispatched \cup {"done"} /\ q[1] \in dispNoted
                   /\ dispRuns'[n].at <= dispClock
                   /\ Commands[k].cd \in Cooldowns /\ u \notin Superusers =>
                         dispRuns'[n].at <= dispLast'[Commands[k].cd][u]
                   /\ Commands[k].block => dispPc'[q] \in {"running", "replying", "done"}
                   /\ \A p \in Reported : p = q /\ Commands[k].block
                         /\ dispPc'[p] \in {"running", "replying"} => k = Events!Best(p)
    <3>1. /\ \A p \in Reported : Events!Best(p)' = Events!Best(p)
          /\ dispNoted' = dispNoted /\ dispClock' = dispClock /\ dispContent' = dispContent
      BY <1>2, <1>10
    <3> QED
      BY <3>1 DEF Events!Message
  <2>2. CASE n \in 1 .. L
    <3> DEFINE q == dispRuns[n].report
               k == dispRuns[n].handler
               u == Events!Message(q).user
    <3>1. dispRuns'[n] = dispRuns[n] /\ q \in Reported /\ dispRuns[n].at \in Nat
      BY <1>6, <1>7, <2>2
    <3>2. /\ dispPc[q] \in Dispatched \cup {"done"} /\ q[1] \in dispNoted
          /\ dispRuns[n].at <= dispClock
          /\ Commands[k].cd \in Cooldowns /\ u \notin Superusers =>
                dispRuns[n].at <= dispLast[Commands[k].cd][u] /\ u \in Events!Users
          /\ Commands[k].block => dispPc[q] \in {"running", "replying", "done"}
          /\ Commands[k].block /\ dispPc[q] \in {"running", "replying"} => k = Events!Best(q)
          /\ q = r => ~Commands[k].block
      BY <1>14, <2>2
    <3>3. Commands[k].cd \in Cooldowns /\ u \notin Superusers =>
             dispRuns[n].at <= dispLast'[Commands[k].cd][u]
      BY <1>9, <3>2
    <3>4. dispPc'[q] = dispPc[q] \/ (q = r /\ dispPc'[q] = "running")
      BY <1>4, <3>1
    <3> HIDE DEF q, k, u
    <3>5. /\ dispPc'[q] \in Dispatched \cup {"done"}
          /\ Commands[k].block => dispPc'[q] \in {"running", "replying", "done"}
          /\ Commands[k].block /\ dispPc'[q] \in {"running", "replying"}
                => k = Events!Best(q)
      BY <3>1, <3>2, <3>4 DEF Dispatched
    <3> QED
      BY <3>1, <3>2, <3>3, <3>5 DEF q, k, u
  <2>3. CASE n = L + 1
    <3>1. /\ dispRuns'[n] = run /\ run.report = r /\ run.handler = h /\ run.at = dispClock
          /\ Events!Message(r) = c /\ Commands[h].cd = d
      BY <1>6, <2>3 DEF run, c, d
    <3>2. d \in Cooldowns /\ c.user \notin Superusers => dispLast'[d][c.user] = dispClock
      BY <1>5, <1>9
    <3>3. dispPc'[r] = "running" /\ h = Events!Best(r)
      BY <1>2, <1>4
    <3> QED
      BY <1>1, <1>5, <3>1, <3>2, <3>3 DEF Dispatched
  <2> QED
    BY <1>8, <2>1, <2>2, <2>3
<1>16. (Events!CooldownSpaces)'
  <2> SUFFICES ASSUME NEW n \in 1 .. L + 1, NEW k \in 1 .. L + 1, n < k,
                      LET e(x) == Commands[dispRuns'[x].handler].cd
                          u(x) == Events!Message(dispRuns'[x].report).user
                      IN  e(n) \in Cooldowns /\ e(n) = e(k) /\ u(n) = u(k)
                          /\ u(n) \notin Superusers
               PROVE  dispRuns'[k].at - dispRuns'[n].at >= CoolSeconds
    BY <1>2, <1>6 DEF Events!CooldownSpaces, Events!Message
  <2>1. n \in 1 .. L /\ dispRuns'[n] = dispRuns[n]
    BY <1>8
  <2>2. CASE k \in 1 .. L
    <3>1. dispRuns'[k] = dispRuns[k] /\ DOMAIN dispRuns = 1 .. L
      BY <1>6, <2>2
    <3> QED
      BY <2>1, <2>2, <3>1 DEF Events!CooldownSpaces
  <2>3. CASE k = L + 1
    <3>1. dispRuns'[k] = run /\ run.report = r /\ run.handler = h /\ run.at = dispClock
      BY <1>6, <2>3 DEF run
    <3>2. /\ Commands[dispRuns[n].handler].cd = d /\ d \in Cooldowns
          /\ Events!Message(dispRuns[n].report).user = c.user /\ c.user \notin Superusers
      BY <2>1, <3>1 DEF c, d
    <3>3. dispRuns[n].at <= dispLast[d][c.user]
      BY <1>14, <2>1, <3>2
    <3>4. ~(dispClock - dispLast[d][c.user] < CoolSeconds)
      BY <1>2, <3>2 DEF Events!Cooling, d
    <3>5. dispLast[d][c.user] \in Int /\ dispClock \in Int /\ dispRuns[n].at \in Int
      BY <1>1, <1>5, <1>7, <2>1, <3>2
    <3> QED
      BY <2>1, <3>1, <3>3, <3>4, <3>5
  <2> QED
    BY <1>8, <2>2, <2>3
<1>17. (Events!NothingAfterABlock)'
  <2> SUFFICES ASSUME NEW n \in 1 .. L + 1, NEW k \in 1 .. L + 1, n < k,
                      dispRuns'[n].report = dispRuns'[k].report
               PROVE  ~Commands[dispRuns'[n].handler].block
    BY <1>6 DEF Events!NothingAfterABlock
  <2>1. n \in 1 .. L /\ dispRuns'[n] = dispRuns[n]
    BY <1>8
  <2>2. CASE k \in 1 .. L
    <3>1. dispRuns'[k] = dispRuns[k] /\ DOMAIN dispRuns = 1 .. L
      BY <1>6, <2>2
    <3> QED
      BY <2>1, <2>2, <3>1 DEF Events!NothingAfterABlock
  <2>3. CASE k = L + 1
    <3>1. dispRuns[n].report = r
      BY <1>6, <2>1, <2>3 DEF run
    <3> QED
      BY <1>14, <2>1, <3>1
  <2> QED
    BY <1>8, <2>2, <2>3
<1> QED
  BY <1>11, <1>12, <1>13, <1>15, <1>16, <1>17

LEMMA EventsTick == EventsInv /\ Events!Tick => EventsInv'
<1> SUFFICES ASSUME EventsInv, Events!Tick PROVE EventsInv'
  OBVIOUS
<1> USE EventsAssumed DEF EventsInv
<1>1. /\ dispContent' = dispContent /\ dispPc' = dispPc /\ dispRank' = dispRank
      /\ dispToMe' = dispToMe /\ dispSeen' = dispSeen /\ dispOverflows' = dispOverflows
      /\ dispLogged' = dispLogged /\ dispNamed' = dispNamed /\ dispNoted' = dispNoted
      /\ dispRecorded' = dispRecorded /\ dispLast' = dispLast
      /\ dispLastNotice' = dispLastNotice /\ dispOn' = dispOn /\ dispRuns' = dispRuns
      /\ dispClock < EventTime /\ dispClock' = dispClock + 1
  BY DEF Events!Tick, Events!taskVars, Events!logVars, Events!recVars, Events!cdVars
<1>2. \A q : Events!Message(q)' = Events!Message(q) /\ Events!Best(q)' = Events!Best(q)
  BY <1>1 DEF Events!Message, Events!Best
<1>3. dispClock \in 0 .. EventTime /\ dispClock' \in 0 .. EventTime
  BY <1>1 DEF Typed, Events!TypeOK
<1>4. Typed'
  BY <1>1, <1>2, <1>3 DEF Typed, Events!TypeOK
<1>5. LoggedOnce'
  BY <1>1 DEF LoggedOnce, Naming, LogLines
<1>6. HooksOnce'
  BY <1>1 DEF HooksOnce
<1>7. RunsAreKept'
  <2>1. \A n \in DOMAIN dispRuns : dispRuns[n].at <= dispClock'
    <3>1. \A n \in DOMAIN dispRuns : dispRuns[n].at \in Nat /\ dispRuns[n].at <= dispClock
      <4>1. dispRuns \in Seq([report : Reported, handler : DOMAIN Commands, at : Nat])
        BY DEF Typed
      <4>2. \A n \in DOMAIN dispRuns :
               dispRuns[n] \in [report : Reported, handler : DOMAIN Commands, at : Nat]
        <5>1. DOMAIN dispRuns = 1 .. Len(dispRuns)
          BY <4>1
        <5> QED
          BY <4>1, <5>1, ElementOfSeq
      <4> QED
        BY <4>2 DEF RunsAreKept
    <3> QED
      BY <1>1, <1>3, <3>1
  <2> QED
    BY <1>1, <1>2, <2>1 DEF RunsAreKept, Events!Message
<1>8. (Events!CooldownSpaces)' /\ (Events!NothingAfterABlock)'
  BY <1>1 DEF Events!CooldownSpaces, Events!NothingAfterABlock, Events!Message
<1> QED
  BY <1>4, <1>5, <1>6, <1>7, <1>8

\* The handlers of a message are commands; a message of the bot to itself has none.
LEMMA MatchingHandlers ==
    \A c \in Events!Contents :
        /\ Events!Matching[c] \in SUBSET DOMAIN Commands
        /\ Events!ToItself(c) => Events!Matching[c] = {}
<1> SUFFICES ASSUME NEW c \in Events!Contents
             PROVE  /\ Events!Matching[c] \in SUBSET DOMAIN Commands
                    /\ Events!ToItself(c) => Events!Matching[c] = {}
  OBVIOUS
<1>1. Events!Matching[c] = IF c.sent \/ Events!ToItself(c) THEN {}
                           ELSE {h \in DOMAIN Commands :
                                    Events!MatchLen(h, Events!CommandText(c)) >= 0}
  BY DEF Events!Matching
<1> QED
  BY <1>1

\* Of what is known of the runs, nothing changes while a report is on its way to the
\* dispatcher.
LEMMA RunsStay ==
    ASSUME EventsInv, NEW r \in Reported, dispPc[r] \in {"unread", "naming", "hooks"},
           NEW to, dispPc' = [dispPc EXCEPT ![r] = to],
           NEW X, dispRank' = dispRank \/ dispRank' = [dispRank EXCEPT ![r] = X],
           \A q \in Reported : dispPc[q] # "unread" => dispContent'[q[1]] = dispContent[q[1]],
           dispNoted \subseteq dispNoted', dispClock' = dispClock, dispLast' = dispLast,
           dispRuns' = dispRuns
    PROVE  RunsAreKept' /\ (Events!CooldownSpaces)' /\ (Events!NothingAfterABlock)'
<1> USE DEF EventsInv
<1>1. /\ dispPc \in [Reported -> Events!Places]
      /\ dispRank \in [Reported -> SUBSET DOMAIN Commands]
  BY DEF Typed, Events!TypeOK
<1>2. \A q \in Reported \ {r} : dispPc'[q] = dispPc[q] /\ dispRank'[q] = dispRank[q]
  BY <1>1
<1>3. ASSUME NEW n \in DOMAIN dispRuns
      PROVE  /\ dispRuns[n].report \in Reported \ {r}
             /\ dispContent'[dispRuns[n].report[1]] = dispContent[dispRuns[n].report[1]]
  <2>1. dispRuns[n].report \in Reported
    <3>1. dispRuns \in Seq([report : Reported, handler : DOMAIN Commands, at : Nat])
      BY DEF Typed
    <3>2. n \in 1 .. Len(dispRuns)
      BY <3>1
    <3>3. dispRuns[n] \in [report : Reported, handler : DOMAIN Commands, at : Nat]
      BY ONLY <3>1, <3>2, ElementOfSeq
    <3> QED
      BY <3>3
  <2>2. dispPc[dispRuns[n].report] \in Dispatched \cup {"done"}
    BY DEF RunsAreKept
  <2> QED
    BY <2>1, <2>2 DEF Dispatched
<1>4. RunsAreKept'
  <2> SUFFICES ASSUME NEW n \in DOMAIN dispRuns
               PROVE  LET q == dispRuns[n].report
                          k == dispRuns[n].handler
                          u == dispContent'[q[1]].user
                      IN  /\ dispPc'[q] \in Dispatched \cup {"done"} /\ q[1] \in dispNoted'
                          /\ dispRuns[n].at <= dispClock
                          /\ Commands[k].cd \in Cooldowns /\ u \notin Superusers =>
                                dispRuns[n].at <= dispLast[Commands[k].cd][u]
                          /\ Commands[k].block => dispPc'[q] \in {"running", "replying", "done"}
                          /\ Commands[k].block /\ dispPc'[q] \in {"running", "replying"}
                                => k = Events!Best(q)'
    BY DEF RunsAreKept, Events!Message
  <2> DEFINE q == dispRuns[n].report
  <2>1. q \in Reported \ {r} /\ dispContent'[q[1]] = dispContent[q[1]]
    BY <1>3
  <2>2. dispPc'[q] = dispPc[q] /\ dispRank'[q] = dispRank[q]
    BY <1>2, <2>1
  <2>3. Events!Best(q)' = Events!Best(q)
    BY <2>1, <2>2 DEF Events!Best, Events!Message
  <2> HIDE DEF EventsInv
  <2> QED
    BY <2>1, <2>2, <2>3, RunIsKept DEF EventsInv, Events!Message
<1>5. (Events!CooldownSpaces)'
  BY <1>3 DEF Events!CooldownSpaces, Events!Message
<1>6. (Events!NothingAfterABlock)'
  BY DEF Events!NothingAfterABlock
<1> QED
  BY <1>4, <1>5, <1>6

\* What emit does: the dispatcher has the message, or the recorder notes it and waits.
LEMMA EmitsHow ==
    ASSUME NEW r, NEW c, Events!Emits(r, c)
    PROVE  \/ /\ r[1] \in dispNoted \/ Events!ToItself(c)
              /\ dispPc' = [dispPc EXCEPT ![r] = "trying"]
              /\ dispRank' = [dispRank EXCEPT ![r] = Events!Matching[c]]
              /\ dispNoted' = dispNoted
           \/ /\ r[1] \notin dispNoted /\ dispNoted' = dispNoted \cup {r[1]}
              /\ dispPc' = [dispPc EXCEPT ![r] = "hooks"]
              /\ dispRank' = dispRank
  BY DEF Events!Emits, Events!Dispatches, Events!Goes

LEMMA HooksStart ==
    ASSUME EventsInv, NEW r \in Reported, dispPc[r] \in {"unread", "naming"},
           NEW c \in Events!Contents, Events!Emits(r, c), dispRecorded' = dispRecorded
    PROVE  HooksOnce'
<1> USE DEF EventsInv
<1>1. /\ dispPc \in [Reported -> Events!Places]
      /\ dispRank \in [Reported -> SUBSET DOMAIN Commands]
  BY DEF Typed, Events!TypeOK
<1>2. CASE /\ r[1] \in dispNoted \/ Events!ToItself(c)
           /\ dispPc' = [dispPc EXCEPT ![r] = "trying"]
           /\ dispRank' = [dispRank EXCEPT ![r] = Events!Matching[c]]
           /\ dispNoted' = dispNoted
  <2>1. \A q \in Reported : dispPc'[q] = "hooks" => dispPc[q] = "hooks"
    BY <1>1, <1>2
  <2>2. \A q \in Reported : dispPc'[q] \in Dispatched /\ dispRank'[q] # {}
                            => q[1] \in dispNoted
    <3>1. \A q \in Reported \ {r} : dispPc'[q] = dispPc[q] /\ dispRank'[q] = dispRank[q]
      BY <1>1, <1>2
    <3>2. dispRank'[r] # {} => r[1] \in dispNoted
      BY <1>1, <1>2, MatchingHandlers
    <3> QED
      BY <3>1, <3>2 DEF HooksOnce
  <2> QED
    BY <1>2, <2>1, <2>2 DEF HooksOnce
<1>3. CASE /\ r[1] \notin dispNoted /\ dispNoted' = dispNoted \cup {r[1]}
           /\ dispPc' = [dispPc EXCEPT ![r] = "hooks"]
           /\ dispRank' = dispRank
  <2>1. \A q \in Reported : dispPc'[q] = "hooks" => q = r \/ dispPc[q] = "hooks"
    BY <1>1, <1>3
  <2>2. \A q \in Reported : dispPc'[q] \in Dispatched => dispPc[q] \in Dispatched
    BY <1>1, <1>3 DEF Dispatched
  <2>3. \A n \in DOMAIN dispRecorded : dispRecorded[n] # r[1]
    BY <1>3 DEF HooksOnce
  <2>4. \A q \in Reported : dispPc[q] = "hooks" => q[1] # r[1]
    BY <1>3 DEF HooksOnce
  <2> QED
    BY <1>3, <2>1, <2>2, <2>3, <2>4 DEF HooksOnce
<1> QED
  BY <1>2, <1>3, EmitsHow

\* A line more in the log.
LEMMA LogGrows ==
    ASSUME Typed, NEW i \in MessageIds, dispLogged' = Append(dispLogged, i)
    PROVE  /\ dispLogged' \in Seq(MessageIds)
           /\ Cardinality(LogLines(i)') = Cardinality(LogLines(i)) + 1
           /\ \A j \in MessageIds \ {i} : LogLines(j)' = LogLines(j)
<1>1. dispLogged \in Seq(MessageIds) /\ Len(dispLogged) \in Nat
  BY DEF Typed
<1> DEFINE N == Len(dispLogged)
<1>2. /\ dispLogged' \in Seq(MessageIds) /\ DOMAIN dispLogged = 1 .. N
      /\ DOMAIN dispLogged' = 1 .. N + 1 /\ dispLogged'[N + 1] = i
      /\ \A n \in 1 .. N : dispLogged'[n] = dispLogged[n]
  BY <1>1, AppendProperties
<1> HIDE DEF N
<1>3. \A n : n \in 1 .. N + 1 <=> n \in 1 .. N \/ n = N + 1
  BY <1>1 DEF N
<1>4. N + 1 \notin 1 .. N
  BY <1>1 DEF N
<1>5. LogLines(i)' = LogLines(i) \cup {N + 1} /\ N + 1 \notin LogLines(i)
  BY <1>2, <1>3, <1>4 DEF LogLines
<1>6. \A j \in MessageIds \ {i} : LogLines(j)' = LogLines(j)
  BY <1>2, <1>3 DEF LogLines
<1>7. IsFiniteSet(LogLines(i))
  <2>1. IsFiniteSet(1 .. N)
    BY <1>1, FS_Interval DEF N
  <2>2. LogLines(i) \subseteq 1 .. N
    BY <1>2 DEF LogLines
  <2> QED
    BY <2>1, <2>2, FS_Subset
<1>8. Cardinality(LogLines(i) \cup {N + 1}) = Cardinality(LogLines(i)) + 1
  BY <1>5, <1>7, FS_AddElement
<1> QED
  BY <1>2, <1>5, <1>6, <1>8

LEMMA LinesAreNumbers ==
    ASSUME Typed, NEW i
    PROVE  Cardinality(LogLines(i)) \in Nat
<1>1. dispLogged \in Seq(MessageIds) /\ Len(dispLogged) \in Nat
  BY DEF Typed
<1>2. IsFiniteSet(1 .. Len(dispLogged))
  BY <1>1, FS_Interval
<1>3. LogLines(i) \subseteq 1 .. Len(dispLogged)
  BY <1>1 DEF LogLines
<1> QED
  BY <1>2, <1>3, FS_Subset, FS_CardinalityType

\* A report whose task leaves no group's name to be answered stays out of Naming.
LEMMA NamingOthers ==
    ASSUME EventsInv, NEW r \in Reported, NEW to, dispPc' = [dispPc EXCEPT ![r] = to]
    PROVE  /\ \A j \in MessageIds \ {r[1]} : Naming(j)' = Naming(j)
           /\ dispPc[r] # "naming" /\ to # "naming" => Naming(r[1])' = Naming(r[1])
           /\ dispPc[r] # "naming" /\ to = "naming" =>
                 Naming(r[1])' = Naming(r[1]) \cup {r} /\ r \notin Naming(r[1])
           /\ dispPc[r] = "naming" /\ to # "naming" =>
                 Naming(r[1])' = Naming(r[1]) \ {r} /\ r \in Naming(r[1])
<1>1. dispPc \in [Reported -> Events!Places]
  BY DEF EventsInv, Typed, Events!TypeOK
<1>2. dispPc'[r] = to /\ \A q \in Reported \ {r} : dispPc'[q] = dispPc[q]
  BY <1>1
<1> QED
  BY <1>2 DEF Naming

\* A message that is logged for the first time since the ids seen were emptied.
LEMMA LogRemembers ==
    ASSUME EventsInv, NEW r \in Reported, dispPc[r] = "unread", r[1] \notin dispSeen,
           Events!Remember(r[1]), NEW to, dispPc' = [dispPc EXCEPT ![r] = to],
           \/ to = "naming" /\ dispLogged' = dispLogged
           \/ to # "naming" /\ dispLogged' = Append(dispLogged, r[1])
    PROVE  /\ LoggedOnce'
           /\ dispSeen' \subseteq MessageIds /\ Events!Cardinality(dispSeen') <= SeenLimit
           /\ dispOverflows' \in Nat
<1> DEFINE i == r[1]
           more == dispSeen \cup {i}
           Sum(j) == Cardinality(LogLines(j)) + Cardinality(Naming(j))
<1>1. /\ i \in MessageIds /\ dispOverflows \in Nat /\ SeenLimit \in Nat
      /\ dispSeen \subseteq MessageIds /\ IsFiniteSet(dispSeen) /\ i \notin dispSeen
      /\ Typed
  BY EventsAssumed DEF EventsInv, Typed, Events!TypeOK, LoggedOnce
<1>2. \A j \in MessageIds :
         /\ IsFiniteSet(Naming(j)) /\ Cardinality(Naming(j)) \in Nat
         /\ Cardinality(LogLines(j)) \in Nat
         /\ j \in dispSeen => Sum(j) <= 1 + dispOverflows
         /\ j \notin dispSeen => Sum(j) <= dispOverflows
  BY <1>1, FS_CardinalityType, LinesAreNumbers DEF EventsInv, LoggedOnce
<1>3. /\ Cardinality(LogLines(i))' + Cardinality(Naming(i))' = Sum(i) + 1
      /\ \A j \in MessageIds \ {i} :
            /\ Cardinality(LogLines(j))' = Cardinality(LogLines(j))
            /\ Naming(j)' = Naming(j)
      /\ IsFiniteSet(Naming(i)')
  <2>1. \A j \in MessageIds \ {i} : Naming(j)' = Naming(j)
    BY NamingOthers
  <2>2. CASE to = "naming" /\ dispLogged' = dispLogged
    <3>1. Naming(i)' = Naming(i) \cup {r} /\ r \notin Naming(i)
      BY <2>2, NamingOthers
    <3>2. IsFiniteSet(Naming(i)') /\ Cardinality(Naming(i)') = Cardinality(Naming(i)) + 1
      BY <1>1, <1>2, <3>1, FS_AddElement
    <3>3. \A j \in MessageIds : LogLines(j)' = LogLines(j)
      BY <2>2 DEF LogLines
    <3> QED
      BY <1>1, <1>2, <2>1, <3>2, <3>3
  <2>3. CASE to # "naming" /\ dispLogged' = Append(dispLogged, i)
    <3>1. Naming(i)' = Naming(i)
      BY <2>3, NamingOthers
    <3>2. /\ Cardinality(LogLines(i)') = Cardinality(LogLines(i)) + 1
          /\ \A j \in MessageIds \ {i} : LogLines(j)' = LogLines(j)
      BY <1>1, <2>3, LogGrows
    <3> QED
      BY <1>1, <1>2, <2>1, <3>1, <3>2
  <2> QED
    BY <2>2, <2>3
<1>4. IsFiniteSet(more) /\ Cardinality(more) \in Nat /\ more \subseteq MessageIds
  BY <1>1, FS_AddElement, FS_CardinalityType
<1>5. IsFiniteSet({}) /\ Cardinality({}) = 0
  BY FS_EmptySet
<1>6. \/ dispSeen' = {} /\ dispOverflows' = dispOverflows + 1
      \/ dispSeen' = more /\ dispOverflows' = dispOverflows /\ Cardinality(more) <= SeenLimit
  <2>1. Events!Cardinality(more) = Cardinality(more)
    BY EventCounts
  <2>2. CASE Events!Cardinality(more) > SeenLimit
    BY <2>2 DEF Events!Remember
  <2>3. CASE ~(Events!Cardinality(more) > SeenLimit)
    <3>1. dispSeen' = more /\ dispOverflows' = dispOverflows + 0
      BY <2>3 DEF Events!Remember
    <3>2. Cardinality(more) <= SeenLimit
      <4> HIDE DEF more
      <4> QED
        BY <1>1, <1>4, <2>1, <2>3
    <3> QED
      BY <1>1, <3>1, <3>2
  <2> QED
    BY <2>2, <2>3
<1>7. /\ dispSeen' \subseteq MessageIds /\ IsFiniteSet(dispSeen') /\ dispOverflows' \in Nat
      /\ Cardinality(dispSeen') <= SeenLimit
  <2> HIDE DEF more
  <2>1. CASE dispSeen' = {} /\ dispOverflows' = dispOverflows + 1
    <3>1. 0 <= SeenLimit /\ dispOverflows + 1 \in Nat
      BY <1>1
    <3> QED
      BY ONLY <1>5, <2>1, <3>1
  <2>2. CASE /\ dispSeen' = more /\ dispOverflows' = dispOverflows
             /\ Cardinality(more) <= SeenLimit
    BY ONLY <1>1, <1>4, <2>2
  <2> QED
    BY <1>6, <2>1, <2>2
<1>8. ASSUME NEW j \in MessageIds
      PROVE  /\ IsFiniteSet(Naming(j)')
             /\ j \in dispSeen' =>
                   Cardinality(LogLines(j)') + Cardinality(Naming(j)') <= 1 + dispOverflows'
             /\ j \notin dispSeen' =>
                   Cardinality(LogLines(j)') + Cardinality(Naming(j)') <= dispOverflows'
  <2> HIDE DEF i
  <2>1. CASE j = i
    <3>1. Sum(i) <= dispOverflows /\ Sum(i) \in Nat
      BY <1>1, <1>2
    <3> HIDE DEF Sum
    <3>2. i \in dispSeen' => dispOverflows' = dispOverflows
      BY <1>6
    <3>3. i \notin dispSeen' => dispOverflows' = dispOverflows + 1
      BY <1>6
    <3>4. Cardinality(LogLines(i)') + Cardinality(Naming(i)') = Sum(i) + 1
      BY <1>3
    <3> QED
      BY <1>1, <1>3, <2>1, <3>1, <3>2, <3>3, <3>4
  <2>2. CASE j # i
    <3>1. /\ Cardinality(LogLines(j)') + Cardinality(Naming(j)') = Sum(j) /\ Sum(j) \in Nat
          /\ Naming(j)' = Naming(j) /\ IsFiniteSet(Naming(j))
      BY <1>2, <1>3, <2>2
    <3>2. /\ j \in dispSeen => Sum(j) <= 1 + dispOverflows
          /\ j \notin dispSeen => Sum(j) <= dispOverflows
      BY <1>2
    <3> HIDE DEF Sum
    <3>3. /\ j \in dispSeen' => j \in dispSeen /\ dispOverflows' = dispOverflows
          /\ j \notin dispSeen' => \/ dispOverflows' = dispOverflows + 1
                                   \/ dispOverflows' = dispOverflows /\ j \notin dispSeen
      BY <1>6, <2>2
    <3> QED
      BY <1>1, <3>1, <3>2, <3>3
  <2> QED
    BY <2>1, <2>2
<1>9. LoggedOnce'
  BY <1>7, <1>8 DEF LoggedOnce
<1> QED
  BY <1>7, <1>9, EventCounts

\* The log when a group's name is answered, and when a message is not logged at all.
LEMMA LogAnswers ==
    ASSUME EventsInv, NEW r \in Reported, NEW to, to # "naming",
           dispPc' = [dispPc EXCEPT ![r] = to],
           \/ dispPc[r] # "naming" /\ dispLogged' = dispLogged
           \/ dispPc[r] = "naming" /\ dispLogged' = Append(dispLogged, r[1]),
           dispSeen' = dispSeen, dispOverflows' = dispOverflows
    PROVE  LoggedOnce'
<1> DEFINE i == r[1]
<1>1. i \in MessageIds /\ Typed /\ LoggedOnce
  BY EventsAssumed DEF EventsInv
<1>2. \A j \in MessageIds \ {i} : Naming(j)' = Naming(j)
  BY NamingOthers
<1>3. CASE dispPc[r] # "naming" /\ dispLogged' = dispLogged
  <2>1. \A j \in MessageIds : Naming(j)' = Naming(j) /\ LogLines(j)' = LogLines(j)
    BY <1>2, <1>3, NamingOthers DEF LogLines
  <2> QED
    BY <1>1, <2>1 DEF LoggedOnce
<1>4. CASE dispPc[r] = "naming" /\ dispLogged' = Append(dispLogged, i)
  <2>1. /\ Naming(i)' = Naming(i) \ {r} /\ r \in Naming(i) /\ IsFiniteSet(Naming(i))
        /\ Cardinality(Naming(i)) \in Nat
    BY <1>1, <1>4, NamingOthers, FS_CardinalityType DEF LoggedOnce
  <2>2. IsFiniteSet(Naming(i)') /\ Cardinality(Naming(i)') = Cardinality(Naming(i)) - 1
    BY <2>1, FS_RemoveElement
  <2>3. /\ Cardinality(LogLines(i)') = Cardinality(LogLines(i)) + 1
        /\ Cardinality(LogLines(i)) \in Nat
        /\ \A j \in MessageIds \ {i} : LogLines(j)' = LogLines(j)
    BY <1>1, <1>4, LogGrows, LinesAreNumbers
  <2>4. Cardinality(LogLines(i)') + Cardinality(Naming(i)')
          = Cardinality(LogLines(i)) + Cardinality(Naming(i))
    BY <2>1, <2>2, <2>3
  <2>5. \A j \in MessageIds : /\ IsFiniteSet(Naming(j)')
                              /\ Cardinality(LogLines(j)') + Cardinality(Naming(j)')
                                   = Cardinality(LogLines(j)) + Cardinality(Naming(j))
    BY <1>1, <1>2, <2>2, <2>3, <2>4 DEF LoggedOnce
  <2> QED
    BY <1>1, <2>5 DEF LoggedOnce
<1> QED
  BY <1>3, <1>4

LEMMA TypesStay ==
    ASSUME EventsInv, NEW r \in Reported, NEW c \in Events!Contents,
           NEW to \in {"naming", "hooks", "trying"}, dispPc' = [dispPc EXCEPT ![r] = to],
           to = "naming" => c.group \in EventGroups,
           \/ dispRank' = dispRank \/ dispRank' = [dispRank EXCEPT ![r] = Events!Matching[c]],
           dispContent' = [dispContent EXCEPT ![r[1]] = c],
           \A q \in Reported : dispPc[q] # "unread" => dispContent'[q[1]] = dispContent[q[1]],
           dispToMe' \subseteq Reported, dispSeen' \subseteq MessageIds,
           Events!Cardinality(dispSeen') <= SeenLimit, dispOverflows' \in Nat,
           dispLogged' \in Seq(MessageIds), dispNamed' \subseteq EventGroups,
           dispNoted' \subseteq MessageIds, dispRecorded' \in Seq(MessageIds),
           dispClock' = dispClock, dispLast' = dispLast, dispLastNotice' = dispLastNotice,
           dispOn' = dispOn, dispRuns' = dispRuns
    PROVE  Typed'
<1>1. /\ dispContent \in [MessageIds -> Events!Contents \cup {Events!NoContent}]
      /\ dispPc \in [Reported -> Events!Places]
      /\ dispRank \in [Reported -> SUBSET DOMAIN Commands]
      /\ dispClock \in 0 .. EventTime
      /\ {dispLast, dispLastNotice}
            \subseteq [Cooldowns -> [Events!Users -> {Events!Long} \cup 0 .. EventTime]]
      /\ dispOn \subseteq EventGroups
      /\ dispRuns \in Seq([report : Reported, handler : DOMAIN Commands, at : Nat])
  BY DEF EventsInv, Typed, Events!TypeOK
<1>2. /\ dispContent' \in [MessageIds -> Events!Contents \cup {Events!NoContent}]
      /\ dispContent'[r[1]] = c
  BY <1>1, EventsAssumed
<1>3. /\ dispPc' \in [Reported -> Events!Places] /\ dispPc'[r] = to
      /\ \A q \in Reported \ {r} : dispPc'[q] = dispPc[q]
  BY <1>1 DEF Events!Places
<1>4. dispRank' \in [Reported -> SUBSET DOMAIN Commands]
  BY <1>1, MatchingHandlers
<1>5. Events!Range(dispLogged') \subseteq MessageIds
      /\ Events!Range(dispRecorded') \subseteq MessageIds
  <2> SUFFICES ASSUME NEW s \in Seq(MessageIds) PROVE Events!Range(s) \subseteq MessageIds
    OBVIOUS
  <2>1. \A n \in 1 .. Len(s) : s[n] \in MessageIds
    BY ElementOfSeq
  <2> QED
    BY <2>1 DEF Events!Range
<1>6. (Events!TypeOK)'
  BY <1>1, <1>2, <1>3, <1>4, <1>5 DEF Events!TypeOK
<1>7. ASSUME NEW q \in Reported, dispPc'[q] # "unread"
      PROVE  /\ dispContent'[q[1]] \in Events!Contents
             /\ dispPc'[q] = "naming" => dispContent'[q[1]].group \in EventGroups
  <2>1. CASE q = r
    BY <1>2, <1>3, <2>1
  <2>2. CASE q # r
    <3>1. dispPc'[q] = dispPc[q] /\ dispContent'[q[1]] = dispContent[q[1]]
      BY <1>3, <1>7, <2>2
    <3>2. /\ dispContent[q[1]] \in Events!Contents
          /\ dispPc[q] = "naming" => dispContent[q[1]].group \in EventGroups
      BY <1>7, <3>1 DEF EventsInv, Typed, Events!Message
    <3> QED
      BY <3>1, <3>2
  <2> QED
    BY <2>1, <2>2
<1> QED
  BY <1>1, <1>6, <1>7 DEF Typed, Events!Message

LEMMA EventArrives ==
    ASSUME EventsInv, NEW r \in Reported, NEW c \in MayBe[r[1]], Events!Arrive(r, c)
    PROVE  EventsInv'
<1> USE EventsAssumed DEF EventsInv
<1>1. c \in Events!Contents
  BY DEF Events!Contents
<1>2. /\ dispPc[r] = "unread" /\ dispContent' = [dispContent EXCEPT ![r[1]] = c]
      /\ c = Events!Message(r) \/ \A q \in Reported : q[1] = r[1] => dispPc[q] = "unread"
      /\ dispToMe' = dispToMe \/ dispToMe' = dispToMe \cup {r}
      /\ dispNamed' = dispNamed /\ dispRecorded' = dispRecorded
      /\ dispLast' = dispLast /\ dispLastNotice' = dispLastNotice
      /\ dispClock' = dispClock /\ dispOn' = dispOn /\ dispRuns' = dispRuns
  BY DEF Events!Arrive, Events!cdVars
<1>3. \/ /\ r[1] \in dispSeen /\ Events!Emits(r, c)
         /\ dispSeen' = dispSeen /\ dispOverflows' = dispOverflows /\ dispLogged' = dispLogged
      \/ /\ r[1] \notin dispSeen /\ Events!Remember(r[1]) /\ c.group \in EventGroups
         /\ Events!Goes(r, "naming") /\ dispRank' = dispRank /\ dispNoted' = dispNoted
         /\ dispLogged' = dispLogged
      \/ /\ r[1] \notin dispSeen /\ Events!Remember(r[1]) /\ Events!Emits(r, c)
         /\ dispLogged' = Append(dispLogged, r[1])
  BY DEF Events!Arrive
<1>4. /\ dispContent \in [MessageIds -> Events!Contents \cup {Events!NoContent}]
      /\ dispPc \in [Reported -> Events!Places] /\ r[1] \in MessageIds
      /\ dispToMe' \subseteq Reported /\ dispNamed' \subseteq EventGroups
      /\ dispRecorded' \in Seq(MessageIds) /\ dispNoted \subseteq MessageIds
      /\ dispLogged \in Seq(MessageIds) /\ dispSeen \subseteq MessageIds
      /\ Events!Cardinality(dispSeen) <= SeenLimit /\ dispOverflows \in Nat /\ Typed
  BY <1>2 DEF Typed, Events!TypeOK
<1>5. \A q \in Reported : dispPc[q] # "unread" => dispContent'[q[1]] = dispContent[q[1]]
  BY <1>2, <1>4 DEF Events!Message
<1> HIDE DEF EventsInv
\* Wherever the task of the report goes, the handlers it is given are those that match.
<1>6. ASSUME NEW to \in {"naming", "hooks", "trying"}, dispPc' = [dispPc EXCEPT ![r] = to],
             to = "naming" => c.group \in EventGroups,
             \/ dispRank' = dispRank \/ dispRank' = [dispRank EXCEPT ![r] = Events!Matching[c]],
             dispNoted \subseteq dispNoted', dispNoted' \subseteq MessageIds,
             dispSeen' \subseteq MessageIds, Events!Cardinality(dispSeen') <= SeenLimit,
             dispOverflows' \in Nat, dispLogged' \in Seq(MessageIds), LoggedOnce', HooksOnce'
      PROVE  EventsInv'
  <2>1. Typed'
    BY <1>1, <1>2, <1>4, <1>5, <1>6, TypesStay
  <2>2. RunsAreKept' /\ (Events!CooldownSpaces)' /\ (Events!NothingAfterABlock)'
    BY <1>2, <1>5, <1>6, RunsStay
  <2> QED
    BY <1>6, <2>1, <2>2 DEF EventsInv
<1>7. ASSUME Events!Emits(r, c)
      PROVE  /\ HooksOnce' /\ dispNoted \subseteq dispNoted' /\ dispNoted' \subseteq MessageIds
             /\ \/ dispRank' = dispRank
                \/ dispRank' = [dispRank EXCEPT ![r] = Events!Matching[c]]
             /\ \E to \in {"hooks", "trying"} : dispPc' = [dispPc EXCEPT ![r] = to]
  <2>1. HooksOnce'
    BY <1>1, <1>2, <1>7, HooksStart
  <2> QED
    BY <1>4, <1>7, <2>1, EmitsHow
<1>8. CASE /\ r[1] \in dispSeen /\ Events!Emits(r, c)
           /\ dispSeen' = dispSeen /\ dispOverflows' = dispOverflows /\ dispLogged' = dispLogged
  <2>1. PICK to \in {"hooks", "trying"} : dispPc' = [dispPc EXCEPT ![r] = to]
    BY <1>7, <1>8
  <2>2. LoggedOnce'
    BY <1>2, <1>8, <2>1, LogAnswers
  <2> QED
    BY <1>4, <1>6, <1>7, <1>8, <2>1, <2>2
<1>9. CASE /\ r[1] \notin dispSeen /\ Events!Remember(r[1]) /\ c.group \in EventGroups
           /\ Events!Goes(r, "naming") /\ dispRank' = dispRank /\ dispNoted' = dispNoted
           /\ dispLogged' = dispLogged
  <2>1. dispPc' = [dispPc EXCEPT ![r] = "naming"]
    BY <1>9 DEF Events!Goes
  <2>2. /\ LoggedOnce' /\ dispSeen' \subseteq MessageIds
        /\ Events!Cardinality(dispSeen') <= SeenLimit /\ dispOverflows' \in Nat
    BY <1>2, <1>9, <2>1, LogRemembers
  <2>3. HooksOnce'
    <3>1. \A q \in Reported : /\ dispPc'[q] = "hooks" => dispPc[q] = "hooks"
                              /\ dispPc'[q] \in Dispatched => dispPc[q] \in Dispatched
      BY <1>4, <2>1 DEF Dispatched
    <3> QED
      BY <1>2, <1>9, <3>1 DEF EventsInv, HooksOnce
  <2> QED
    BY <1>4, <1>6, <1>9, <2>1, <2>2, <2>3
<1>10. CASE /\ r[1] \notin dispSeen /\ Events!Remember(r[1]) /\ Events!Emits(r, c)
            /\ dispLogged' = Append(dispLogged, r[1])
  <2>1. PICK to \in {"hooks", "trying"} : dispPc' = [dispPc EXCEPT ![r] = to]
    BY <1>7, <1>10
  <2>2. /\ LoggedOnce' /\ dispSeen' \subseteq MessageIds
        /\ Events!Cardinality(dispSeen') <= SeenLimit /\ dispOverflows' \in Nat
    BY <1>2, <1>10, <2>1, LogRemembers
  <2>3. dispLogged' \in Seq(MessageIds)
    BY <1>4, <1>10, LogGrows
  <2> QED
    BY <1>6, <1>7, <1>10, <2>1, <2>2, <2>3
<1> QED
  BY <1>3, <1>8, <1>9, <1>10

LEMMA EventNamed ==
    ASSUME EventsInv, NEW r \in Reported, NEW found \in BOOLEAN, Events!NameAnswered(r, found)
    PROVE  EventsInv'
<1> DEFINE c == Events!Message(r)
<1> USE EventsAssumed DEF EventsInv
<1>1. /\ dispPc[r] = "naming" /\ Events!Emits(r, c) /\ dispContent' = dispContent
      /\ dispNamed' = dispNamed \/ dispNamed' = dispNamed \cup {c.group}
      /\ dispLogged' = Append(dispLogged, r[1]) /\ dispToMe' = dispToMe
      /\ dispSeen' = dispSeen /\ dispOverflows' = dispOverflows
      /\ dispRecorded' = dispRecorded
      /\ dispLast' = dispLast /\ dispLastNotice' = dispLastNotice
      /\ dispClock' = dispClock /\ dispOn' = dispOn /\ dispRuns' = dispRuns
  BY DEF Events!NameAnswered, Events!cdVars
<1>2. /\ dispContent \in [MessageIds -> Events!Contents \cup {Events!NoContent}]
      /\ dispPc \in [Reported -> Events!Places] /\ r[1] \in MessageIds
      /\ dispToMe \subseteq Reported /\ dispNamed \subseteq EventGroups
      /\ dispRecorded \in Seq(MessageIds) /\ dispNoted \subseteq MessageIds
      /\ dispSeen \subseteq MessageIds /\ Events!Cardinality(dispSeen) <= SeenLimit
      /\ dispOverflows \in Nat /\ Typed
  BY DEF Typed, Events!TypeOK
<1>3. c \in Events!Contents /\ c.group \in EventGroups /\ dispContent[r[1]] = c
  BY <1>1 DEF Typed, Events!Message
<1> HIDE DEF EventsInv, c
<1>4. HooksOnce'
  BY <1>1, <1>3, HooksStart
<1>5. /\ \/ dispRank' = dispRank \/ dispRank' = [dispRank EXCEPT ![r] = Events!Matching[c]]
      /\ \E to \in {"hooks", "trying"} : dispPc' = [dispPc EXCEPT ![r] = to]
      /\ dispNoted \subseteq dispNoted' /\ dispNoted' \subseteq MessageIds
  BY <1>1, <1>2, EmitsHow
<1>6. PICK to \in {"hooks", "trying"} : dispPc' = [dispPc EXCEPT ![r] = to]
  BY <1>5
<1>7. LoggedOnce'
  BY <1>1, <1>6, LogAnswers
<1>8. dispLogged' \in Seq(MessageIds)
  BY <1>1, <1>2, LogGrows
<1>9. dispContent' = [dispContent EXCEPT ![r[1]] = c]
  BY <1>1, <1>2, <1>3
<1>10. dispNamed' \subseteq EventGroups
  BY <1>1, <1>2, <1>3
<1>11. Typed'
  BY <1>1, <1>2, <1>3, <1>5, <1>6, <1>8, <1>9, <1>10, TypesStay
<1>12. RunsAreKept' /\ (Events!CooldownSpaces)' /\ (Events!NothingAfterABlock)'
  BY <1>1, <1>5, <1>6, RunsStay
<1> QED
  BY <1>4, <1>7, <1>11, <1>12 DEF EventsInv

LEMMA EventHooked ==
    ASSUME EventsInv, NEW r \in Reported, Events!HooksEnd(r)
    PROVE  EventsInv'
<1> DEFINE c == Events!Message(r)
<1> USE EventsAssumed DEF EventsInv
<1>1. /\ dispPc[r] = "hooks" /\ dispContent' = dispContent
      /\ dispPc' = [dispPc EXCEPT ![r] = "trying"]
      /\ dispRank' = [dispRank EXCEPT ![r] = Events!Matching[c]]
      /\ dispRecorded' = dispRecorded \/ dispRecorded' = Append(dispRecorded, r[1])
      /\ dispNamed' = dispNamed /\ dispLogged' = dispLogged /\ dispToMe' = dispToMe
      /\ dispSeen' = dispSeen /\ dispOverflows' = dispOverflows /\ dispNoted' = dispNoted
      /\ dispLast' = dispLast /\ dispLastNotice' = dispLastNotice
      /\ dispClock' = dispClock /\ dispOn' = dispOn /\ dispRuns' = dispRuns
  BY DEF Events!HooksEnd, Events!Dispatches, Events!Goes, Events!logVars, Events!cdVars
<1>2. /\ dispContent \in [MessageIds -> Events!Contents \cup {Events!NoContent}]
      /\ dispPc \in [Reported -> Events!Places] /\ r[1] \in MessageIds
      /\ dispRank \in [Reported -> SUBSET DOMAIN Commands]
      /\ dispToMe \subseteq Reported /\ dispNamed \subseteq EventGroups
      /\ dispRecorded \in Seq(MessageIds) /\ dispNoted \subseteq MessageIds
      /\ dispLogged \in Seq(MessageIds) /\ dispSeen \subseteq MessageIds
      /\ Events!Cardinality(dispSeen) <= SeenLimit /\ dispOverflows \in Nat
  BY DEF Typed, Events!TypeOK
<1>3. c \in Events!Contents /\ dispContent[r[1]] = c
  BY <1>1 DEF Typed, Events!Message
<1>4. dispContent' = [dispContent EXCEPT ![r[1]] = c]
  BY <1>1, <1>2, <1>3
<1> HIDE DEF EventsInv, c
<1>5. LoggedOnce'
  BY <1>1, LogAnswers
<1>6. Typed'
  <2>1. Append(dispRecorded, r[1]) \in Seq(MessageIds)
    BY ONLY <1>2, AppendProperties
  <2>2. dispRecorded' \in Seq(MessageIds)
    BY <1>1, <1>2, <2>1
  <2> QED
    BY <1>1, <1>2, <1>3, <1>4, <2>2, TypesStay
<1>7. RunsAreKept' /\ (Events!CooldownSpaces)' /\ (Events!NothingAfterABlock)'
  BY <1>1, RunsStay
<1>8. HooksOnce'
  <2> DEFINE N == Len(dispRecorded)
  <2>1. HooksOnce /\ N \in Nat /\ DOMAIN dispRecorded = 1 .. N
    BY <1>2 DEF EventsInv
  <2>2. /\ r[1] \in dispNoted /\ \A n \in 1 .. N : dispRecorded[n] # r[1]
        /\ \A q \in Reported : dispPc[q] = "hooks" /\ q[1] = r[1] => q = r
    BY <1>1, <2>1 DEF HooksOnce
  <2>3. /\ \A q \in Reported : dispPc'[q] = "hooks" => dispPc[q] = "hooks" /\ q[1] # r[1]
        /\ \A q \in Reported : dispPc'[q] \in Dispatched /\ dispRank'[q] # {}
                               => q[1] \in dispNoted
    <3>1. \A q \in Reported \ {r} : dispPc'[q] = dispPc[q] /\ dispRank'[q] = dispRank[q]
      BY <1>1, <1>2
    <3>2. dispPc'[r] = "trying"
      BY <1>1, <1>2
    <3> QED
      BY <2>1, <2>2, <3>1, <3>2 DEF HooksOnce
  <2>4. CASE dispRecorded' = dispRecorded
    BY <1>1, <2>1, <2>3, <2>4 DEF HooksOnce
  <2>5. CASE dispRecorded' = Append(dispRecorded, r[1])
    <3>1. /\ DOMAIN dispRecorded' = 1 .. N + 1 /\ dispRecorded'[N + 1] = r[1]
          /\ \A n \in 1 .. N : dispRecorded'[n] = dispRecorded[n]
      BY <1>2, <2>5, AppendProperties
    <3> HIDE DEF N
    <3>2. \A n : n \in 1 .. N + 1 <=> n \in 1 .. N \/ n = N + 1
      BY <2>1
    <3>3. \A n \in 1 .. N + 1 : dispRecorded'[n] \in dispNoted
      BY <2>1, <2>2, <3>1, <3>2 DEF HooksOnce
    <3>4. \A m, n \in 1 .. N + 1 : dispRecorded'[m] = dispRecorded'[n] => m = n
      BY <2>1, <2>2, <3>1, <3>2 DEF HooksOnce
    <3>5. \A q \in Reported : dispPc[q] = "hooks" =>
             /\ q[1] \in dispNoted /\ \A n \in 1 .. N : dispRecorded[n] # q[1]
             /\ \A p \in Reported : dispPc[p] = "hooks" /\ p[1] = q[1] => p = q
      BY <2>1 DEF HooksOnce
    <3>6. \A q \in Reported : dispPc'[q] = "hooks" =>
             /\ q[1] \in dispNoted /\ \A n \in 1 .. N + 1 : dispRecorded'[n] # q[1]
             /\ \A p \in Reported : dispPc'[p] = "hooks" /\ p[1] = q[1] => p = q
      BY <2>3, <3>1, <3>2, <3>5
    <3> QED
      BY <1>1, <2>3, <3>1, <3>3, <3>4, <3>6 DEF HooksOnce
  <2> QED
    BY <1>1, <2>4, <2>5
<1> QED
  BY <1>5, <1>6, <1>7, <1>8 DEF EventsInv

LEMMA EventsGoesOn == EventsInv /\ [Events!Next]_dispVars => EventsInv'
<1> SUFFICES ASSUME EventsInv, [Events!Next]_dispVars PROVE EventsInv'
  OBVIOUS
<1>1. CASE UNCHANGED dispVars
  <2>1. /\ dispContent' = dispContent /\ dispPc' = dispPc /\ dispRank' = dispRank
        /\ dispToMe' = dispToMe /\ dispSeen' = dispSeen /\ dispOverflows' = dispOverflows
        /\ dispLogged' = dispLogged /\ dispNamed' = dispNamed /\ dispNoted' = dispNoted
        /\ dispRecorded' = dispRecorded /\ dispClock' = dispClock /\ dispLast' = dispLast
        /\ dispLastNotice' = dispLastNotice /\ dispOn' = dispOn /\ dispRuns' = dispRuns
    BY <1>1 DEF dispVars
  <2>2. \A q : Events!Message(q)' = Events!Message(q) /\ Events!Best(q)' = Events!Best(q)
    BY <2>1 DEF Events!Message, Events!Best
  <2>3. Typed'
    BY <2>1, <2>2 DEF EventsInv, Typed, Events!TypeOK
  <2>4. LoggedOnce' /\ HooksOnce'
    BY <2>1 DEF EventsInv, LoggedOnce, Naming, LogLines, HooksOnce
  <2>5. RunsAreKept'
    BY <2>1, <2>2 DEF EventsInv, RunsAreKept, Events!Message
  <2>6. (Events!CooldownSpaces)' /\ (Events!NothingAfterABlock)'
    BY <2>1 DEF EventsInv, Events!CooldownSpaces, Events!NothingAfterABlock, Events!Message
  <2> QED
    BY <2>3, <2>4, <2>5, <2>6 DEF EventsInv
<1>2. ASSUME NEW r \in Reported, NEW c \in MayBe[r[1]], Events!Arrive(r, c)
      PROVE  EventsInv'
  BY <1>2, EventArrives
<1>3. ASSUME NEW r \in Reported, Events!Progress(r)
      PROVE  EventsInv'
  <2>1. CASE \E found \in BOOLEAN : Events!NameAnswered(r, found)
    BY <2>1, EventNamed
  <2>2. CASE Events!HooksEnd(r)
    BY <2>2, EventHooked
  <2>3. ASSUME NEW h \in dispRank[r], Events!Run(r, h)
        PROVE  EventsInv'
    BY <2>3, CommandRuns
  <2>4. CASE \/ \E h \in dispRank[r] :
                   Events!Refuse(r, h) \/ Events!Ask(r, h) \/ Events!Cool(r, h)
             \/ \E mine \in BOOLEAN : Events!AskAnswered(r, mine)
             \/ Events!NoticeSent(r) \/ Events!Exhaust(r)
             \/ Events!RunEnds(r) \/ Events!RunFails(r)
             \/ \E g \in EventGroups : Events!Switch(r, g)
             \/ \E sent \in BOOLEAN : Events!ReplySent(r, sent)
    BY <2>4, TaskGoesOn
  <2> QED
    BY <1>3, <2>1, <2>2, <2>3, <2>4 DEF Events!Progress
<1>4. CASE Events!Tick
  BY <1>4, EventsTick
<1> QED
  BY <1>1, <1>2, <1>3, <1>4 DEF Events!Next

LEMMA EventsAreKept ==
    EventsInv =>
        /\ Events!TypeOK /\ Events!LoggedAgainOnlyAfterOverflow /\ Events!RecordedOnce
        /\ Events!CommandsAreNoted /\ Events!CooldownSpaces /\ Events!NothingAfterABlock
<1> SUFFICES ASSUME EventsInv
             PROVE  /\ Events!TypeOK /\ Events!LoggedAgainOnlyAfterOverflow
                    /\ Events!RecordedOnce /\ Events!CommandsAreNoted
                    /\ Events!CooldownSpaces /\ Events!NothingAfterABlock
  OBVIOUS
<1> USE DEF EventsInv
<1>1. Events!LoggedAgainOnlyAfterOverflow
  <2> SUFFICES ASSUME NEW i \in MessageIds
               PROVE  Events!Cardinality(LogLines(i)) <= 1 + dispOverflows
    BY DEF Events!LoggedAgainOnlyAfterOverflow, LogLines
  <2>1. /\ Cardinality(LogLines(i)) \in Nat /\ Cardinality(Naming(i)) \in Nat
        /\ dispOverflows \in Nat
    BY LinesAreNumbers, FS_CardinalityType DEF LoggedOnce, Typed, Events!TypeOK
  <2>2. Cardinality(LogLines(i)) + Cardinality(Naming(i)) <= 1 + dispOverflows
    <3>1. \/ Cardinality(LogLines(i)) + Cardinality(Naming(i)) <= 1 + dispOverflows
          \/ Cardinality(LogLines(i)) + Cardinality(Naming(i)) <= dispOverflows
      BY DEF LoggedOnce
    <3> QED
      BY <2>1, <3>1
  <2> QED
    BY <2>1, <2>2, EventCounts
<1>2. Events!RecordedOnce
  BY DEF Events!RecordedOnce, Events!IsInjective, HooksOnce
<1>3. Events!CommandsAreNoted
  BY DEF Events!CommandsAreNoted, RunsAreKept
<1> QED
  BY <1>1, <1>2, <1>3 DEF Typed

-----------------------------------------------------------------------------

\* Settings, ModelStatus: whatever the number of objects that read a file, of tasks that
\* judge a model and of groups that are told, and whatever the rules the judges follow
\* (which exclude each other, RulesExcludeEachOther): of edits in different seconds the
\* latest is what is read Interval after it, the verdicts alternate, and an outage that
\* nobody is still judging is one the model is known to have.
THEOREM ChangesAlwaysSeen == SceneSpec => []ChangesAreSeen
<1> DEFINE I == (scene = "Config" => ConfigInv) /\ (scene = "Status" => StatusInv)
<1>1. SceneInit => I
  BY ConfigStarts, StatusStarts DEF SceneInit
<1>2. I /\ [SceneNext]_sceneVars => I'
  <2> SUFFICES ASSUME I, [SceneNext]_sceneVars PROVE I'
    OBVIOUS
  <2>1. scene' = scene
    BY DEF SceneNext, sceneVars
  <2>2. scene = "Config" => [Config!Next]_setVars
    BY DEF SceneNext, sceneVars
  <2>3. scene = "Status" => [Status!Next]_monVars
    BY DEF SceneNext, sceneVars
  <2> QED
    BY <2>1, <2>2, <2>3, ConfigGoesOn, StatusGoesOn
<1>3. I => ChangesAreSeen
  BY OutagesAreSeen DEF ChangesAreSeen, ConfigInv, StatusInv
<1> QED
  BY <1>1, <1>2, <1>3, PTL DEF SceneSpec

\* Dispatch, Incoming: whatever the messages, the connections that report them, the
\* commands and their cooldowns, and however the tasks of the reports interleave: a message
\* is recorded once, and logged again only after the ids seen were emptied; no command runs
\* on a message the recorder has not noted; two runs under one cooldown by one user are an
\* interval apart, and nothing runs for a report after a command that blocks; and the
\* handlers of an event find the pictures they are to find, the reply asked for once.
THEOREM EventsAlwaysSound == SceneSpec => []EventsAreSound
<1> DEFINE I == (scene = "Events" => EventsInv) /\ (scene = "Incoming" => IncomingInv)
<1>1. SceneInit => I
  BY EventsStart, IncomingStarts DEF SceneInit
<1>2. I /\ [SceneNext]_sceneVars => I'
  <2> SUFFICES ASSUME I, [SceneNext]_sceneVars PROVE I'
    OBVIOUS
  <2>1. scene' = scene
    BY DEF SceneNext, sceneVars
  <2>2. scene = "Events" => [Events!Next]_dispVars
    BY DEF SceneNext, sceneVars
  <2>3. scene = "Incoming" => [Incoming!Next]_incVars
    BY DEF SceneNext, sceneVars
  <2> QED
    BY <2>1, <2>2, <2>3, EventsGoesOn, IncomingGoesOn
<1>3. I => EventsAreSound
  <2> SUFFICES ASSUME I PROVE EventsAreSound
    OBVIOUS
  <2>1. scene = "Incoming" => Incoming!TypeOK
    BY DEF IncomingInv
  <2> QED
    BY <2>1, EventsAreKept, PicturesAreFound DEF EventsAreSound
<1> QED
  BY <1>1, <1>2, <1>3, PTL DEF SceneSpec

=============================================================================
