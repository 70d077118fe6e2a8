-------------------------- MODULE LlmCallLogProofs --------------------------
(***************************************************************************)
(* Proofs about LlmCallLog, for any number of calls, any window and any    *)
(* number of failures and restarts: the log is complete, the ids name      *)
(* committed rows, the log implements WriteBehind; and the window of       *)
(* recent calls has the last of them, whatever interleaves with a load.    *)
(* At the end the calls themselves (LlmCalls): what was sent in a second,  *)
(* what was charged, and what is recorded of each call.                    *)
(***************************************************************************)
EXTENDS MCModels, SequenceTheorems, FiniteSetTheorems, NaturalsInduction, TLAPS

----------------------------------------------------------------------------
(* Prefixes.                                                               *)

\* A prefix is a sequence of its length, and its own prefix.
LEMMA PrefixIsSeq ==
    ASSUME NEW S, NEW s \in Seq(S), NEW n \in 0 .. Len(s)
    PROVE  /\ SubSeq(s, 1, n) \in Seq(S)
           /\ Len(SubSeq(s, 1, n)) = n
           /\ \A i \in 1 .. n : SubSeq(s, 1, n)[i] = s[i]
           /\ SubSeq(SubSeq(s, 1, n), 1, n) = SubSeq(s, 1, n)
<1>1. \A i \in 1 .. n : s[i] \in S
  BY ElementOfSeq
<1>2. /\ SubSeq(s, 1, n) \in Seq(S)
      /\ Len(SubSeq(s, 1, n)) = n
      /\ \A i \in 1 .. n : SubSeq(s, 1, n)[i] = s[i]
  <2>1. n \in Int /\ 1 \in Int
    BY LenProperties
  <2>2. /\ SubSeq(s, 1, n) \in Seq(S)
        /\ Len(SubSeq(s, 1, n)) = IF 1 <= n THEN n - 1 + 1 ELSE 0
        /\ \A i \in 1 .. n - 1 + 1 : SubSeq(s, 1, n)[i] = s[1 + i - 1]
    BY <1>1, <2>1, SubSeqProperties
  <2> QED
    BY <2>1, <2>2, LenProperties
<1>3. SubSeq(SubSeq(s, 1, n), 1, n) = SubSeq(s, 1, n)
  BY <1>2, SubSeqFull
<1> QED
  BY <1>2, <1>3

\* What is added at the end leaves a prefix alone.
LEMMA PrefixOfConcat ==
    ASSUME NEW S, NEW s \in Seq(S), NEW t \in Seq(S), NEW n \in 0 .. Len(s)
    PROVE  SubSeq(s \o t, 1, n) = SubSeq(s, 1, n)
<1>1. CASE n = 0
  BY <1>1, SubSeqEmpty
<1>2. CASE n # 0
  <2>1. n \in 1 .. Len(s) /\ 1 \in 1 .. Len(s)
    BY <1>2, LenProperties
  <2> QED
    BY <2>1, SubSeqOfConcat1
<1> QED
  BY <1>1, <1>2

\* A prefix grows by the next member.
LEMMA PrefixGrows ==
    ASSUME NEW S, NEW s \in Seq(S), NEW n \in 0 .. Len(s) - 1
    PROVE  /\ s[n + 1] \in S
           /\ SubSeq(s, 1, n + 1) = SubSeq(s, 1, n) \o <<s[n + 1]>>
<1>1. /\ n + 1 \in 1 .. Len(s)
      /\ 1 \in 1 .. Len(s)
      /\ (n + 1) - 1 = n
  BY LenProperties
<1>2. SubSeq(s, 1, n + 1) = SubSeq(s, 1, (n + 1) - 1) \o <<s[n + 1]>>
  BY <1>1, SubSeqRecursiveSecond
<1> QED
  BY <1>1, <1>2, ElementOfSeq

----------------------------------------------------------------------------
(* The invariant.                                                          *)

logVars == <<diskVars, flushVars, log>>

\* Only recording, the steps of a flush and a crash touch the log.
LEMMA StepsOfTheLog ==
    ASSUME [Next]_vars
    PROVE  \/ \E c \in Calls : RecordCall(c)
           \/ FlushBegins \/ Insert \/ Commit \/ FlushFails \/ Rollback
           \/ Crash
           \/ UNCHANGED logVars
<1>1. ASSUME NEW r \in Readers,
             LoadBegins(r) \/ Select(r) \/ Fetch(r) \/ Merge(r) \/ LoadFails(r)
      PROVE  UNCHANGED logVars
  BY <1>1 DEF LoadBegins, Select, Fetch, Merge, LoadFails, logVars
<1>2. UNCHANGED vars => UNCHANGED logVars
  BY DEF vars, logVars
<1> QED
  BY <1>1, <1>2 DEF Next

\* The committed rows are a sequence of calls; the flush's own prefix is too.
LEMMA CommittedIsSeq ==
    ASSUME IInv
    PROVE  /\ Committed \in Seq(Calls) /\ Len(Committed) = durable
           /\ Len(rows) \in Nat /\ Len(batch) \in Nat
           /\ Len(rows) - durable \in 0 .. Len(batch)
           /\ SubSeq(batch, 1, Len(rows) - durable) \in Seq(Calls)
           /\ SubSeq(Committed, 1, durable) = Committed
           /\ batch = <<>> => rows = Committed
<1> USE DEF IInv, LogTypeOK, FlushKeepsPlace
<1>1. Len(rows) \in Nat /\ Len(batch) \in Nat
  BY LenProperties
<1>2. durable \in 0 .. Len(rows) /\ Len(rows) - durable \in 0 .. Len(batch)
  BY <1>1
<1>3. /\ Committed \in Seq(Calls) /\ Len(Committed) = durable
      /\ SubSeq(Committed, 1, durable) = Committed
  BY <1>2, PrefixIsSeq DEF Committed
<1>4. SubSeq(batch, 1, Len(rows) - durable) \in Seq(Calls)
  BY <1>2, PrefixIsSeq
<1>5. ASSUME batch = <<>> PROVE rows = Committed
  <2>1. Len(rows) - durable = 0
    BY <1>2, <1>5
  <2>2. Len(rows) = durable
    BY <2>1, <1>1
  <2> QED
    BY <2>2, SubSeqFull DEF Committed
<1> QED
  BY <1>1, <1>2, <1>3, <1>4, <1>5

LEMMA InitEstablishesIInv == Init => IInv
<1> SUFFICES ASSUME Init PROVE IInv
  OBVIOUS
<1> USE DEF Init
<1>1. Committed = <<>> /\ SubSeq(batch, 1, Len(rows) - durable) = <<>>
  BY SubSeqEmpty DEF Committed
<1>2. LogIsComplete
  BY <1>1 DEF LogIsComplete
<1>3. LogTypeOK
  BY DEF LogTypeOK, Phases
<1>4. FlushKeepsPlace /\ IdsAreCommitted
  BY DEF FlushKeepsPlace, IdsAreCommitted
<1> QED
  BY <1>2, <1>3, <1>4 DEF IInv

LEMMA RecordCallPreservesIInv ==
    ASSUME IInv, NEW c \in Calls, RecordCall(c)
    PROVE  IInv' /\ Committed' = Committed
<1> USE DEF IInv, RecordCall, diskVars
<1>1. Committed' = Committed
  BY DEF Committed
<1>2. LogTypeOK'
  BY AppendProperties DEF LogTypeOK
<1>3. LogIsComplete'
  <2> DEFINE done == Committed \o batch
  <2>1. done \in Seq(Calls) /\ pending \in Seq(Calls) /\ log \in Seq(Calls) /\ <<c>> \in Seq(Calls)
    BY CommittedIsSeq, ConcatProperties DEF LogTypeOK
  <2>2. log = done \o pending
    BY DEF LogIsComplete
  <2> HIDE DEF done
  <2>3. Append(log, c) = (done \o pending) \o <<c>>
    BY <2>1, <2>2, AppendIsConcat
  <2>4. (done \o pending) \o <<c>> = done \o (pending \o <<c>>)
    BY <2>1, ConcatAssociative
  <2>5. pending \o <<c>> = Append(pending, c)
    BY <2>1, AppendIsConcat
  <2>6. log' = done \o pending'
    BY <2>3, <2>4, <2>5
  <2> QED
    BY <1>1, <2>6 DEF done, LogIsComplete
<1>4. FlushKeepsPlace' /\ IdsAreCommitted'
  BY DEF FlushKeepsPlace, IdsAreCommitted
<1> QED
  BY <1>1, <1>2, <1>3, <1>4

LEMMA FlushBeginsPreservesIInv ==
    ASSUME IInv, FlushBegins
    PROVE  IInv' /\ Committed' = Committed
<1> USE DEF IInv, FlushBegins, diskVars
<1>1. Committed' = Committed
  BY DEF Committed
<1>2. batch = <<>> /\ rows = Committed
  BY CommittedIsSeq DEF FlushKeepsPlace
<1>3. Len(rows) = durable /\ durable \in Nat
  BY <1>2, CommittedIsSeq DEF LogTypeOK
<1>4. LogTypeOK'
  BY EmptySeq DEF LogTypeOK, Phases
<1>5. LogIsComplete'
  <2>1. Committed \in Seq(Calls) /\ pending \in Seq(Calls)
    BY CommittedIsSeq DEF LogTypeOK
  <2>2. log = Committed \o pending
    BY <1>2, <2>1, ConcatEmptySeq DEF LogIsComplete
  <2>3. (Committed \o pending) \o <<>> = Committed \o pending
    BY <2>1, ConcatProperties, ConcatEmptySeq
  <2>4. SubSeq(pending, 1, 0) = <<>> /\ Committed \o <<>> = Committed
    BY <2>1, SubSeqEmpty, ConcatEmptySeq
  <2>5. log' = Committed' \o batch' \o pending'
    BY <1>1, <2>2, <2>3
  <2>6. (Len(rows) - durable)' = 0
    BY <1>3
  <2>7. rows' = Committed' \o SubSeq(batch', 1, (Len(rows) - durable)')
    BY <1>1, <1>2, <2>4, <2>6
  <2> QED
    BY <2>5, <2>7 DEF LogIsComplete
<1>6. FlushKeepsPlace'
  <2>1. Len(pending) \in Nat \ {0}
    BY EmptySeq DEF LogTypeOK
  <2> QED
    BY <1>3, <2>1 DEF FlushKeepsPlace
<1>7. IdsAreCommitted'
  BY DEF IdsAreCommitted
<1> QED
  BY <1>1, <1>4, <1>5, <1>6, <1>7

LEMMA InsertPreservesIInv ==
    ASSUME IInv, Insert
    PROVE  IInv' /\ Committed' = Committed
<1> USE DEF IInv
<1> DEFINE k == Len(rows) - durable
           c == batch[k + 1]
<1>1. /\ rows \in Seq(Calls) /\ batch \in Seq(Calls) /\ durable \in Nat
      /\ Len(rows) \in Nat /\ Len(batch) \in Nat
      /\ k \in 0 .. Len(batch) - 1 /\ durable \in 0 .. Len(rows)
  BY CommittedIsSeq DEF LogTypeOK, FlushKeepsPlace, Insert
<1>2. /\ rows' = Append(rows, c) /\ phase' = IF Len(rows') - durable = Len(batch) THEN "commit" ELSE "insert"
      /\ UNCHANGED <<durable, pending, batch, dbId, log>>
  BY DEF Insert
<1> HIDE DEF k, c
<1>3. c \in Calls /\ SubSeq(batch, 1, k + 1) = SubSeq(batch, 1, k) \o <<c>>
  BY <1>1, PrefixGrows DEF c
<1>4. /\ rows' = rows \o <<c>> /\ <<c>> \in Seq(Calls)
      /\ rows' \in Seq(Calls) /\ Len(rows') = Len(rows) + 1
      /\ \A i \in 1 .. Len(rows) : rows'[i] = rows[i]
  <2> HIDE DEF IInv
  <2>1. Append(rows, c) = rows \o <<c>>
    BY <1>1, <1>3, AppendIsConcat
  <2>2. /\ Append(rows, c) \in Seq(Calls) /\ Len(Append(rows, c)) = Len(rows) + 1
        /\ \A i \in 1 .. Len(rows) : Append(rows, c)[i] = rows[i]
    BY <1>1, <1>3, AppendProperties
  <2>3. <<c>> \in Seq(Calls)
    BY <1>3
  <2> QED
    BY <1>2, <2>1, <2>2, <2>3
<1>5. Committed' = Committed
  BY <1>1, <1>2, <1>4, PrefixOfConcat DEF Committed
<1>6. LogTypeOK'
  BY <1>2, <1>4 DEF LogTypeOK, Phases
<1>7. LogIsComplete'
  <2>1. Committed \in Seq(Calls) /\ SubSeq(batch, 1, k) \in Seq(Calls)
    BY CommittedIsSeq DEF k
  <2>2. rows = Committed \o SubSeq(batch, 1, k)
    BY DEF LogIsComplete, k
  <2>3. rows' = Committed \o (SubSeq(batch, 1, k) \o <<c>>)
    <3> HIDE DEF IInv
    <3>1. \A p, q, r \in Seq(Calls) : (p \o q) \o r = p \o (q \o r)
      BY ConcatAssociative
    <3>2. <<c>> \in Seq(Calls)
      BY <1>4
    <3>3. (Committed \o SubSeq(batch, 1, k)) \o <<c>> = Committed \o (SubSeq(batch, 1, k) \o <<c>>)
      BY <2>1, <3>1, <3>2, Zenon
    <3> QED
      BY <1>4, <2>2, <3>3
  <2>4. (Len(rows) - durable)' = k + 1
    BY <1>1, <1>2, <1>4 DEF k
  <2> QED
    BY <1>2, <1>3, <1>5, <2>3, <2>4 DEF LogIsComplete
<1>8. FlushKeepsPlace'
  <2>1. /\ k \in Nat /\ k + 1 <= Len(batch) /\ Len(rows) = durable + k
        /\ Len(rows') - durable' = k + 1 /\ durable' <= Len(rows')
        /\ Len(batch') = Len(batch)
    BY <1>1, <1>2, <1>4 DEF k
  <2>2. phase' = IF k + 1 = Len(batch) THEN "commit" ELSE "insert"
    BY <1>2, <2>1
  <2> HIDE DEF IInv
  <2> QED
    BY <1>1, <2>1, <2>2 DEF FlushKeepsPlace
<1>9. IdsAreCommitted'
  <2>1. \A d \in Calls : dbId[d] # 0 => dbId[d] \in 1 .. Len(rows)
    BY <1>1 DEF IdsAreCommitted, LogTypeOK
  <2> QED
    BY <1>1, <1>2, <1>4, <2>1 DEF IdsAreCommitted
<1> QED
  BY <1>5, <1>6, <1>7, <1>8, <1>9

\* A commit moves the batch, and nothing else, to the disk.
LEMMA CommitPreservesIInv ==
    ASSUME IInv, Commit
    PROVE  /\ IInv' /\ Committed' = rows
           /\ log = rows \o pending
<1> USE DEF IInv
<1>1. /\ rows \in Seq(Calls) /\ batch \in Seq(Calls) /\ pending \in Seq(Calls)
      /\ durable \in Nat /\ Len(rows) \in Nat
      /\ Len(rows) - durable = Len(batch) /\ durable \in 0 .. Len(rows)
      /\ dbId \in [Calls -> Nat]
  BY CommittedIsSeq DEF LogTypeOK, FlushKeepsPlace, Commit
<1>2. /\ durable' = Len(rows) /\ batch' = <<>> /\ phase' = "off"
      /\ UNCHANGED <<rows, pending, log>>
  BY DEF Commit
<1>3. Committed' = rows
  BY <1>1, <1>2, SubSeqFull DEF Committed
<1>4. rows = Committed \o batch
  BY <1>1, SubSeqFull DEF LogIsComplete
<1>5. log = rows \o pending
  BY <1>4 DEF LogIsComplete
<1>6. \A c \in Calls :
         \/ dbId'[c] \in durable + 1 .. Len(rows) /\ rows[dbId'[c]] = c
         \/ dbId'[c] = dbId[c]
  BY DEF Commit
<1>7. LogTypeOK'
  <2>1. dbId' \in [Calls -> Nat]
    <3>1. dbId' = [c \in Calls |-> dbId'[c]]
      BY DEF Commit
    <3>2. \A c \in Calls : dbId'[c] \in Nat
      BY <1>1, <1>6
    <3> QED
      BY <3>1, <3>2
  <2> QED
    BY <1>1, <1>2, <2>1, EmptySeq DEF LogTypeOK, Phases
<1>8. LogIsComplete'
  <2>1. rows \o <<>> = rows
    BY <1>1, ConcatEmptySeq
  <2>2. SubSeq(<<>>, 1, (Len(rows) - durable)') = <<>>
    <3>1. (Len(rows) - durable)' = 0
      BY <1>1, <1>2
    <3> QED
      BY <3>1, SubSeqEmpty
  <2> QED
    BY <1>2, <1>3, <1>5, <2>1, <2>2 DEF LogIsComplete
<1>9. FlushKeepsPlace'
  BY <1>1, <1>2, EmptySeq DEF FlushKeepsPlace
<1>10. IdsAreCommitted'
  BY <1>1, <1>2, <1>6 DEF IdsAreCommitted
<1> QED
  BY <1>3, <1>5, <1>7, <1>8, <1>9, <1>10

LEMMA FlushFailsPreservesIInv ==
    ASSUME IInv, FlushFails
    PROVE  IInv' /\ Committed' = Committed
<1> USE DEF IInv, FlushFails, diskVars
<1>1. Committed' = Committed /\ (LogIsComplete => LogIsComplete')
  BY DEF Committed, LogIsComplete
<1>2. LogTypeOK' /\ FlushKeepsPlace' /\ IdsAreCommitted'
  BY DEF LogTypeOK, Phases, FlushKeepsPlace, IdsAreCommitted
<1> QED
  BY <1>1, <1>2

\* The table is back where the last commit left it.
LEMMA CutToCommitted ==
    ASSUME IInv, rows' = Committed, durable' = durable
    PROVE  /\ Committed' = Committed /\ rows' \in Seq(Calls) /\ Len(rows') = durable
           /\ rows' = Committed' \o SubSeq(<<>>, 1, (Len(rows) - durable)')
           /\ \A i \in 1 .. durable : rows'[i] = rows[i]
<1>1. /\ Committed \in Seq(Calls) /\ Len(Committed) = durable
      /\ durable \in 0 .. Len(rows) /\ rows \in Seq(Calls)
  BY CommittedIsSeq DEF IInv, LogTypeOK, FlushKeepsPlace
<1>2. Committed' = Committed
  BY CommittedIsSeq DEF Committed
<1>3. (Len(rows) - durable)' = 0
  BY <1>1
<1>4. SubSeq(<<>>, 1, (Len(rows) - durable)') = <<>>
  BY <1>3, SubSeqEmpty
<1>5. Committed \o <<>> = Committed
  BY <1>1, ConcatEmptySeq
<1>6. \A i \in 1 .. durable : Committed[i] = rows[i]
  BY <1>1, PrefixIsSeq DEF Committed
<1> QED
  BY <1>1, <1>2, <1>4, <1>5, <1>6

LEMMA RollbackPreservesIInv ==
    ASSUME IInv, Rollback
    PROVE  IInv' /\ Committed' = Committed
<1> USE DEF IInv, Rollback
<1>1. /\ Committed \in Seq(Calls) /\ batch \in Seq(Calls) /\ pending \in Seq(Calls)
      /\ durable \in Nat
  BY CommittedIsSeq DEF LogTypeOK
<1>2. /\ Committed' = Committed /\ rows' \in Seq(Calls) /\ Len(rows') = durable
      /\ rows' = Committed' \o SubSeq(<<>>, 1, (Len(rows) - durable)')
      /\ \A i \in 1 .. durable : rows'[i] = rows[i]
  BY CutToCommitted
<1>3. LogTypeOK'
  BY <1>1, <1>2, ConcatProperties, EmptySeq DEF LogTypeOK, Phases
<1>4. LogIsComplete'
  <2>1. (Committed \o batch) \o pending = Committed \o (batch \o pending)
    BY <1>1, ConcatAssociative
  <2>2. Committed \o <<>> = Committed
    BY <1>1, ConcatEmptySeq
  <2>3. log' = Committed' \o batch' \o pending'
    BY <1>2, <2>1, <2>2 DEF LogIsComplete
  <2> QED
    BY <1>2, <2>3 DEF LogIsComplete
<1>5. FlushKeepsPlace'
  BY <1>1, <1>2, EmptySeq DEF FlushKeepsPlace
<1>6. IdsAreCommitted'
  <2>1. \A c \in Calls : dbId[c] # 0 => dbId[c] \in 1 .. durable
    BY <1>1 DEF IdsAreCommitted, LogTypeOK
  <2> QED
    BY <1>2, <2>1 DEF IdsAreCommitted
<1> QED
  BY <1>2, <1>3, <1>4, <1>5, <1>6

LEMMA CrashPreservesIInv ==
    ASSUME IInv, Crash
    PROVE  IInv' /\ Committed' = Committed
<1> USE DEF IInv, Crash
<1>1. Committed \in Seq(Calls) /\ durable \in Nat
  BY CommittedIsSeq DEF LogTypeOK
<1>2. /\ Committed' = Committed /\ rows' \in Seq(Calls) /\ Len(rows') = durable
      /\ rows' = Committed' \o SubSeq(<<>>, 1, (Len(rows) - durable)')
  BY CutToCommitted
<1>3. LogTypeOK'
  BY <1>1, <1>2, EmptySeq DEF LogTypeOK, Phases
<1>4. LogIsComplete'
  <2>1. Committed \o <<>> = Committed
    BY <1>1, ConcatEmptySeq
  <2> QED
    BY <1>2, <2>1 DEF LogIsComplete
<1>5. FlushKeepsPlace'
  BY <1>1, <1>2, EmptySeq DEF FlushKeepsPlace
<1>6. IdsAreCommitted'
  BY DEF IdsAreCommitted
<1> QED
  BY <1>2, <1>3, <1>4, <1>5, <1>6

LEMMA NextPreservesIInv == IInv /\ [Next]_vars => IInv'
<1> SUFFICES ASSUME IInv, [Next]_vars PROVE IInv'
  OBVIOUS
<1>1. ASSUME NEW c \in Calls, RecordCall(c) PROVE IInv'
  BY <1>1, RecordCallPreservesIInv
<1>2. CASE FlushBegins
  BY <1>2, FlushBeginsPreservesIInv
<1>3. CASE Insert
  BY <1>3, InsertPreservesIInv
<1>4. CASE Commit
  BY <1>4, CommitPreservesIInv
<1>5. CASE FlushFails
  BY <1>5, FlushFailsPreservesIInv
<1>6. CASE Rollback
  BY <1>6, RollbackPreservesIInv
<1>7. CASE Crash
  BY <1>7, CrashPreservesIInv
<1>8. CASE UNCHANGED logVars
  <2>1. UNCHANGED <<rows, durable, pending, batch, phase, dbId, log>>
    BY <1>8 DEF logVars, diskVars, flushVars
  <2>2. LogTypeOK' /\ FlushKeepsPlace' /\ IdsAreCommitted'
    BY <2>1 DEF IInv, LogTypeOK, FlushKeepsPlace, IdsAreCommitted
  <2>3. LogIsComplete'
    BY <2>1 DEF IInv, LogIsComplete, Committed
  <2> QED
    BY <2>2, <2>3 DEF IInv
<1> QED
  BY <1>1, <1>2, <1>3, <1>4, <1>5, <1>6, <1>7, <1>8, StepsOfTheLog

\* The inductive invariant holds for any calls, readers, window and faults.
THEOREM InductiveInvariant == Spec => []IInv
<1>1. Init => IInv
  BY InitEstablishesIInv
<1>2. IInv /\ [Next]_vars => IInv'
  BY NextPreservesIInv
<1> QED
  BY <1>1, <1>2, PTL DEF Spec

\* Type correctness of the table, the queue and the flush.
THEOREM LogTypeCorrect == Spec => []LogTypeOK
<1>1. IInv => LogTypeOK
  BY DEF IInv
<1> QED
  BY <1>1, InductiveInvariant, PTL

\* flush_pending loses no recorded call, repeats none and keeps their order,
\* whatever fails and whatever is recorded while it runs.
THEOREM LogAlwaysComplete == Spec => []LogIsComplete
<1>1. IInv => LogIsComplete
  BY DEF IInv
<1> QED
  BY <1>1, InductiveInvariant, PTL

\* A db_id never names a row that was not committed or is another call's.
THEOREM IdsAlwaysCommitted == Spec => []IdsAreCommitted
<1>1. IInv => IdsAreCommitted
  BY DEF IInv
<1> QED
  BY <1>1, InductiveInvariant, PTL

----------------------------------------------------------------------------
(* Refinement.                                                             *)

\* Every step of the log is a step of the write-behind log or a stutter.
LEMMA StepRefines == IInv /\ [Next]_vars => [WB!Next]_WB!vars
<1> SUFFICES ASSUME IInv, [Next]_vars PROVE [WB!Next]_WB!vars
  OBVIOUS
<1>1. ASSUME NEW c \in Calls, RecordCall(c) PROVE WB!Next
  <2>1. log' = Append(log, c) /\ Committed' = Committed
    BY <1>1, RecordCallPreservesIInv DEF RecordCall
  <2> QED
    BY <2>1 DEF WB!Next, WB!Record
<1>2. CASE FlushBegins
  BY <1>2, FlushBeginsPreservesIInv DEF FlushBegins, WB!vars
<1>3. CASE Insert
  BY <1>3, InsertPreservesIInv DEF Insert, WB!vars
<1>4. CASE Commit
  <2>1. /\ Committed' = rows /\ log = rows \o pending
        /\ log' = log
    BY <1>4, CommitPreservesIInv DEF Commit
  <2>2. /\ rows \in Seq(Calls) /\ pending \in Seq(Calls)
        /\ Len(rows) \in Nat /\ durable <= Len(rows) /\ durable \in Nat
        /\ Len(Committed) = durable
    BY CommittedIsSeq DEF IInv, LogTypeOK, FlushKeepsPlace
  <2>3. Len(log) = Len(rows) + Len(pending) /\ Len(pending) \in Nat
    BY <2>1, <2>2, ConcatProperties, LenProperties
  <2>4. Len(rows) \in Len(Committed) .. Len(log)
    BY <2>2, <2>3
  <2>5. SubSeq(log, 1, Len(rows)) = rows
    <3>1. Len(rows) \in 0 .. Len(rows)
      BY <2>2
    <3>2. SubSeq(rows \o pending, 1, Len(rows)) = SubSeq(rows, 1, Len(rows))
      BY <2>2, <3>1, PrefixOfConcat
    <3> QED
      BY <2>1, <2>2, <3>2, SubSeqFull
  <2> QED
    BY <2>1, <2>4, <2>5 DEF WB!Next, WB!Store
<1>5. CASE FlushFails
  BY <1>5, FlushFailsPreservesIInv DEF FlushFails, WB!vars
<1>6. CASE Rollback
  BY <1>6, RollbackPreservesIInv DEF Rollback, WB!vars
<1>7. CASE Crash
  <2>1. log' = Committed /\ Committed' = Committed
    BY <1>7, CrashPreservesIInv DEF Crash
  <2> QED
    BY <2>1 DEF WB!Next, WB!Crash
<1>8. CASE UNCHANGED logVars
  BY <1>8 DEF logVars, diskVars, Committed, WB!vars
<1> QED
  BY <1>1, <1>2, <1>3, <1>4, <1>5, <1>6, <1>7, <1>8, StepsOfTheLog

\* The cache, the queue and the transactions of sql.py implement a log whose
\* disk always holds a prefix of what was recorded.
THEOREM WriteBehindImplemented == Spec => ImplementsWriteBehind
<1>1. Init => WB!Init
  BY SubSeqEmpty DEF Init, Committed, WB!Init
<1>2. IInv /\ [Next]_vars => [WB!Next]_WB!vars
  BY StepRefines
<1> QED
  BY <1>1, <1>2, InductiveInvariant, PTL DEF Spec, ImplementsWriteBehind, WB!Spec

----------------------------------------------------------------------------
(* The window of recent calls: sequences and their members.                *)

LEMMA LeastNumber ==
    ASSUME NEW S \in SUBSET Nat, S # {}
    PROVE  \E n \in S : \A m \in S : n <= m
<1> DEFINE Less == OpToRel(<, Nat)
<1>1. \A m, n \in Nat : m < n => <<m, n>> \in Less
  BY DEF OpToRel
<1>2. IsWellFoundedOn(Less, Nat)
  BY NatLessThanWellFounded
<1> HIDE DEF Less
<1>3. PICK n \in S : \A m \in S : ~ (<<m, n>> \in Less)
  BY <1>2, WFMin
<1>4. \A m \in S : m \in Nat /\ n \in Nat /\ ~ (m < n)
  BY <1>1, <1>3
<1> QED
  BY <1>4

\* The last members are the sequence without a prefix.
LEMMA LastOfIs ==
    ASSUME NEW S, NEW s \in Seq(S), NEW n \in Nat
    PROVE  /\ LastOf(s, n) \in Seq(S) /\ Len(LastOf(s, n)) <= n
           /\ \E d \in 0 .. Len(s) :
                /\ Len(LastOf(s, n)) = Len(s) - d
                /\ d # 0 => Len(s) - d = n
                /\ \A i \in 1 .. Len(s) - d : LastOf(s, n)[i] = s[d + i]
<1>1. Len(s) \in Nat /\ \A i \in 1 .. Len(s) : s[i] \in S
  BY LenProperties, ElementOfSeq
<1>2. CASE Len(s) <= n
  <2>1. LastOf(s, n) = s
    BY <1>2 DEF LastOf
  <2>2. 0 \in 0 .. Len(s) /\ Len(s) = Len(s) - 0 /\ \A i \in 1 .. Len(s) - 0 : s[i] = s[0 + i]
    BY <1>1
  <2> QED
    BY <1>2, <2>1, <2>2
<1>3. CASE ~ (Len(s) <= n)
  <2> DEFINE d == Len(s) - n
  <2>1. /\ d \in 0 .. Len(s) /\ d + 1 \in Int /\ Len(s) \in Int
        /\ Len(s) - (d + 1) + 1 = n /\ Len(s) - d = n
        /\ d + 1 \in 1 .. Len(s) + 1 /\ (d + 1 <= Len(s) \/ n = 0)
    BY <1>1, <1>3
  <2>2. LastOf(s, n) = SubSeq(s, d + 1, Len(s))
    BY <1>3 DEF LastOf
  <2> HIDE DEF d
  <2>3. \A i \in d + 1 .. Len(s) : s[i] \in S
    BY <1>1, <2>1
  <2>4. /\ LastOf(s, n) \in Seq(S)
        /\ Len(LastOf(s, n)) = IF d + 1 <= Len(s) THEN Len(s) - (d + 1) + 1 ELSE 0
        /\ \A i \in 1 .. Len(s) - (d + 1) + 1 : LastOf(s, n)[i] = s[d + 1 + i - 1]
    BY <2>1, <2>2, <2>3, SubSeqProperties
  <2>5. Len(LastOf(s, n)) = n
    BY <1>1, <2>1, <2>4
  <2>6. ASSUME NEW i \in 1 .. Len(s) - d PROVE LastOf(s, n)[i] = s[d + i]
    <3>1. i \in 1 .. Len(s) - (d + 1) + 1 /\ d + 1 + i - 1 = d + i
      BY <2>1
    <3>2. LastOf(s, n)[i] = s[d + 1 + i - 1]
      BY <2>4, <3>1
    <3> QED
      BY <3>1, <3>2
  <2>7. Len(LastOf(s, n)) <= n /\ Len(LastOf(s, n)) = Len(s) - d
    BY <2>1, <2>5
  <2>8. \E k \in 0 .. Len(s) :
          /\ Len(LastOf(s, n)) = Len(s) - k
          /\ k # 0 => Len(s) - k = n
          /\ \A i \in 1 .. Len(s) - k : LastOf(s, n)[i] = s[k + i]
    BY <2>1, <2>6, <2>7
  <2> QED
    BY <2>4, <2>7, <2>8
<1> QED
  BY <1>2, <1>3

Once(s) == \A i, j \in DOMAIN s : s[i] = s[j] => i = j

\* A sequence without repetition has as many members as places.
LEMMA CountOnce ==
    ASSUME NEW S, NEW s \in Seq(S), Once(s)
    PROVE  IsFiniteSet(ToSet(s)) /\ Cardinality(ToSet(s)) = Len(s)
<1>1. Len(s) \in Nat /\ DOMAIN s = 1 .. Len(s) /\ s \in [1 .. Len(s) -> S]
  BY LenProperties
<1>2. s \in [1 .. Len(s) -> ToSet(s)]
  BY <1>1 DEF ToSet
<1>3. s \in Bijection(1 .. Len(s), ToSet(s))
  BY <1>1, <1>2 DEF Bijection, Injection, Surjection, IsInjective, Once, ToSet
<1>4. IsFiniteSet(1 .. Len(s)) /\ Cardinality(1 .. Len(s)) = Len(s)
  BY <1>1, FS_Interval
<1> QED
  BY <1>3, <1>4, FS_Bijection DEF ExistsBijection

\* Members of a sequence from some place on are no more than the places.
LEMMA CountFrom ==
    ASSUME NEW S, NEW s \in Seq(S), NEW n \in 0 .. Len(s), NEW T,
           \A t \in T : \E i \in n + 1 .. Len(s) : s[i] = t
    PROVE  IsFiniteSet(T) /\ Cardinality(T) <= Len(s) - n
<1> DEFINE f == [t \in T |-> CHOOSE i \in n + 1 .. Len(s) : s[i] = t]
<1>1. Len(s) \in Nat
  BY LenProperties
<1>2. \A t \in T : f[t] \in n + 1 .. Len(s) /\ s[f[t]] = t
  OBVIOUS
<1>3. f \in [T -> n + 1 .. Len(s)] /\ DOMAIN f = T
  BY <1>2
<1> HIDE DEF f
<1>4. f \in Injection(T, n + 1 .. Len(s))
  BY <1>2, <1>3 DEF Injection, IsInjective
<1>5. /\ IsFiniteSet(n + 1 .. Len(s))
      /\ Cardinality(n + 1 .. Len(s)) = Len(s) - n
  <2>1. n + 1 \in Int /\ Len(s) \in Int
    BY <1>1
  <2>2. /\ IsFiniteSet(n + 1 .. Len(s))
        /\ Cardinality(n + 1 .. Len(s)) = IF n + 1 > Len(s) THEN 0 ELSE Len(s) - (n + 1) + 1
    BY <2>1, FS_Interval
  <2> QED
    BY <1>1, <2>2
<1> QED
  BY <1>4, <1>5, FS_Injection

\* InOrder lists a set, once each and in order, if Earlier orders it.
LEMMA OrderedSet ==
    ASSUME NEW S, IsFiniteSet(S),
           \A e \in S : ~ Earlier(e, e),
           \A e, f, g \in S : Earlier(e, f) /\ Earlier(f, g) => Earlier(e, g),
           \A e, f \in S : e # f => Earlier(e, f) \/ Earlier(f, e)
    PROVE  /\ InOrder(S) \in Seq(S) /\ Len(InOrder(S)) = Cardinality(S)
           /\ ToSet(InOrder(S)) = S /\ Once(InOrder(S))
           /\ \A i, j \in 1 .. Cardinality(S) :
                 i < j => Earlier(InOrder(S)[i], InOrder(S)[j])
<1> DEFINE N       == Cardinality(S)
           Down(e) == {f \in S : Earlier(f, e)}
           rank    == [e \in S |-> 1 + Cardinality(Down(e))]
           u       == InOrder(S)
<1>1. N \in Nat /\ IsFiniteSet(1 .. N) /\ Cardinality(1 .. N) = N
  BY FS_CardinalityType, FS_Interval
<1>2. \A e \in S : IsFiniteSet(Down(e)) /\ Cardinality(Down(e)) \in Nat
  BY FS_Subset, FS_CardinalityType
<1>3. ASSUME NEW e \in S, NEW f \in S, Earlier(e, f) PROVE rank[e] < rank[f]
  <2>1. Down(e) \in SUBSET Down(f) /\ e \in Down(f) /\ e \notin Down(e)
    BY <1>3
  <2>2. Cardinality(Down(e)) < Cardinality(Down(f))
    <3> HIDE DEF Down
    <3>1. /\ Cardinality(Down(e)) <= Cardinality(Down(f))
          /\ Cardinality(Down(f)) # Cardinality(Down(e))
      BY <1>2, <2>1, FS_Subset
    <3> QED
      BY <1>2, <3>1
  <2> HIDE DEF Down
  <2> QED
    BY <1>2, <2>2
<1>4. \A e \in S : rank[e] \in 1 .. N
  <2> SUFFICES ASSUME NEW e \in S PROVE rank[e] \in 1 .. N
    OBVIOUS
  <2>1. Down(e) \in SUBSET S /\ e \notin Down(e)
    OBVIOUS
  <2>2. Cardinality(Down(e)) <= N /\ Cardinality(Down(e)) # N
    <3> HIDE DEF Down
    <3> QED
      BY <2>1, FS_Subset
  <2> HIDE DEF Down
  <2> QED
    BY <1>1, <1>2, <2>2
<1>5. u = [i \in 1 .. N |-> CHOOSE e \in S : rank[e] = i]
  BY DEF InOrder
<1> HIDE DEF rank, u
<1>6. rank \in Injection(S, 1 .. N)
  <2>1. rank \in [S -> 1 .. N]
    BY <1>4 DEF rank
  <2>2. \A e, f \in S : rank[e] = rank[f] => e = f
    BY <1>1, <1>3, <1>4
  <2> QED
    BY <2>1, <2>2 DEF Injection, IsInjective
<1>7. \A i \in 1 .. N : \E e \in S : rank[e] = i
  <2>1. IsFiniteSet(S) /\ Cardinality(S) = Cardinality(1 .. N)
    BY <1>1
  <2> HIDE DEF N
  <2>2. rank \in Surjection(S, 1 .. N)
    BY <1>1, <1>6, <2>1, FS_Injection
  <2> QED
    BY <2>2 DEF Surjection
<1>8. \A i \in 1 .. N : u[i] \in S /\ rank[u[i]] = i
  BY <1>5, <1>7
<1>9. /\ u \in Seq(S) /\ Len(u) = N /\ DOMAIN u = 1 .. N
  <2>1. u \in [1 .. N -> S]
    BY <1>5, <1>8
  <2>2. u \in Seq(S)
    BY <1>1, <2>1, SeqDef
  <2>3. Len(u) \in Nat /\ DOMAIN u = 1 .. Len(u) /\ DOMAIN u = 1 .. N
    BY <2>1, <2>2, LenProperties
  <2> QED
    BY <1>1, <2>2, <2>3
<1>10. \A e \in S : \E i \in 1 .. N : u[i] = e
  BY <1>4, <1>6, <1>8 DEF Injection, IsInjective
<1>11. ToSet(u) = S /\ Once(u)
  BY <1>8, <1>9, <1>10 DEF ToSet, Once
<1>12. ASSUME NEW i \in 1 .. N, NEW j \in 1 .. N, i < j PROVE Earlier(u[i], u[j])
  <2>1. u[i] # u[j] /\ ~ Earlier(u[j], u[i])
    BY <1>1, <1>3, <1>8, <1>12
  <2> QED
    BY <1>8, <2>1
<1> QED
  BY <1>9, <1>11, <1>12 DEF u

----------------------------------------------------------------------------
(* The window of recent calls: what holds of it in every state.            *)

LogOnce == Once(log)

\* A row's id, once known, is the place of its call in the log.
IdsAreTimes == \A c \in Calls : dbId[c] # 0 => c \in ToSet(log) /\ dbId[c] = Time(c)

\* Every task that is not idle has one job in the connection.
Precedes(q, x, y) == \E i, j \in DOMAIN q : i < j /\ q[i] = x /\ q[j] = y
QueueInv ==
    /\ queue \in Seq(Readers \cup {Flusher}) /\ Once(queue)
    /\ reader \in [Readers -> {"idle", "select", "fetch", "close"}]
    /\ \A r \in Readers : r \in ToSet(queue) <=> reader[r] # "idle"
    /\ Flusher \in ToSet(queue) => phase # "off"

Sound(e) ==
    /\ e \in Entries /\ e.call \in ToSet(log)
    /\ e.id # 0 => e.id = Time(e.call)

\* The calls after the first m of the log are in the window.
Recent(m) == \A t \in m + 1 .. Len(log) : log[t] \in CallsIn(cache)

\* The window has a call's successors with it; and while it has room, all
\* that is on no disk.
CacheInv ==
    /\ cache \in Seq(Entries) /\ Len(cache) <= Cap /\ Once(cache)
    /\ \A i \in DOMAIN cache : Sound(cache[i])
    /\ \A i, j \in DOMAIN cache : i < j => Time(cache[i].call) <= Time(cache[j].call)
    /\ \A i \in DOMAIN cache : Recent(Time(cache[i].call))
    /\ log # <<>> /\ loaded => cache # <<>>
    /\ Len(cache) < Cap => Recent(durable)

\* What a query finds when there are b rows: the last of them, with their ids.
Found(s, b) ==
    /\ s \in Seq(Entries) /\ Len(s) <= Cap /\ Once(s)
    /\ \A i \in DOMAIN s : Sound(s[i]) /\ s[i].id \in 1 .. b
    /\ \A i \in DOMAIN s : \A t \in s[i].id .. b : \E j \in DOMAIN s : s[j].id = t
    /\ b # 0 => s # <<>>
    /\ Len(s) < Cap => \A t \in 1 .. b : \E j \in DOMAIN s : s[j].id = t

\* The flush is served once at most between two jobs of a load.
Pace(r, b) ==
    /\ reader[r] = "fetch" => Len(rows) <= b + 1 /\ durable <= b
    /\ reader[r] = "close" => Len(rows) <= b + 2 /\ durable <= b + 1
    /\ Precedes(queue, Flusher, r) =>
          /\ reader[r] = "fetch" => Len(rows) <= b
          /\ reader[r] = "close" => Len(rows) <= b + 1 /\ durable <= b

\* A load has found all rows but those the flush could add meanwhile; what the
\* window lacks was among them.
Loading(r) == reader[r] \in {"fetch", "close"}
Covers(r, b) == Found(snap[r], b) /\ Pace(r, b) /\ (Len(cache) < Cap => Recent(b))
SnapInv ==
    /\ snap \in [Readers -> Seq(Entries)]
    /\ \A r \in Readers : Loading(r) => \E b \in 0 .. Len(log) : Covers(r, b)

WInv ==
    /\ IInv /\ LogOnce /\ IdsAreTimes /\ QueueInv /\ CacheInv /\ SnapInv
    /\ loaded \in BOOLEAN /\ faults \in Nat

LEMMA TimeIs ==
    ASSUME log \in Seq(Calls), LogOnce
    PROVE  /\ Len(log) \in Nat /\ DOMAIN log = 1 .. Len(log)
           /\ \A i \in 1 .. Len(log) :
                 log[i] \in Calls /\ log[i] \in ToSet(log) /\ Time(log[i]) = i
           /\ \A c \in ToSet(log) :
                 c \in Calls /\ Time(c) \in 1 .. Len(log) /\ log[Time(c)] = c
<1>1. /\ Len(log) \in Nat /\ DOMAIN log = 1 .. Len(log)
      /\ \A i \in 1 .. Len(log) : log[i] \in Calls /\ log[i] \in ToSet(log)
  BY LenProperties, ElementOfSeq DEF ToSet
<1>2. ASSUME NEW c \in ToSet(log)
      PROVE  c \in Calls /\ Time(c) \in 1 .. Len(log) /\ log[Time(c)] = c
  <2>1. \E i \in DOMAIN log : log[i] = c
    BY DEF ToSet
  <2>2. Time(c) \in DOMAIN log /\ log[Time(c)] = c
    BY <2>1 DEF Time
  <2> QED
    BY <1>1, <2>2
<1>3. \A i \in 1 .. Len(log) : Time(log[i]) = i
  BY <1>1, <1>2 DEF LogOnce, Once
<1> QED
  BY <1>1, <1>2, <1>3

\* The earliest calls of a growing log keep their times.
LEMMA TimeStays ==
    ASSUME log \in Seq(Calls), NEW c, c \notin ToSet(log), c \in Calls, log' = Append(log, c),
           LogOnce
    PROVE  /\ LogOnce' /\ log' \in Seq(Calls) /\ Len(log') = Len(log) + 1
           /\ ToSet(log') = ToSet(log) \cup {c}
           /\ \A i \in 1 .. Len(log) : log'[i] = log[i]
           /\ log'[Len(log) + 1] = c /\ Time(c)' = Len(log) + 1
           /\ \A d \in ToSet(log) : Time(d)' = Time(d)
<1>1. /\ log' \in Seq(Calls) /\ Len(log') = Len(log) + 1 /\ Len(log) \in Nat
      /\ \A i \in 1 .. Len(log) : log'[i] = log[i]
      /\ log'[Len(log) + 1] = c
      /\ DOMAIN log = 1 .. Len(log) /\ DOMAIN log' = 1 .. Len(log')
  BY AppendProperties, LenProperties
<1>2. DOMAIN log' = DOMAIN log \cup {Len(log) + 1}
  BY <1>1
<1>3. ToSet(log') = ToSet(log) \cup {c}
  BY <1>1, <1>2 DEF ToSet
<1>4. \A i \in DOMAIN log : log[i] # c
  BY DEF ToSet
<1>5. LogOnce'
  BY <1>1, <1>2, <1>4 DEF LogOnce, Once
<1>6. \A d : d \in ToSet(log') => Time(d)' \in DOMAIN log' /\ log'[Time(d)'] = d
  BY DEF ToSet, Time
<1>7. \A d : \A i \in DOMAIN log' : log'[i] = d => Time(d)' = i
  <2> SUFFICES ASSUME NEW d, NEW i \in DOMAIN log', log'[i] = d PROVE Time(d)' = i
    OBVIOUS
  <2>1. d \in ToSet(log')
    BY DEF ToSet
  <2>2. Time(d)' \in DOMAIN log' /\ log'[Time(d)'] = d
    BY <1>6, <2>1
  <2> QED
    BY <1>5, <2>2 DEF LogOnce, Once
<1>8. \A d \in ToSet(log) : Time(d)' = Time(d)
  <2> SUFFICES ASSUME NEW d \in ToSet(log) PROVE Time(d)' = Time(d)
    OBVIOUS
  <2>1. Time(d) \in DOMAIN log /\ log[Time(d)] = d
    BY TimeIs
  <2>2. Time(d) \in DOMAIN log' /\ log'[Time(d)] = d
    BY <1>1, <1>2, <2>1
  <2> QED
    BY <1>7, <2>2
<1>9. Time(c)' = Len(log) + 1
  BY <1>1, <1>2, <1>7
<1> QED
  BY <1>1, <1>3, <1>5, <1>8, <1>9

\* Entries with different calls or different ids are in an order.
LEMMA EarlierOrders ==
    ASSUME log \in Seq(Calls), LogOnce, dbId \in [Calls -> Nat], NEW S,
           \A e \in S : Sound(e),
           \A e, f \in S : e.call = f.call /\ DbId(e) = DbId(f) => e = f
    PROVE  /\ \A e \in S : ~ Earlier(e, e)
           /\ \A e, f, g \in S : Earlier(e, f) /\ Earlier(f, g) => Earlier(e, g)
           /\ \A e, f \in S : e # f => Earlier(e, f) \/ Earlier(f, e)
           /\ \A e, f \in S : Earlier(e, f) => Time(e.call) <= Time(f.call)
<1>1. \A e \in S : /\ Time(e.call) \in Nat /\ log[Time(e.call)] = e.call
                   /\ DbId(e) \in Nat
  <2> SUFFICES ASSUME NEW e \in S
               PROVE  /\ Time(e.call) \in Nat /\ log[Time(e.call)] = e.call
                      /\ DbId(e) \in Nat
    OBVIOUS
  <2>1. e.call \in ToSet(log) /\ e.call \in Calls /\ e.id \in Nat
    BY DEF Sound, Entries
  <2> QED
    BY <2>1, TimeIs DEF DbId
<1>2. \A e, f \in S : Time(e.call) = Time(f.call) => e.call = f.call
  BY <1>1
<1> QED
  BY <1>1, <1>2 DEF Earlier

----------------------------------------------------------------------------
(* What a load merges into the window.                                     *)

IdsOf(found) == {found[k].id : k \in DOMAIN found}
KeptAt(found, i) ==
    \/ DbId(cache[i]) = 0
    \/ /\ DbId(cache[i]) \notin IdsOf(found)
       /\ \A j \in 1 .. i - 1 : DbId(cache[j]) # DbId(cache[i])
KeptOf(found) == {cache[i] : i \in {j \in DOMAIN cache : KeptAt(found, j)}}
Both(found) == ToSet(found) \cup KeptOf(found)

LEMMA MergedIs == \A found : Merged(found) = LastOf(InOrder(Both(found)), Cap)
  BY DEF Merged, Both, KeptOf, KeptAt, IdsOf

\* An entry's id is not known yet or is the time of its call.
LEMMA IdOfEntry ==
    ASSUME IInv, LogOnce, IdsAreTimes, NEW e, Sound(e)
    PROVE  /\ e.call \in ToSet(log) /\ e.call \in Calls /\ Time(e.call) \in 1 .. Len(log)
           /\ log[Time(e.call)] = e.call
           /\ DbId(e) \in {0, Time(e.call)}
           /\ e.id # 0 => DbId(e) = e.id
           /\ DbId(e) = 0 => e.id = 0
           /\ e.id = 0 /\ DbId(e) # 0 => Time(e.call) <= durable
           /\ e = [call |-> e.call, id |-> e.id]
<1>1. /\ log \in Seq(Calls) /\ dbId \in [Calls -> Nat] /\ e.call \in Calls
      /\ \A c \in Calls : dbId[c] # 0 => dbId[c] <= durable
      /\ e \in [call : Calls, id : Nat] /\ e.call \in ToSet(log)
  BY DEF IInv, LogTypeOK, IdsAreCommitted, Sound, Entries
<1>2. Time(e.call) \in 1 .. Len(log) /\ log[Time(e.call)] = e.call /\ Len(log) \in Nat
  BY <1>1, TimeIs
<1>3. e = [call |-> e.call, id |-> e.id]
  BY <1>1
<1> QED
  BY <1>1, <1>2, <1>3 DEF IdsAreTimes, Sound, DbId

LEMMA KeptIs ==
    ASSUME IInv, LogOnce, IdsAreTimes, CacheInv,
           NEW b \in 0 .. Len(log), NEW found, Found(found, b), durable <= b + 1
    PROVE  /\ \A e \in Both(found) : Sound(e)
           /\ \A e \in Both(found) : e \in ToSet(found) \/ e \in ToSet(cache)
           /\ \A i \in DOMAIN cache : \E f \in Both(found) : f.call = cache[i].call
           /\ \A e, f \in Both(found) : e.call = f.call /\ DbId(e) = DbId(f) => e = f
           /\ ~ Recent(b) =>
                /\ ToSet(cache) \subseteq Both(found)
                /\ \A i \in DOMAIN cache : b < Time(cache[i].call)
<1>0. /\ Len(log) \in Nat /\ durable \in Nat /\ log \in Seq(Calls)
      /\ Len(cache) \in Nat /\ DOMAIN cache = 1 .. Len(cache)
      /\ \A i \in DOMAIN cache : Sound(cache[i])
      /\ \A i, j \in DOMAIN cache : cache[i] = cache[j] => i = j
      /\ \A k \in DOMAIN found : Sound(found[k]) /\ found[k].id \in 1 .. b
  BY LenProperties DEF IInv, LogTypeOK, CacheInv, Found, Once
<1>1. \A k \in DOMAIN found : /\ DbId(found[k]) = found[k].id /\ found[k].id = Time(found[k].call)
                              /\ found[k].call = log[found[k].id]
                              /\ found[k] = [call |-> log[found[k].id], id |-> found[k].id]
  <2> SUFFICES ASSUME NEW k \in DOMAIN found
               PROVE  /\ DbId(found[k]) = found[k].id /\ found[k].id = Time(found[k].call)
                      /\ found[k].call = log[found[k].id]
                      /\ found[k] = [call |-> log[found[k].id], id |-> found[k].id]
    OBVIOUS
  <2>1. Sound(found[k]) /\ found[k].id # 0
    BY <1>0
  <2>2. found[k].id = Time(found[k].call)
    BY <2>1 DEF Sound
  <2> QED
    BY <2>1, <2>2, IdOfEntry
<1>2. \A i \in DOMAIN cache :
        /\ DbId(cache[i]) \in {0, Time(cache[i].call)}
        /\ cache[i].id # 0 => DbId(cache[i]) = cache[i].id
        /\ DbId(cache[i]) = 0 => cache[i].id = 0
        /\ cache[i].id = 0 /\ DbId(cache[i]) # 0 => Time(cache[i].call) <= durable
        /\ log[Time(cache[i].call)] = cache[i].call /\ Time(cache[i].call) \in 1 .. Len(log)
        /\ cache[i] = [call |-> cache[i].call, id |-> cache[i].id]
  BY <1>0, IdOfEntry
<1>3. /\ \A e \in Both(found) : e \in ToSet(found) \/ e \in ToSet(cache)
      /\ \A e \in Both(found) : Sound(e)
  BY <1>0 DEF Both, KeptOf, ToSet
<1>4. ASSUME NEW i \in DOMAIN cache PROVE \E f \in Both(found) : f.call = cache[i].call
  <2> DEFINE d == DbId(cache[i])
             Same == {j \in DOMAIN cache : DbId(cache[j]) = d}
  <2>1. CASE d = 0
    BY <2>1 DEF Both, KeptOf, KeptAt
  <2>2. CASE d # 0 /\ d \in IdsOf(found)
    <3>1. PICK k \in DOMAIN found : found[k].id = d
      BY <2>2 DEF IdsOf
    <3>2. found[k].call = log[d] /\ cache[i].call = log[d]
      BY <1>1, <1>2, <2>2, <3>1
    <3> QED
      BY <3>2 DEF Both, ToSet
  <2>3. CASE d # 0 /\ d \notin IdsOf(found)
    <3>1. Same \in SUBSET Nat /\ Same # {}
      BY <1>0
    <3>2. PICK j \in Same : \A k \in Same : j <= k
      BY <3>1, LeastNumber
    <3>3. j \in DOMAIN cache /\ DbId(cache[j]) = d
      BY <3>2
    <3>4. \A k \in 1 .. j - 1 : DbId(cache[k]) # d
      BY <1>0, <3>2
    <3>5. cache[j] \in Both(found)
      BY <2>3, <3>3, <3>4 DEF Both, KeptOf, KeptAt
    <3>6. cache[j].call = log[d] /\ cache[i].call = log[d]
      BY <1>2, <2>3, <3>3
    <3> QED
      BY <3>5, <3>6
  <2> QED
    BY <2>1, <2>2, <2>3
<1>5. ASSUME NEW e \in Both(found), NEW f \in Both(found), e.call = f.call, DbId(e) = DbId(f)
      PROVE  e = f
  <2>1. \A x \in KeptOf(found) : \E i \in DOMAIN cache : x = cache[i] /\ KeptAt(found, i)
    BY DEF KeptOf
  <2>2. \A x \in ToSet(found) : \E k \in DOMAIN found : x = found[k]
    BY DEF ToSet
  <2>3. CASE e \in ToSet(found) /\ f \in ToSet(found)
    BY <1>1, <1>5, <2>2, <2>3
  <2>4. ASSUME NEW x \in ToSet(found), NEW y \in KeptOf(found) PROVE DbId(x) # DbId(y)
    <3>1. PICK k \in DOMAIN found : x = found[k]
      BY <2>2
    <3>2. PICK i \in DOMAIN cache : y = cache[i] /\ KeptAt(found, i)
      BY <2>1
    <3>3. DbId(x) \in IdsOf(found) /\ DbId(x) # 0
      BY <1>0, <1>1, <3>1 DEF IdsOf
    <3> QED
      BY <3>2, <3>3 DEF KeptAt
  <2>5. CASE e \in KeptOf(found) /\ f \in KeptOf(found)
    <3>1. PICK i \in DOMAIN cache : e = cache[i] /\ KeptAt(found, i)
      BY <2>1, <2>5
    <3>2. PICK j \in DOMAIN cache : f = cache[j] /\ KeptAt(found, j)
      BY <2>1, <2>5
    <3>3. CASE DbId(e) = 0
      BY <1>2, <1>5, <3>1, <3>2, <3>3
    <3>4. CASE DbId(e) # 0
      BY <1>0, <1>5, <3>1, <3>2, <3>4 DEF KeptAt
    <3> QED
      BY <3>3, <3>4
  <2> QED
    BY <1>5, <2>3, <2>4, <2>5 DEF Both
<1>6. ASSUME ~ Recent(b)
      PROVE  /\ ToSet(cache) \subseteq Both(found)
             /\ \A i \in DOMAIN cache : b < Time(cache[i].call)
  <2>1. ASSUME NEW i \in DOMAIN cache PROVE b + 1 < Time(cache[i].call)
    <3>1. /\ Recent(Time(cache[i].call)) /\ cache[i].call \in CallsIn(cache)
      BY DEF CacheInv, CallsIn
    <3>2. Time(cache[i].call) <= b + 1 => Recent(b)
      <4> SUFFICES ASSUME Time(cache[i].call) <= b + 1, NEW t \in b + 1 .. Len(log)
                   PROVE  log[t] \in CallsIn(cache)
        BY DEF Recent
      <4>1. CASE t = Time(cache[i].call)
        BY <1>2, <3>1, <4>1
      <4>2. CASE t # Time(cache[i].call)
        <5>1. t \in Time(cache[i].call) + 1 .. Len(log)
          BY <1>0, <1>2, <4>2
        <5> QED
          BY <3>1, <5>1 DEF Recent
      <4> QED
        BY <4>1, <4>2
    <3> QED
      BY <1>0, <1>2, <1>6, <3>2
  <2>2. ASSUME NEW i \in DOMAIN cache PROVE KeptAt(found, i)
    <3>1. CASE DbId(cache[i]) = 0
      BY <3>1 DEF KeptAt
    <3>2. CASE DbId(cache[i]) # 0
      <4>1. \A j \in DOMAIN cache : DbId(cache[j]) # 0 =>
               cache[j].id # 0 /\ DbId(cache[j]) = cache[j].id
        BY <1>0, <1>2, <2>1
      <4>2. DbId(cache[i]) \notin IdsOf(found)
        BY <1>0, <1>2, <2>1, <3>2 DEF IdsOf
      <4>3. ASSUME NEW j \in 1 .. i - 1, DbId(cache[j]) = DbId(cache[i]) PROVE FALSE
        <5>1. j \in DOMAIN cache /\ j # i
          BY <1>0
        <5>2. cache[j].id = cache[i].id /\ cache[j].call = cache[i].call
          BY <1>2, <3>2, <4>1, <4>3, <5>1
        <5>3. cache[j] = cache[i]
          BY <1>2, <5>1, <5>2
        <5> QED
          BY <1>0, <5>1, <5>3
      <4> QED
        BY <4>2, <4>3 DEF KeptAt
    <3> QED
      BY <3>1, <3>2
  <2>3. \A i \in DOMAIN cache : b < Time(cache[i].call)
    BY <1>0, <1>2, <2>1
  <2> QED
    BY <2>2, <2>3 DEF Both, KeptOf, ToSet
<1> QED
  BY <1>3, <1>4, <1>5, <1>6

\* A load leaves the most recent calls, each with those after it, and oldest first.
LEMMA MergedIsRecent ==
    ASSUME IInv, LogOnce, IdsAreTimes, CacheInv, NEW b \in 0 .. Len(log), NEW found,
           Found(found, b), durable <= b + 1, Len(cache) < Cap => Recent(b)
    PROVE  LET q == Merged(found) IN
           /\ q \in Seq(Entries) /\ Len(q) <= Cap /\ Once(q)
           /\ \A i \in DOMAIN q : Sound(q[i])
           /\ \A i, j \in DOMAIN q : i < j => Time(q[i].call) <= Time(q[j].call)
           /\ \A i \in DOMAIN q : \A t \in Time(q[i].call) + 1 .. Len(log) : log[t] \in CallsIn(q)
           /\ log # <<>> => q # <<>>
           /\ Len(q) < Cap => \A t \in 1 .. Len(log) : log[t] \in CallsIn(q)
<1> DEFINE S == Both(found)
           N == Cardinality(S)
           u == InOrder(S)
           q == LastOf(u, Cap)
<1>0. /\ Len(log) \in Nat /\ log \in Seq(Calls) /\ dbId \in [Calls -> Nat]
      /\ cache \in Seq(Entries) /\ Once(cache) /\ Len(cache) <= Cap
      /\ Len(cache) \in Nat /\ DOMAIN cache = 1 .. Len(cache)
      /\ found \in Seq(Entries) /\ Once(found)
      /\ Len(found) \in Nat /\ DOMAIN found = 1 .. Len(found)
      /\ Cap \in Nat \ {0}
  BY LogAssumption, LenProperties DEF IInv, LogTypeOK, CacheInv, Found
<1>1. /\ \A e \in S : Sound(e)
      /\ \A e \in S : e \in ToSet(found) \/ e \in ToSet(cache)
      /\ \A i \in DOMAIN cache : \E f \in S : f.call = cache[i].call
      /\ \A e, f \in S : e.call = f.call /\ DbId(e) = DbId(f) => e = f
      /\ ~ Recent(b) => /\ ToSet(cache) \subseteq S
                        /\ \A i \in DOMAIN cache : b < Time(cache[i].call)
      /\ ToSet(found) \subseteq S
  BY KeptIs DEF Both
<1>2. /\ IsFiniteSet(ToSet(cache)) /\ Cardinality(ToSet(cache)) = Len(cache)
      /\ IsFiniteSet(ToSet(found)) /\ Cardinality(ToSet(found)) = Len(found)
      /\ IsFiniteSet(S) /\ N \in Nat
  <2>1. /\ IsFiniteSet(ToSet(cache)) /\ Cardinality(ToSet(cache)) = Len(cache)
        /\ IsFiniteSet(ToSet(found)) /\ Cardinality(ToSet(found)) = Len(found)
    BY <1>0, CountOnce
  <2>2. S \in SUBSET (ToSet(found) \cup ToSet(cache))
    BY <1>1
  <2>3. IsFiniteSet(ToSet(found) \cup ToSet(cache))
    BY <2>1, FS_Union
  <2> HIDE DEF S
  <2> QED
    BY <2>1, <2>2, <2>3, FS_Subset, FS_CardinalityType
<1> HIDE DEF S
<1>3. /\ \A e \in S : ~ Earlier(e, e)
      /\ \A e, f, g \in S : Earlier(e, f) /\ Earlier(f, g) => Earlier(e, g)
      /\ \A e, f \in S : e # f => Earlier(e, f) \/ Earlier(f, e)
      /\ \A e, f \in S : Earlier(e, f) => Time(e.call) <= Time(f.call)
  BY <1>0, <1>1, EarlierOrders
<1>4. /\ u \in Seq(S) /\ Len(u) = N /\ DOMAIN u = 1 .. N
      /\ ToSet(u) = S /\ Once(u)
      /\ \A i, j \in 1 .. N : i < j => Earlier(u[i], u[j])
  <2>1. /\ u \in Seq(S) /\ Len(u) = N /\ ToSet(u) = S /\ Once(u)
        /\ \A i, j \in 1 .. N : i < j => Earlier(u[i], u[j])
    BY <1>2, <1>3, OrderedSet
  <2> HIDE DEF u
  <2> QED
    BY <2>1, LenProperties
<1>5. PICK d \in 0 .. N :
        /\ q \in Seq(S) /\ Len(q) <= Cap /\ Len(q) = N - d
        /\ d # 0 => N - d = Cap
        /\ \A i \in 1 .. N - d : q[i] = u[d + i]
  <2>1. u \in Seq(S) /\ Cap \in Nat /\ Len(u) = N
    BY <1>0, <1>4
  <2> HIDE DEF u, N
  <2>2. /\ LastOf(u, Cap) \in Seq(S) /\ Len(LastOf(u, Cap)) <= Cap
        /\ \E d \in 0 .. Len(u) :
              /\ Len(LastOf(u, Cap)) = Len(u) - d
              /\ d # 0 => Len(u) - d = Cap
              /\ \A i \in 1 .. Len(u) - d : LastOf(u, Cap)[i] = u[d + i]
    BY <2>1, LastOfIs
  <2> QED
    BY <2>1, <2>2
<1> HIDE DEF u, N, q
<1>6. DOMAIN q = 1 .. N - d /\ \A i \in DOMAIN q : d + i \in 1 .. N /\ q[i] = u[d + i] /\ q[i] \in S
  <2>1. DOMAIN q = 1 .. N - d
    BY <1>5, LenProperties
  <2>2. \A i \in 1 .. N - d : d + i \in 1 .. N
    BY <1>2
  <2> QED
    BY <1>4, <1>5, <2>1, <2>2, ElementOfSeq
<1>7. /\ \A i \in 1 .. N : u[i] \in S
      /\ \A e \in S : \E i \in 1 .. N : u[i] = e
      /\ \A i, j \in 1 .. N : i < j => Time(u[i].call) <= Time(u[j].call)
  BY <1>3, <1>4, ElementOfSeq DEF ToSet
<1>8. \A e \in S : /\ e \in Entries /\ Time(e.call) \in 1 .. Len(log) /\ log[Time(e.call)] = e.call
  BY <1>1, IdOfEntry DEF Sound
<1>9. \A e \in ToSet(found) : /\ Time(e.call) \in 1 .. b
                              /\ \A t \in Time(e.call) .. b : \E f \in S : f.call = log[t]
  <2> SUFFICES ASSUME NEW k \in DOMAIN found
               PROVE  /\ Time(found[k].call) \in 1 .. b
                      /\ \A t \in Time(found[k].call) .. b : \E f \in S : f.call = log[t]
    BY DEF ToSet
  <2>1. \A j \in DOMAIN found : found[j] \in S /\ found[j].id \in 1 .. b
                                /\ found[j].id = Time(found[j].call)
                                /\ found[j].call = log[found[j].id]
    <3> SUFFICES ASSUME NEW j \in DOMAIN found
                 PROVE  found[j] \in S /\ found[j].id \in 1 .. b
                        /\ found[j].id = Time(found[j].call)
                        /\ found[j].call = log[found[j].id]
      OBVIOUS
    <3>1. found[j] \in S /\ found[j].id \in 1 .. b /\ Sound(found[j])
      BY <1>1 DEF Found, ToSet
    <3> QED
      BY <1>8, <3>1 DEF Sound
  <2>2. \A t \in found[k].id .. b : \E j \in DOMAIN found : found[j].id = t
    BY DEF Found
  <2> QED
    BY <2>1, <2>2
<1>10. \A t \in 1 .. Len(log) : log[t] \in CallsIn(cache) => \E f \in S : f.call = log[t]
  BY <1>1 DEF CallsIn
<1>11. ASSUME NEW i \in DOMAIN q PROVE Recent(b) \/ q[i] \in ToSet(cache)
  <2> SUFFICES ASSUME ~ Recent(b), q[i] \notin ToSet(cache) PROVE FALSE
    OBVIOUS
  <2>1. q[i] \in ToSet(found) /\ Time(q[i].call) \in 1 .. b
    BY <1>1, <1>6, <1>9
  <2>2. \A e \in ToSet(cache) : e \in S /\ b < Time(e.call)
    BY <1>1 DEF ToSet
  <2>3. \A e \in ToSet(cache) : \E j \in d + i + 1 .. N : u[j] = e
    <3> SUFFICES ASSUME NEW e \in ToSet(cache) PROVE \E j \in d + i + 1 .. N : u[j] = e
      OBVIOUS
    <3>1. PICK j \in 1 .. N : u[j] = e
      BY <1>7, <2>2
    <3>2. d + i \in 1 .. N /\ q[i] = u[d + i]
      BY <1>6
    <3>3. Time(q[i].call) < Time(e.call)
      BY <1>8, <2>1, <2>2
    <3>4. j # d + i /\ ~ (j < d + i)
      BY <1>6, <1>7, <1>8, <2>2, <3>1, <3>2, <3>3
    <3>5. j \in d + i + 1 .. N
      BY <1>2, <3>2, <3>4
    <3> QED
      BY <3>1, <3>5
  <2>4. d + i \in 0 .. Len(u)
    BY <1>2, <1>4, <1>6
  <2>5. Cardinality(ToSet(cache)) <= Len(u) - (d + i)
    BY <1>4, <2>3, <2>4, CountFrom
  <2>6. Len(cache) = Cap
    <3>1. ~ (Len(cache) < Cap)
      OBVIOUS
    <3>2. Len(cache) <= Cap /\ Len(cache) \in Nat /\ Cap \in Nat
      BY <1>0
    <3>3. \A m, n \in Nat : m <= n /\ ~ (m < n) => m = n
      OBVIOUS
    <3> QED
      BY <3>1, <3>2, <3>3, Zenon
  <2>7. i \in 1 .. N - d /\ N - d <= Cap /\ d \in Nat /\ N \in Nat
    BY <1>2, <1>5, <1>6
  <2> QED
    BY <1>0, <1>2, <1>4, <2>5, <2>6, <2>7
<1>12. ASSUME NEW i \in DOMAIN q, NEW t \in Time(q[i].call) + 1 .. Len(log)
       PROVE  \E f \in S : f.call = log[t]
  <2>1. q[i] \in S /\ Time(q[i].call) \in 1 .. Len(log) /\ t \in 1 .. Len(log)
    BY <1>0, <1>6, <1>8
  <2>2. CASE q[i] \in ToSet(cache)
    <3>1. Recent(Time(q[i].call))
      BY <2>2 DEF CacheInv, ToSet
    <3> QED
      BY <1>10, <2>1, <3>1 DEF Recent
  <2>3. CASE q[i] \notin ToSet(cache)
    <3>1. q[i] \in ToSet(found) /\ Recent(b)
      BY <1>1, <1>11, <2>1, <2>3
    <3>2. CASE t <= b
      <4>1. t \in Time(q[i].call) .. b
        BY <1>0, <2>1, <3>2
      <4> QED
        BY <1>9, <3>1, <4>1
    <3>3. CASE ~ (t <= b)
      <4>1. t \in b + 1 .. Len(log)
        BY <1>0, <2>1, <3>3
      <4> QED
        BY <1>10, <2>1, <3>1, <4>1 DEF Recent
    <3> QED
      BY <3>2, <3>3
  <2> QED
    BY <2>2, <2>3
<1>13. ASSUME NEW i \in DOMAIN q, NEW f \in S, Time(q[i].call) < Time(f.call)
       PROVE  f.call \in CallsIn(q)
  <2>1. PICK j \in 1 .. N : u[j] = f
    BY <1>7
  <2>2. d + i \in 1 .. N /\ q[i] = u[d + i] /\ q[i] \in S
    BY <1>6
  <2>3. ~ (j < d + i) /\ j # d + i
    BY <1>7, <1>8, <1>13, <2>1, <2>2
  <2>4. j - d \in DOMAIN q /\ j = d + (j - d)
    BY <1>2, <1>6, <2>2, <2>3
  <2>5. q[j - d] = f
    BY <1>6, <2>1, <2>4
  <2> QED
    BY <2>4, <2>5 DEF CallsIn
<1>14. ASSUME NEW i \in DOMAIN q, NEW t \in Time(q[i].call) + 1 .. Len(log)
       PROVE  log[t] \in CallsIn(q)
  <2>1. PICK f \in S : f.call = log[t]
    BY <1>12
  <2>2. t \in 1 .. Len(log) /\ Time(q[i].call) < t
    BY <1>0, <1>6, <1>8
  <2>3. Time(f.call) = t
    BY <1>0, <2>1, <2>2, TimeIs
  <2> QED
    BY <1>13, <2>1, <2>2, <2>3
<1>15. ASSUME Len(q) < Cap, NEW t \in 1 .. Len(log) PROVE log[t] \in CallsIn(q)
  <2>1. d = 0 /\ N < Cap
    BY <1>2, <1>5, <1>15
  <2>2. CallsIn(q) = {e.call : e \in S}
    BY <1>4, <1>6, <1>7, <2>1 DEF CallsIn
  <2>3. Len(found) < Cap
    <3>1. ToSet(found) \in SUBSET S
      BY <1>1
    <3>2. Cardinality(ToSet(found)) <= Cardinality(S)
      BY <1>2, <3>1, FS_Subset
    <3> QED
      BY <1>0, <1>2, <2>1, <3>2 DEF N
  <2>4. Recent(b)
    <3>1. Len(cache) < Cap \/ ToSet(cache) \notin SUBSET S
      <4>1. ToSet(cache) \in SUBSET S => Cardinality(ToSet(cache)) <= Cardinality(S)
        BY <1>2, FS_Subset
      <4> QED
        BY <1>0, <1>2, <2>1, <4>1 DEF N
    <3> QED
      BY <1>1, <3>1
  <2>5. CASE t <= b
    <3>1. PICK j \in DOMAIN found : found[j].id = t
      BY <1>0, <2>3, <2>5 DEF Found
    <3>2. found[j] \in S /\ Sound(found[j]) /\ found[j].id # 0
      BY <1>1, <3>1 DEF Found, ToSet
    <3>3. found[j].call = log[t]
      BY <1>8, <3>1, <3>2 DEF Sound
    <3> QED
      BY <2>2, <3>2, <3>3
  <2>6. CASE ~ (t <= b)
    <3>1. log[t] \in CallsIn(cache)
      BY <1>0, <2>4, <2>6 DEF Recent
    <3> QED
      BY <1>10, <2>2, <3>1
  <2> QED
    BY <2>5, <2>6
<1>16. ASSUME log # <<>> PROVE q # <<>>
  <2>1. 1 \in 1 .. Len(log)
    BY <1>0, <1>16, EmptySeq
  <2>2. CASE Len(q) < Cap
    <3>1. CallsIn(q) # {}
      BY <1>15, <2>1, <2>2
    <3>2. DOMAIN q # {}
      BY <3>1 DEF CallsIn
    <3> QED
      BY <1>5, <1>6, <3>2, EmptySeq
  <2>3. CASE ~ (Len(q) < Cap)
    BY <1>0, <1>2, <1>5, <2>3, EmptySeq
  <2> QED
    BY <2>2, <2>3
<1>17. q \in Seq(Entries) /\ Len(q) <= Cap /\ Once(q)
  <2>1. S \subseteq Entries
    BY <1>8
  <2>2. q \in Seq(Entries)
    BY <1>5, <2>1, SeqMonotonic
  <2>3. \A i, j \in DOMAIN q : q[i] = q[j] => i = j
    BY <1>2, <1>4, <1>6 DEF Once
  <2> QED
    BY <1>5, <2>2, <2>3 DEF Once
<1>18. \A i, j \in DOMAIN q : i < j => Time(q[i].call) <= Time(q[j].call)
  <2> SUFFICES ASSUME NEW i \in DOMAIN q, NEW j \in DOMAIN q, i < j
               PROVE  Time(q[i].call) <= Time(q[j].call)
    OBVIOUS
  <2>1. /\ d + i \in 1 .. N /\ q[i] = u[d + i]
        /\ d + j \in 1 .. N /\ q[j] = u[d + j]
    BY <1>6
  <2>2. d + i < d + j
    BY <1>6
  <2> QED
    BY <1>7, <2>1, <2>2
<1>19. Merged(found) = q
  BY MergedIs DEF q, u, S
<1> QED
  BY <1>1, <1>6, <1>14, <1>15, <1>16, <1>17, <1>18, <1>19

----------------------------------------------------------------------------
(* The connection's queue and the rows.                                    *)

\* The first job goes; it was before every other.
LEMMA QueueMoves ==
    ASSUME NEW T, NEW q \in Seq(T), Once(q), q # <<>>
    PROVE  /\ Tail(q) \in Seq(T) /\ Once(Tail(q))
           /\ Head(q) \in T /\ Head(q) \in ToSet(q)
           /\ ToSet(Tail(q)) = ToSet(q) \ {Head(q)}
           /\ \A x, y : Precedes(Tail(q), x, y) => Precedes(q, x, y)
           /\ \A y \in ToSet(Tail(q)) : Precedes(q, Head(q), y)
<1>1. /\ Len(q) \in Nat \ {0} /\ DOMAIN q = 1 .. Len(q)
      /\ Tail(q) \in Seq(T) /\ Head(q) = q[1] /\ Head(q) \in T
      /\ DOMAIN Tail(q) = 1 .. Len(q) - 1
      /\ \A i \in 1 .. Len(q) - 1 : Tail(q)[i] = q[i + 1]
  <2>1. Len(q) \in Nat /\ DOMAIN q = 1 .. Len(q) /\ Len(q) # 0
    BY LenProperties, EmptySeq
  <2>2. Tail(q) \in Seq(T) /\ Len(Tail(q)) = Len(q) - 1 /\ Head(q) \in T
        /\ \A i \in 1 .. Len(Tail(q)) : Tail(q)[i] = q[i + 1]
    BY HeadTailProperties
  <2>3. Head(q) = q[1]
    BY <2>1
  <2>4. DOMAIN Tail(q) = 1 .. Len(Tail(q))
    BY <2>2, LenProperties
  <2> QED
    BY <2>1, <2>2, <2>3, <2>4
<1>2. \A i \in DOMAIN Tail(q) : i + 1 \in DOMAIN q /\ i + 1 # 1 /\ Tail(q)[i] = q[i + 1]
  BY <1>1
<1>3. 1 \in DOMAIN q /\ \A i \in DOMAIN q : i # 1 => i - 1 \in DOMAIN Tail(q) /\ (i - 1) + 1 = i
  BY <1>1
<1>4. Once(Tail(q))
  <2> SUFFICES ASSUME NEW i \in DOMAIN Tail(q), NEW j \in DOMAIN Tail(q), Tail(q)[i] = Tail(q)[j]
               PROVE  i = j
    BY DEF Once
  <2>1. i + 1 = j + 1
    BY <1>2 DEF Once
  <2> QED
    BY <1>1, <2>1
<1>5. ToSet(Tail(q)) = ToSet(q) \ {Head(q)}
  <2>1. ASSUME NEW x \in ToSet(Tail(q)) PROVE x \in ToSet(q) /\ x # Head(q)
    <3>1. PICK i \in DOMAIN Tail(q) : x = Tail(q)[i]
      BY DEF ToSet
    <3> QED
      BY <1>1, <1>2, <1>3, <3>1 DEF ToSet, Once
  <2>2. ASSUME NEW x \in ToSet(q), x # Head(q) PROVE x \in ToSet(Tail(q))
    <3>1. PICK i \in DOMAIN q : x = q[i]
      BY DEF ToSet
    <3>2. i - 1 \in DOMAIN Tail(q) /\ (i - 1) + 1 = i
      BY <1>1, <1>3, <2>2, <3>1
    <3>3. Tail(q)[i - 1] = x
      BY <1>2, <3>1, <3>2
    <3> QED
      BY <3>2, <3>3 DEF ToSet
  <2> QED
    BY <2>1, <2>2
<1>6. ASSUME NEW x, NEW y, Precedes(Tail(q), x, y) PROVE Precedes(q, x, y)
  <2>1. PICK i, j \in DOMAIN Tail(q) : i < j /\ Tail(q)[i] = x /\ Tail(q)[j] = y
    BY <1>6 DEF Precedes
  <2>2. i + 1 \in DOMAIN q /\ j + 1 \in DOMAIN q /\ i + 1 < j + 1
    BY <1>1, <1>2, <2>1
  <2>3. q[i + 1] = x /\ q[j + 1] = y
    BY <1>2, <2>1
  <2> QED
    BY <2>2, <2>3 DEF Precedes
<1>7. ASSUME NEW y \in ToSet(Tail(q)) PROVE Precedes(q, Head(q), y)
  <2>1. PICK i \in DOMAIN Tail(q) : y = Tail(q)[i]
    BY DEF ToSet
  <2>2. i + 1 \in DOMAIN q /\ 1 < i + 1 /\ q[i + 1] = y
    BY <1>1, <1>2, <2>1
  <2> QED
    BY <1>1, <1>3, <2>2 DEF Precedes
<1>8. Head(q) \in ToSet(q)
  BY <1>1, <1>3 DEF ToSet
<1> QED
  BY <1>1, <1>4, <1>5, <1>6, <1>7, <1>8

\* A new job comes after all others.
LEMMA QueueGrows ==
    ASSUME NEW T, NEW q \in Seq(T), Once(q), NEW t \in T, t \notin ToSet(q)
    PROVE  /\ Append(q, t) \in Seq(T) /\ Once(Append(q, t))
           /\ ToSet(Append(q, t)) = ToSet(q) \cup {t}
           /\ \A x, y : Precedes(Append(q, t), x, y) =>
                           x \in ToSet(q) /\ (y = t \/ Precedes(q, x, y))
<1> DEFINE p == Append(q, t)
<1>1. /\ p \in Seq(T) /\ Len(q) \in Nat
      /\ DOMAIN q = 1 .. Len(q) /\ DOMAIN p = 1 .. Len(q) + 1
      /\ \A i \in 1 .. Len(q) : p[i] = q[i]
      /\ p[Len(q) + 1] = t
  BY AppendProperties, LenProperties
<1> HIDE DEF p
<1>2. DOMAIN p = DOMAIN q \cup {Len(q) + 1} /\ \A i \in DOMAIN q : p[i] = q[i]
  BY <1>1
<1>3. \A i \in DOMAIN q : q[i] # t
  BY DEF ToSet
<1>4. ToSet(p) = ToSet(q) \cup {t}
  BY <1>1, <1>2 DEF ToSet
<1>5. Once(p)
  BY <1>1, <1>2, <1>3 DEF Once
<1>6. ASSUME NEW x, NEW y, Precedes(p, x, y)
      PROVE  x \in ToSet(q) /\ (y = t \/ Precedes(q, x, y))
  <2>1. PICK i, j \in DOMAIN p : i < j /\ p[i] = x /\ p[j] = y
    BY <1>6 DEF Precedes
  <2>2. i \in DOMAIN q
    BY <1>1, <2>1
  <2>3. x \in ToSet(q)
    BY <1>2, <2>1, <2>2 DEF ToSet
  <2>4. j \in DOMAIN q => Precedes(q, x, y)
    BY <1>2, <2>1, <2>2 DEF Precedes
  <2> QED
    BY <1>1, <1>2, <2>1, <2>3, <2>4
<1> QED
  BY <1>1, <1>4, <1>5, <1>6 DEF p

\* The rows are the first calls of the log.
LEMMA RowsAreFirst ==
    ASSUME IInv
    PROVE  /\ Len(log) \in Nat /\ Len(rows) \in Nat /\ durable \in Nat
           /\ durable <= Len(rows) /\ Len(rows) <= Len(log)
           /\ DOMAIN rows = 1 .. Len(rows)
           /\ \A i \in 1 .. Len(rows) : rows[i] \in Calls /\ rows[i] = log[i]
<1> DEFINE k    == Len(rows) - durable
           done == SubSeq(batch, 1, k)
           all  == Committed \o batch
<1>1. /\ log \in Seq(Calls) /\ rows \in Seq(Calls) /\ batch \in Seq(Calls)
      /\ pending \in Seq(Calls) /\ durable \in Nat /\ durable <= Len(rows)
      /\ log = all \o pending /\ rows = Committed \o done
  BY DEF IInv, LogTypeOK, FlushKeepsPlace, LogIsComplete
<1>2. /\ Committed \in Seq(Calls) /\ Len(Committed) = durable
      /\ Len(rows) \in Nat /\ Len(batch) \in Nat
      /\ k \in 0 .. Len(batch) /\ done \in Seq(Calls)
  BY CommittedIsSeq
<1>3. Len(done) = k /\ \A i \in 1 .. k : done[i] = batch[i]
  BY <1>1, <1>2, PrefixIsSeq
<1> HIDE DEF done
<1>4. /\ all \in Seq(Calls) /\ Len(all) = durable + Len(batch)
      /\ \A i \in 1 .. durable + Len(batch) :
            all[i] = IF i <= durable THEN Committed[i] ELSE batch[i - durable]
  BY <1>1, <1>2, ConcatProperties
<1> HIDE DEF all
<1>5. /\ Len(log) = Len(all) + Len(pending) /\ Len(pending) \in Nat
      /\ \A i \in 1 .. Len(all) : log[i] = all[i]
  <2>1. Len(all) \in Nat /\ Len(pending) \in Nat
    BY <1>1, <1>4, LenProperties
  <2>2. /\ Len(all \o pending) = Len(all) + Len(pending)
        /\ \A i \in 1 .. Len(all) + Len(pending) :
              (all \o pending)[i] = IF i <= Len(all) THEN all[i] ELSE pending[i - Len(all)]
    BY <1>1, <1>4, ConcatProperties
  <2>3. \A i \in 1 .. Len(all) : i \in 1 .. Len(all) + Len(pending) /\ i <= Len(all)
    BY <2>1
  <2> QED
    BY <1>1, <2>1, <2>2, <2>3
<1>6. \A i \in 1 .. durable + k : rows[i] = IF i <= durable THEN Committed[i] ELSE done[i - durable]
  BY <1>1, <1>2, <1>3, ConcatProperties
<1>7. ASSUME NEW i \in 1 .. Len(rows) PROVE rows[i] = log[i]
  <2>1. i \in 1 .. durable + k /\ i \in 1 .. Len(all) /\ i \in 1 .. durable + Len(batch)
    BY <1>1, <1>2, <1>4
  <2>2. CASE i <= durable
    BY <1>4, <1>5, <1>6, <2>1, <2>2
  <2>3. CASE ~ (i <= durable)
    <3>1. i - durable \in 1 .. k
      BY <1>1, <1>2, <2>1, <2>3
    <3> QED
      BY <1>3, <1>4, <1>5, <1>6, <2>1, <2>3, <3>1
  <2> QED
    BY <2>2, <2>3
<1>8. DOMAIN rows = 1 .. Len(rows) /\ \A i \in 1 .. Len(rows) : rows[i] \in Calls
  BY <1>1, LenProperties, ElementOfSeq
<1> QED
  BY <1>1, <1>2, <1>4, <1>5, <1>7, <1>8

----------------------------------------------------------------------------
(* What the steps leave of the window and of the loads.                    *)

LEMMA LogStays ==
    ASSUME log' = log
    PROVE  /\ \A c : Time(c)' = Time(c)
           /\ \A e : Sound(e) => Sound(e)'
           /\ \A s, b : Found(s, b) => Found(s, b)'
           /\ LogOnce => LogOnce'
<1>1. \A c : Time(c)' = Time(c)
  BY DEF Time
<1>2. ASSUME NEW e, Sound(e) PROVE Sound(e)'
  BY <1>1, <1>2 DEF Sound
<1>3. ASSUME NEW s, NEW b, Found(s, b) PROVE Found(s, b)'
  BY <1>2, <1>3 DEF Found
<1>4. LogOnce => LogOnce'
  BY DEF LogOnce
<1> QED
  BY <1>1, <1>2, <1>3, <1>4

LEMMA FoundStays ==
    ASSUME log' = log, NEW r, NEW b, snap'[r] = snap[r], Found(snap[r], b)
    PROVE  Found(snap[r], b)'
BY DEF Found, Sound, Time, Once

LEMMA CacheStays ==
    ASSUME CacheInv, IInv, IInv', UNCHANGED <<cache, loaded, log>>, durable <= durable'
    PROVE  CacheInv'
<1>0. durable \in Nat /\ durable' \in Nat
  BY DEF IInv, LogTypeOK
<1>1. \A m : Recent(m) => Recent(m)'
  BY DEF Recent
<1>2. ASSUME Recent(durable) PROVE Recent(durable)'
  <2> SUFFICES ASSUME NEW t \in durable' + 1 .. Len(log') PROVE log'[t] \in CallsIn(cache)'
    BY DEF Recent
  <2>1. Len(log) \in Nat /\ Len(log') = Len(log)
    BY LenProperties DEF IInv, LogTypeOK
  <2>2. t \in durable + 1 .. Len(log)
    <3>1. \A a, b, n \in Nat : a <= b => b + 1 .. n \subseteq a + 1 .. n
      OBVIOUS
    <3>2. durable' + 1 .. Len(log) \subseteq durable + 1 .. Len(log)
      BY <1>0, <2>1, <3>1
    <3> QED
      BY <2>1, <3>2
  <2> QED
    BY <1>2, <2>2 DEF Recent
<1>3. ASSUME NEW i \in DOMAIN cache PROVE Sound(cache[i])' /\ Recent(Time(cache[i].call))'
  <2>1. cache'[i] = cache[i] /\ Time(cache[i].call)' = Time(cache[i].call)
    BY DEF Time
  <2>2. Recent(Time(cache[i].call))
    BY DEF CacheInv
  <2>3. Recent(Time(cache[i].call))'
    BY <2>1, <2>2 DEF Recent
  <2>4. Sound(cache[i])'
    BY <2>1 DEF CacheInv, Sound
  <2> QED
    BY <2>3, <2>4
<1>4. \A i, j \in DOMAIN cache' : i < j => Time(cache[i].call)' <= Time(cache[j].call)'
  BY DEF CacheInv, Time
<1> QED
  BY <1>2, <1>3, <1>4 DEF CacheInv

\* A load that goes on, with its pace kept, still covers what the window lacks.
LEMMA SnapStays ==
    ASSUME SnapInv, UNCHANGED <<cache, log>>, log \in Seq(Calls),
           snap' \in [Readers -> Seq(Entries)],
           \A r \in Readers : Loading(r)' =>
              \/ /\ Loading(r) /\ snap'[r] = snap[r]
                 /\ \A b \in Nat : Pace(r, b) => Pace(r, b)'
              \/ \E b \in 0 .. Len(log) : Covers(r, b)'
    PROVE  SnapInv'
<1> SUFFICES ASSUME NEW r \in Readers, Loading(r)'
             PROVE  \E b \in 0 .. Len(log') : Covers(r, b)'
  BY DEF SnapInv
<1>1. CASE /\ Loading(r) /\ snap'[r] = snap[r]
           /\ \A b \in Nat : Pace(r, b) => Pace(r, b)'
  <2>1. PICK b \in 0 .. Len(log) : Covers(r, b)
    BY <1>1 DEF SnapInv
  <2>2. Found(snap[r], b)'
    <3>1. Found(snap[r], b)
      BY <2>1 DEF Covers
    <3> QED
      BY <1>1, <3>1, FoundStays
  <2>3. Pace(r, b)'
    <3>1. Len(log) \in Nat
      BY LenProperties
    <3> QED
      BY <1>1, <2>1, <3>1 DEF Covers
  <2>4. (Len(cache) < Cap => Recent(b))'
    BY <2>1 DEF Covers, Recent
  <2> QED
    BY <2>1, <2>2, <2>3, <2>4 DEF Covers
<1>2. CASE \E b \in 0 .. Len(log) : Covers(r, b)'
  BY <1>2
<1> QED
  BY <1>1, <1>2

\* A step of the flush: every waiting load is behind it in the queue.
LEMMA FlusherServed ==
    ASSUME IInv, IInv', QueueInv, CacheInv, SnapInv,
           queue # <<>>, Head(queue) = Flusher,
           \/ queue' = Tail(queue)
           \/ queue' = Append(Tail(queue), Flusher) /\ phase' # "off",
           UNCHANGED <<reader, snap, log, cache, loaded>>,
           Len(rows') <= Len(rows) + 1, durable' \in {durable, Len(rows)}
    PROVE  QueueInv' /\ CacheInv' /\ SnapInv'
<1> DEFINE T == Readers \cup {Flusher}
<1>0. /\ queue \in Seq(T) /\ Once(queue) /\ Flusher \in T /\ Flusher \notin Readers
      /\ \A r \in Readers : r \in ToSet(queue) <=> reader[r] # "idle"
      /\ reader \in [Readers -> {"idle", "select", "fetch", "close"}]
      /\ Len(rows) \in Nat /\ durable \in Nat /\ durable <= Len(rows)
      /\ Len(rows') \in Nat /\ durable' \in Nat /\ log \in Seq(Calls)
  <2>1. Len(rows') \in Nat
    BY LenProperties DEF IInv, LogTypeOK
  <2> QED
    BY <2>1, LogAssumption, RowsAreFirst DEF QueueInv, IInv, LogTypeOK
<1> HIDE DEF T
<1>1. /\ Tail(queue) \in Seq(T) /\ Once(Tail(queue))
      /\ ToSet(Tail(queue)) = ToSet(queue) \ {Flusher}
      /\ \A y \in ToSet(Tail(queue)) : Precedes(queue, Flusher, y)
      /\ \A x, y : Precedes(Tail(queue), x, y) => x \in ToSet(Tail(queue))
  <2>1. \A x, y : Precedes(Tail(queue), x, y) => x \in ToSet(Tail(queue))
    BY DEF Precedes, ToSet
  <2> QED
    BY <1>0, <2>1, QueueMoves
<1>2. /\ Append(Tail(queue), Flusher) \in Seq(T) /\ Once(Append(Tail(queue), Flusher))
      /\ ToSet(Append(Tail(queue), Flusher)) = ToSet(Tail(queue)) \cup {Flusher}
      /\ \A x, y : Precedes(Append(Tail(queue), Flusher), x, y) => x \in ToSet(Tail(queue))
  <2>1. Flusher \notin ToSet(Tail(queue))
    BY <1>1
  <2> QED
    BY <1>0, <1>1, <2>1, QueueGrows
<1>3. /\ queue' \in Seq(T) /\ Once(queue')
      /\ \A r \in Readers : r \in ToSet(queue') <=> r \in ToSet(queue)
      /\ Flusher \in ToSet(queue') => phase' # "off"
      /\ \A y : ~ Precedes(queue', Flusher, y)
  <2>1. CASE queue' = Tail(queue)
    BY <1>0, <1>1, <2>1
  <2>2. CASE queue' = Append(Tail(queue), Flusher) /\ phase' # "off"
    BY <1>0, <1>1, <1>2, <2>2
  <2> QED
    BY <2>1, <2>2
<1>4. QueueInv'
  BY <1>0, <1>3 DEF QueueInv, T
<1>5. ASSUME NEW r \in Readers, Loading(r), NEW b \in Nat, Pace(r, b) PROVE Pace(r, b)'
  <2>1. r \in ToSet(Tail(queue))
    BY <1>0, <1>1, <1>5 DEF Loading
  <2>2. Precedes(queue, Flusher, r)
    BY <1>1, <2>1
  <2>3. /\ reader[r] = "fetch" => Len(rows) <= b /\ durable <= b
        /\ reader[r] = "close" => Len(rows) <= b + 1 /\ durable <= b
    BY <1>5, <2>2 DEF Pace
  <2>4. /\ reader[r] = "fetch" => Len(rows') <= b + 1 /\ durable' <= b
        /\ reader[r] = "close" => Len(rows') <= b + 2 /\ durable' <= b + 1
    BY <1>0, <2>3
  <2> QED
    BY <1>3, <2>4 DEF Pace
<1>6. SnapInv'
  BY <1>0, <1>5, SnapStays DEF Loading, SnapInv
<1>7. durable <= durable'
  BY <1>0
<1>8. CacheInv'
  BY <1>7, CacheStays
<1> QED
  BY <1>4, <1>6, <1>8

----------------------------------------------------------------------------
(* The steps of the flush.                                                 *)

LEMMA FlushBeginsKeepsWindow ==
    ASSUME WInv, IInv', FlushBegins
    PROVE  LogOnce' /\ IdsAreTimes' /\ QueueInv' /\ CacheInv' /\ SnapInv'
<1> DEFINE T == Readers \cup {Flusher}
<1>0. /\ queue \in Seq(T) /\ Once(queue) /\ Flusher \in T /\ Flusher \notin Readers
      /\ \A r \in Readers : r \in ToSet(queue) <=> reader[r] # "idle"
      /\ reader \in [Readers -> {"idle", "select", "fetch", "close"}]
      /\ Flusher \notin ToSet(queue)
      /\ log \in Seq(Calls) /\ durable \in Nat
  BY LogAssumption DEF WInv, QueueInv, FlushBegins, IInv, LogTypeOK
<1>1. /\ queue' = Append(queue, Flusher) /\ phase' # "off"
      /\ UNCHANGED <<rows, durable, dbId, cache, loaded, reader, snap, log>>
  BY DEF FlushBegins, Asks, diskVars, cacheVars, readerVars
<1> HIDE DEF T
<1>2. /\ queue' \in Seq(T) /\ Once(queue')
      /\ ToSet(queue') = ToSet(queue) \cup {Flusher}
      /\ \A y : ~ Precedes(queue', Flusher, y)
  BY <1>0, <1>1, QueueGrows
<1>3. QueueInv'
  BY <1>0, <1>1, <1>2 DEF QueueInv, T
<1>4. CacheInv'
  BY <1>0, <1>1, CacheStays DEF WInv
<1>5. ASSUME NEW r \in Readers, NEW b \in Nat, Pace(r, b) PROVE Pace(r, b)'
  BY <1>1, <1>2, <1>5 DEF Pace
<1>6. SnapInv'
  <2>1. \A r \in Readers : Loading(r)' => Loading(r)
    BY <1>1 DEF Loading
  <2> QED
    BY <1>0, <1>1, <1>5, <2>1, SnapStays DEF WInv, SnapInv
<1>7. LogOnce' /\ IdsAreTimes'
  BY <1>1, LogStays DEF WInv, IdsAreTimes
<1> QED
  BY <1>3, <1>4, <1>6, <1>7

LEMMA InsertKeepsWindow ==
    ASSUME WInv, IInv', Insert
    PROVE  LogOnce' /\ IdsAreTimes' /\ QueueInv' /\ CacheInv' /\ SnapInv'
<1>1. /\ queue # <<>> /\ Head(queue) = Flusher
      /\ queue' = Append(Tail(queue), Flusher) /\ phase' # "off"
      /\ UNCHANGED <<durable, dbId, cache, loaded, reader, snap, log>>
      /\ rows' = Append(rows, batch[Len(rows) - durable + 1])
  BY DEF Insert, Serves, cacheVars, readerVars
<1>2. Len(rows') <= Len(rows) + 1
  <2>1. Len(rows) - durable \in 0 .. Len(batch) - 1 /\ rows \in Seq(Calls) /\ batch \in Seq(Calls)
    BY CommittedIsSeq DEF WInv, IInv, LogTypeOK, FlushKeepsPlace, Insert
  <2>2. batch[Len(rows) - durable + 1] \in Calls
    BY <2>1, PrefixGrows
  <2>3. Len(rows') = Len(rows) + 1 /\ Len(rows) \in Nat
    BY <1>1, <2>1, <2>2, AppendProperties, LenProperties
  <2> QED
    BY <2>3
<1>3. QueueInv' /\ CacheInv' /\ SnapInv'
  BY <1>1, <1>2, FlusherServed DEF WInv
<1>4. LogOnce' /\ IdsAreTimes'
  BY <1>1, LogStays DEF WInv, IdsAreTimes
<1> QED
  BY <1>3, <1>4

LEMMA CommitKeepsWindow ==
    ASSUME WInv, IInv', Commit
    PROVE  LogOnce' /\ IdsAreTimes' /\ QueueInv' /\ CacheInv' /\ SnapInv'
<1>1. /\ queue # <<>> /\ Head(queue) = Flusher /\ queue' = Tail(queue)
      /\ UNCHANGED <<rows, cache, loaded, reader, snap, log>>
      /\ durable' = Len(rows)
      /\ \A c \in Calls :
            \/ \E i \in durable + 1 .. Len(rows) : rows[i] = c /\ dbId'[c] = i
            \/ dbId'[c] = dbId[c]
  BY DEF Commit, ServesLast, cacheVars, readerVars
<1>2. /\ Len(rows) \in Nat /\ Len(rows) <= Len(log) /\ Len(log) \in Nat /\ durable \in Nat
      /\ \A i \in 1 .. Len(rows) : rows[i] = log[i]
      /\ log \in Seq(Calls)
  BY RowsAreFirst DEF WInv, IInv, LogTypeOK
<1>3. Len(rows') <= Len(rows) + 1
  BY <1>1, <1>2
<1>4. QueueInv' /\ CacheInv' /\ SnapInv'
  BY <1>1, <1>3, FlusherServed DEF WInv
<1>5. LogOnce' /\ \A c : Time(c)' = Time(c)
  BY <1>1, LogStays DEF WInv
<1>6. ASSUME NEW c \in Calls, dbId'[c] # 0 PROVE c \in ToSet(log') /\ dbId'[c] = Time(c)'
  <2>1. CASE \E i \in durable + 1 .. Len(rows) : rows[i] = c /\ dbId'[c] = i
    <3>1. PICK i \in durable + 1 .. Len(rows) : rows[i] = c /\ dbId'[c] = i
      BY <2>1
    <3>2. i \in 1 .. Len(rows) /\ i \in 1 .. Len(log)
      BY <1>2
    <3>3. log[i] = c
      BY <1>2, <3>1, <3>2
    <3>4. log[i] \in ToSet(log) /\ Time(log[i]) = i
      BY <1>2, <3>2, TimeIs DEF WInv
    <3> QED
      BY <1>1, <1>5, <3>1, <3>3, <3>4
  <2>2. CASE dbId'[c] = dbId[c]
    BY <1>1, <1>5, <1>6, <2>2 DEF WInv, IdsAreTimes
  <2> QED
    BY <1>1, <2>1, <2>2
<1>7. IdsAreTimes'
  BY <1>6 DEF IdsAreTimes
<1> QED
  BY <1>4, <1>5, <1>7

LEMMA FlushFailsKeepsWindow ==
    ASSUME WInv, IInv', FlushFails
    PROVE  LogOnce' /\ IdsAreTimes' /\ QueueInv' /\ CacheInv' /\ SnapInv'
<1>1. /\ queue # <<>> /\ Head(queue) = Flusher
      /\ queue' = Append(Tail(queue), Flusher) /\ phase' # "off"
      /\ UNCHANGED <<rows, durable, dbId, cache, loaded, reader, snap, log>>
  BY DEF FlushFails, Serves, cacheVars, readerVars, diskVars
<1>2. Len(rows') <= Len(rows) + 1
  BY <1>1, RowsAreFirst DEF WInv
<1>3. QueueInv' /\ CacheInv' /\ SnapInv'
  BY <1>1, <1>2, FlusherServed DEF WInv
<1>4. LogOnce' /\ IdsAreTimes'
  BY <1>1, LogStays DEF WInv, IdsAreTimes
<1> QED
  BY <1>3, <1>4

LEMMA RollbackKeepsWindow ==
    ASSUME WInv, IInv', Rollback
    PROVE  LogOnce' /\ IdsAreTimes' /\ QueueInv' /\ CacheInv' /\ SnapInv'
<1>1. /\ queue # <<>> /\ Head(queue) = Flusher /\ queue' = Tail(queue)
      /\ UNCHANGED <<durable, dbId, cache, loaded, reader, snap, log>>
      /\ rows' = Committed
  BY DEF Rollback, ServesLast, cacheVars, readerVars
<1>2. Len(rows') <= Len(rows) + 1
  BY <1>1, RowsAreFirst, CommittedIsSeq DEF WInv
<1>3. QueueInv' /\ CacheInv' /\ SnapInv'
  BY <1>1, <1>2, FlusherServed DEF WInv
<1>4. LogOnce' /\ IdsAreTimes'
  BY <1>1, LogStays DEF WInv, IdsAreTimes
<1> QED
  BY <1>3, <1>4

----------------------------------------------------------------------------
(* The steps of a load.                                                    *)

LEMMA LoadBeginsKeepsWindow ==
    ASSUME WInv, IInv', NEW r \in Readers, LoadBegins(r)
    PROVE  LogOnce' /\ IdsAreTimes' /\ QueueInv' /\ CacheInv' /\ SnapInv'
<1> DEFINE T == Readers \cup {Flusher}
<1>0. /\ queue \in Seq(T) /\ Once(queue) /\ r \in T /\ r # Flusher
      /\ \A x \in Readers : x \in ToSet(queue) <=> reader[x] # "idle"
      /\ reader \in [Readers -> {"idle", "select", "fetch", "close"}]
      /\ r \notin ToSet(queue)
      /\ log \in Seq(Calls) /\ durable \in Nat
      /\ Flusher \in ToSet(queue) => phase # "off"
  BY LogAssumption DEF WInv, QueueInv, LoadBegins, IInv, LogTypeOK
<1>1. /\ queue' = Append(queue, r) /\ reader' = [reader EXCEPT ![r] = "select"]
      /\ UNCHANGED <<rows, durable, phase, dbId, cache, loaded, snap, log>>
  BY DEF LoadBegins, Asks, diskVars, flushVars, cacheVars
<1> HIDE DEF T
<1>2. /\ queue' \in Seq(T) /\ Once(queue')
      /\ ToSet(queue') = ToSet(queue) \cup {r}
      /\ \A x, y : Precedes(queue', x, y) => y = r \/ Precedes(queue, x, y)
  <2> DEFINE p == Append(queue, r)
  <2>1. /\ p \in Seq(T) /\ Once(p) /\ ToSet(p) = ToSet(queue) \cup {r}
        /\ \A x, y : Precedes(p, x, y) => y = r \/ Precedes(queue, x, y)
    BY <1>0, QueueGrows
  <2>2. queue' = p
    BY <1>1
  <2> HIDE DEF p
  <2> QED
    BY <2>1, <2>2
<1>3. QueueInv'
  BY <1>0, <1>1, <1>2 DEF QueueInv, T
<1>4. CacheInv'
  BY <1>0, <1>1, CacheStays DEF WInv
<1>5. ASSUME NEW x \in Readers, Loading(x)'
      PROVE  Loading(x) /\ \A b \in Nat : Pace(x, b) => Pace(x, b)'
  <2>1. x # r /\ reader'[x] = reader[x]
    BY <1>0, <1>1, <1>5 DEF Loading
  <2>2. Precedes(queue', Flusher, x) => Precedes(queue, Flusher, x)
    BY <1>2, <2>1
  <2> QED
    BY <1>1, <1>5, <2>1, <2>2 DEF Loading, Pace
<1>6. SnapInv'
  BY <1>0, <1>1, <1>5, SnapStays DEF WInv, SnapInv
<1>7. LogOnce' /\ IdsAreTimes'
  BY <1>1, LogStays DEF WInv, IdsAreTimes
<1> QED
  BY <1>3, <1>4, <1>6, <1>7

\* A reader's job is served: it waits for its next one, or is done.
LEMMA ReaderServed ==
    ASSUME QueueInv, NEW r \in Readers, queue # <<>>, Head(queue) = r,
           NEW k \in {"idle", "select", "fetch", "close"},
           reader' = [reader EXCEPT ![r] = k],
           queue' = IF k = "idle" THEN Tail(queue) ELSE Append(Tail(queue), r),
           UNCHANGED <<rows, durable, phase>>
    PROVE  /\ QueueInv' /\ reader'[r] = k
           /\ \A x \in Readers : x # r => /\ Loading(x)' => Loading(x)
                                          /\ \A b : Pace(x, b) => Pace(x, b)'
<1> DEFINE T == Readers \cup {Flusher}
<1>0. /\ queue \in Seq(T) /\ Once(queue) /\ r \in T /\ r # Flusher
      /\ \A x \in Readers : x \in ToSet(queue) <=> reader[x] # "idle"
      /\ reader \in [Readers -> {"idle", "select", "fetch", "close"}]
      /\ Flusher \in ToSet(queue) => phase # "off"
      /\ \A x \in Readers : reader'[x] = IF x = r THEN k ELSE reader[x]
      /\ reader' \in [Readers -> {"idle", "select", "fetch", "close"}]
  BY LogAssumption DEF QueueInv
<1> HIDE DEF T
<1>1. /\ Tail(queue) \in Seq(T) /\ Once(Tail(queue)) /\ r \notin ToSet(Tail(queue))
      /\ ToSet(Tail(queue)) = ToSet(queue) \ {r}
      /\ \A x, y : Precedes(Tail(queue), x, y) => Precedes(queue, x, y)
  BY <1>0, QueueMoves
<1>2. /\ Append(Tail(queue), r) \in Seq(T) /\ Once(Append(Tail(queue), r))
      /\ ToSet(Append(Tail(queue), r)) = ToSet(Tail(queue)) \cup {r}
      /\ \A x, y : Precedes(Append(Tail(queue), r), x, y) =>
                      y = r \/ Precedes(Tail(queue), x, y)
  <2> DEFINE q == Tail(queue)
  <2>1. q \in Seq(T) /\ Once(q) /\ r \notin ToSet(q) /\ r \in T
    BY <1>0, <1>1
  <2> HIDE DEF q
  <2>2. /\ Append(q, r) \in Seq(T) /\ Once(Append(q, r))
        /\ ToSet(Append(q, r)) = ToSet(q) \cup {r}
        /\ \A x, y : Precedes(Append(q, r), x, y) => y = r \/ Precedes(q, x, y)
    BY <2>1, QueueGrows
  <2> QED
    BY <2>2 DEF q
<1>3. /\ queue' \in Seq(T) /\ Once(queue')
      /\ \A x \in T : x # r => (x \in ToSet(queue') <=> x \in ToSet(queue))
      /\ r \in ToSet(queue') <=> k # "idle"
      /\ \A x, y : Precedes(queue', x, y) => y = r \/ Precedes(queue, x, y)
  <2>1. CASE k = "idle"
    BY <1>0, <1>1, <2>1
  <2>2. CASE k # "idle"
    BY <1>0, <1>1, <1>2, <2>2
  <2> QED
    BY <2>1, <2>2
<1>4. QueueInv'
  <2>1. Flusher \in T /\ Readers \subseteq T
    BY DEF T
  <2>2. \A x \in Readers : x \in ToSet(queue') <=> reader'[x] # "idle"
    BY <1>0, <1>3, <2>1
  <2>3. Flusher \in ToSet(queue') => phase' # "off"
    BY <1>0, <1>3, <2>1
  <2> QED
    BY <1>0, <1>3, <2>2, <2>3 DEF QueueInv, T
<1>5. ASSUME NEW x \in Readers, x # r
      PROVE  /\ Loading(x)' => Loading(x)
             /\ \A b : Pace(x, b) => Pace(x, b)'
  <2>1. reader'[x] = reader[x]
    BY <1>0, <1>5
  <2>2. Precedes(queue', Flusher, x) => Precedes(queue, Flusher, x)
    BY <1>3, <1>5
  <2> QED
    BY <2>1, <2>2 DEF Loading, Pace
<1> QED
  BY <1>0, <1>4, <1>5

\* What a query finds is the end of the rows, under their ids.
LEMMA RowsAreFound ==
    ASSUME WInv
    PROVE  Found(LastOf([i \in 1 .. Len(rows) |-> [call |-> rows[i], id |-> i]], Cap), Len(rows))
<1> DEFINE N == Len(rows)
           s == [i \in 1 .. N |-> [call |-> rows[i], id |-> i]]
           q == LastOf(s, Cap)
<1>0. /\ N \in Nat /\ N <= Len(log) /\ Len(log) \in Nat /\ Cap \in Nat \ {0}
      /\ log \in Seq(Calls) /\ LogOnce
      /\ \A i \in 1 .. N : rows[i] \in Calls /\ rows[i] = log[i]
  BY LogAssumption, RowsAreFirst DEF WInv, IInv, LogTypeOK
<1>1. \A i \in 1 .. N : s[i] = [call |-> rows[i], id |-> i]
  OBVIOUS
<1>2. s \in Seq(Entries) /\ Len(s) = N
  <2>1. s \in [1 .. N -> Entries]
    BY <1>0 DEF Entries
  <2>2. s \in Seq(Entries)
    BY <1>0, <2>1, SeqDef
  <2>3. Len(s) \in Nat /\ DOMAIN s = 1 .. Len(s) /\ DOMAIN s = 1 .. N
    BY <2>2, LenProperties
  <2> HIDE DEF s
  <2> QED
    BY <1>0, <2>2, <2>3
<1> HIDE DEF s
<1>3. PICK d \in 0 .. N :
        /\ q \in Seq(Entries) /\ Len(q) <= Cap /\ Len(q) = N - d
        /\ d # 0 => N - d = Cap
        /\ \A i \in 1 .. N - d : q[i] = s[d + i]
  <2>1. /\ q \in Seq(Entries) /\ Len(q) <= Cap
        /\ \E d \in 0 .. Len(s) :
             /\ Len(q) = Len(s) - d
             /\ d # 0 => Len(s) - d = Cap
             /\ \A i \in 1 .. Len(s) - d : q[i] = s[d + i]
    <3>1. s \in Seq(Entries) /\ Cap \in Nat
      BY <1>0, <1>2
    <3> QED
      BY <3>1, LastOfIs
  <2> HIDE DEF N, q
  <2> QED
    BY <1>2, <2>1
<1> HIDE DEF N, q
<1>4. /\ DOMAIN q = 1 .. N - d
      /\ \A i \in 1 .. N - d : /\ d + i \in 1 .. N
                               /\ q[i] = [call |-> rows[d + i], id |-> d + i]
  <2>1. DOMAIN q = 1 .. N - d
    BY <1>3, LenProperties
  <2>2. \A i \in 1 .. N - d : d + i \in 1 .. N
    BY <1>0
  <2> QED
    BY <1>1, <1>3, <2>1, <2>2
<1>5. Once(q)
  <2> SUFFICES ASSUME NEW i \in 1 .. N - d, NEW j \in 1 .. N - d, q[i] = q[j]
               PROVE  i = j
    BY <1>4 DEF Once
  <2>1. d + i = d + j
    BY <1>4
  <2> QED
    BY <1>0, <2>1
<1>6. ASSUME NEW i \in 1 .. N - d PROVE Sound(q[i]) /\ q[i].id \in 1 .. N
  <2>1. d + i \in 1 .. N /\ d + i \in 1 .. Len(log)
    BY <1>0, <1>4
  <2>2. q[i].call = log[d + i] /\ q[i].id = d + i /\ q[i] \in Entries
    BY <1>0, <1>4, <2>1 DEF Entries
  <2>3. log[d + i] \in ToSet(log) /\ Time(log[d + i]) = d + i
    BY <1>0, <2>1, TimeIs
  <2> QED
    BY <2>1, <2>2, <2>3 DEF Sound
<1>7. ASSUME NEW t \in d + 1 .. N PROVE \E j \in DOMAIN q : q[j].id = t
  <2>1. t - d \in 1 .. N - d /\ d + (t - d) = t
    BY <1>0
  <2>2. q[t - d].id = t
    BY <1>4, <2>1
  <2> QED
    BY <1>4, <2>1, <2>2
<1>8. ASSUME NEW i \in DOMAIN q, NEW t \in q[i].id .. N PROVE t \in d + 1 .. N
  <2>1. q[i].id = d + i /\ i \in 1 .. N - d
    BY <1>4
  <2> QED
    BY <1>0, <2>1
<1>9. N # 0 => q # <<>>
  BY <1>0, <1>3, EmptySeq
<1>10. Len(q) < Cap => \A t \in 1 .. N : t \in d + 1 .. N
  BY <1>0, <1>3
<1>11. Found(q, N)
  BY <1>3, <1>4, <1>5, <1>6, <1>7, <1>8, <1>9, <1>10 DEF Found
<1> QED
  BY <1>11 DEF q, s, N

LEMMA SelectKeepsWindow ==
    ASSUME WInv, IInv', NEW r \in Readers, Select(r)
    PROVE  LogOnce' /\ IdsAreTimes' /\ QueueInv' /\ CacheInv' /\ SnapInv'
<1> DEFINE q == LastOf([i \in 1 .. Len(rows) |-> [call |-> rows[i], id |-> i]], Cap)
<1>0. /\ log \in Seq(Calls) /\ durable \in Nat /\ snap \in [Readers -> Seq(Entries)]
      /\ Len(log) \in Nat /\ Len(rows) \in 0 .. Len(log) /\ durable <= Len(rows)
  BY RowsAreFirst DEF WInv, SnapInv, IInv, LogTypeOK
<1>1. /\ queue # <<>> /\ Head(queue) = r /\ queue' = Append(Tail(queue), r)
      /\ reader' = [reader EXCEPT ![r] = "fetch"] /\ snap' = [snap EXCEPT ![r] = q]
      /\ UNCHANGED <<rows, durable, phase, dbId, cache, loaded, log>>
  BY DEF Select, Serves, diskVars, flushVars, cacheVars
<1>2. Found(q, Len(rows))
  BY RowsAreFound
<1> HIDE DEF q
<1>3. /\ QueueInv' /\ reader'[r] = "fetch"
      /\ \A x \in Readers : x # r => /\ Loading(x)' => Loading(x)
                                     /\ \A b : Pace(x, b) => Pace(x, b)'
  BY <1>1, ReaderServed DEF WInv
<1>4. /\ snap' \in [Readers -> Seq(Entries)] /\ snap'[r] = q
      /\ \A x \in Readers : x # r => snap'[x] = snap[x]
  <2>1. q \in Seq(Entries)
    BY <1>2 DEF Found
  <2> QED
    BY <1>0, <1>1, <2>1
<1>5. Covers(r, Len(rows))'
  <2>1. Found(snap[r], Len(rows))'
    <3>1. log' = log /\ rows' = rows /\ snap'[r] = q
      BY <1>1, <1>4
    <3> QED
      BY <1>2, <3>1 DEF Found, Sound, Time, Once
  <2>2. Pace(r, Len(rows))'
    BY <1>0, <1>1, <1>3 DEF Pace
  <2>3. Len(cache) < Cap => Recent(Len(rows))
    <3> SUFFICES ASSUME Len(cache) < Cap, NEW t \in Len(rows) + 1 .. Len(log)
                 PROVE  log[t] \in CallsIn(cache)
      BY DEF Recent
    <3>1. t \in durable + 1 .. Len(log)
      BY <1>0
    <3> QED
      BY <3>1 DEF WInv, CacheInv, Recent
  <2>4. (Len(cache) < Cap => Recent(Len(rows)))'
    BY <1>1, <2>3 DEF Recent
  <2> QED
    BY <2>1, <2>2, <2>4 DEF Covers
<1>6. SnapInv'
  <2>1. \A x \in Readers : Loading(x)' =>
           \/ /\ Loading(x) /\ snap'[x] = snap[x]
              /\ \A b \in Nat : Pace(x, b) => Pace(x, b)'
           \/ \E b \in 0 .. Len(log) : Covers(x, b)'
    <3> SUFFICES ASSUME NEW x \in Readers, Loading(x)'
                 PROVE  \/ /\ Loading(x) /\ snap'[x] = snap[x]
                           /\ \A b \in Nat : Pace(x, b) => Pace(x, b)'
                        \/ \E b \in 0 .. Len(log) : Covers(x, b)'
      OBVIOUS
    <3>1. CASE x # r
      BY <1>3, <1>4, <3>1
    <3>2. CASE x = r
      <4>1. \E b \in 0 .. Len(log) : b = Len(rows') /\ Covers(r, b)'
        BY <1>0, <1>1, <1>5
      <4> QED
        BY <3>2, <4>1
    <3> QED
      BY <3>1, <3>2
  <2> QED
    BY <1>0, <1>1, <1>4, <2>1, SnapStays DEF WInv
<1>7. CacheInv'
  BY <1>0, <1>1, CacheStays DEF WInv
<1>8. LogOnce' /\ IdsAreTimes'
  BY <1>1, LogStays DEF WInv, IdsAreTimes
<1> QED
  BY <1>3, <1>6, <1>7, <1>8

LEMMA FetchKeepsWindow ==
    ASSUME WInv, IInv', NEW r \in Readers, Fetch(r)
    PROVE  LogOnce' /\ IdsAreTimes' /\ QueueInv' /\ CacheInv' /\ SnapInv'
<1> DEFINE T == Readers \cup {Flusher}
<1>0. /\ log \in Seq(Calls) /\ durable \in Nat /\ snap \in [Readers -> Seq(Entries)]
      /\ Len(rows) \in Nat /\ queue \in Seq(T) /\ Once(queue) /\ r \in T
  BY RowsAreFirst DEF WInv, SnapInv, QueueInv, IInv, LogTypeOK
<1>1. /\ queue # <<>> /\ Head(queue) = r /\ queue' = Append(Tail(queue), r)
      /\ reader[r] = "fetch" /\ reader' = [reader EXCEPT ![r] = "close"]
      /\ UNCHANGED <<rows, durable, phase, dbId, cache, loaded, snap, log>>
  BY DEF Fetch, Serves, diskVars, flushVars, cacheVars
<1> HIDE DEF T
<1>2. /\ QueueInv' /\ reader'[r] = "close"
      /\ \A x \in Readers : x # r => /\ Loading(x)' => Loading(x)
                                     /\ \A b : Pace(x, b) => Pace(x, b)'
  BY <1>1, ReaderServed DEF WInv
<1>3. ASSUME NEW b \in Nat, Pace(r, b) PROVE Pace(r, b)'
  <2>1. Len(rows) <= b + 1 /\ durable <= b
    BY <1>1, <1>3 DEF Pace
  <2> QED
    BY <1>0, <1>1, <1>2, <2>1 DEF Pace
<1>4. SnapInv'
  <2>1. Loading(r) /\ \A x \in Readers : snap'[x] = snap[x]
    BY <1>1 DEF Loading
  <2>2. \A x \in Readers : Loading(x)' => Loading(x) /\ \A b \in Nat : Pace(x, b) => Pace(x, b)'
    BY <1>2, <1>3, <2>1
  <2> QED
    BY <1>0, <1>1, <2>1, <2>2, SnapStays DEF WInv
<1>5. CacheInv'
  BY <1>0, <1>1, CacheStays DEF WInv
<1>6. LogOnce' /\ IdsAreTimes'
  BY <1>1, LogStays DEF WInv, IdsAreTimes
<1> QED
  BY <1>2, <1>4, <1>5, <1>6

LEMMA LoadFailsKeepsWindow ==
    ASSUME WInv, IInv', NEW r \in Readers, LoadFails(r)
    PROVE  LogOnce' /\ IdsAreTimes' /\ QueueInv' /\ CacheInv' /\ SnapInv'
<1>0. /\ log \in Seq(Calls) /\ durable \in Nat /\ snap \in [Readers -> Seq(Entries)]
  BY DEF WInv, SnapInv, IInv, LogTypeOK
<1>1. /\ queue # <<>> /\ Head(queue) = r /\ queue' = Tail(queue)
      /\ reader' = [reader EXCEPT ![r] = "idle"] /\ snap' = [snap EXCEPT ![r] = <<>>]
      /\ UNCHANGED <<rows, durable, phase, dbId, cache, loaded, log>>
  BY DEF LoadFails, ServesLast, diskVars, flushVars, cacheVars
<1>2. /\ QueueInv' /\ reader'[r] = "idle"
      /\ \A x \in Readers : x # r => /\ Loading(x)' => Loading(x)
                                     /\ \A b : Pace(x, b) => Pace(x, b)'
  BY <1>1, ReaderServed DEF WInv
<1>3. /\ snap' \in [Readers -> Seq(Entries)]
      /\ \A x \in Readers : x # r => snap'[x] = snap[x]
  BY <1>0, <1>1, EmptySeq
<1>4. SnapInv'
  <2>1. ~ Loading(r)'
    BY <1>2 DEF Loading
  <2> QED
    BY <1>0, <1>1, <1>2, <1>3, <2>1, SnapStays DEF WInv
<1>5. CacheInv'
  BY <1>0, <1>1, CacheStays DEF WInv
<1>6. LogOnce' /\ IdsAreTimes'
  BY <1>1, LogStays DEF WInv, IdsAreTimes
<1> QED
  BY <1>2, <1>4, <1>5, <1>6

LEMMA MergeKeepsWindow ==
    ASSUME WInv, IInv', NEW r \in Readers, Merge(r)
    PROVE  LogOnce' /\ IdsAreTimes' /\ QueueInv' /\ CacheInv' /\ SnapInv'
<1> DEFINE q == Merged(snap[r])
<1>0. /\ log \in Seq(Calls) /\ durable \in Nat /\ snap \in [Readers -> Seq(Entries)]
      /\ Len(log) \in Nat /\ durable <= Len(log)
      /\ IInv /\ LogOnce /\ IdsAreTimes /\ CacheInv
  BY RowsAreFirst DEF WInv, SnapInv, IInv, LogTypeOK
<1>1. /\ queue # <<>> /\ Head(queue) = r /\ queue' = Tail(queue)
      /\ reader[r] = "close" /\ reader' = [reader EXCEPT ![r] = "idle"]
      /\ cache' = q /\ loaded' = TRUE /\ snap' = [snap EXCEPT ![r] = <<>>]
      /\ UNCHANGED <<rows, durable, phase, dbId, log>>
  BY DEF Merge, ServesLast, diskVars, flushVars
<1> HIDE DEF q
<1>2. PICK b \in 0 .. Len(log) : Covers(r, b)
  BY <1>1 DEF WInv, SnapInv, Loading
<1>3. Found(snap[r], b) /\ durable <= b + 1 /\ (Len(cache) < Cap => Recent(b))
  BY <1>1, <1>2 DEF Covers, Pace
<1>4. /\ q \in Seq(Entries) /\ Len(q) <= Cap /\ Once(q)
      /\ \A i \in DOMAIN q : Sound(q[i])
      /\ \A i, j \in DOMAIN q : i < j => Time(q[i].call) <= Time(q[j].call)
      /\ \A i \in DOMAIN q : \A t \in Time(q[i].call) + 1 .. Len(log) : log[t] \in CallsIn(q)
      /\ log # <<>> => q # <<>>
      /\ Len(q) < Cap => \A t \in 1 .. Len(log) : log[t] \in CallsIn(q)
  BY <1>0, <1>3, MergedIsRecent DEF q
<1>5. /\ QueueInv' /\ reader'[r] = "idle"
      /\ \A x \in Readers : x # r => /\ Loading(x)' => Loading(x)
                                     /\ \A m : Pace(x, m) => Pace(x, m)'
  BY <1>1, ReaderServed DEF WInv
<1>6. ASSUME NEW m \in Nat, Len(q) < Cap PROVE Recent(m)'
  <2>1. \A t \in m + 1 .. Len(log) : t \in 1 .. Len(log)
    BY <1>0
  <2> QED
    BY <1>1, <1>4, <1>6, <2>1 DEF Recent
<1>7. CacheInv'
  <2>1. \A i \in DOMAIN cache' : Sound(cache[i])' /\ Recent(Time(cache[i].call))'
    <3> SUFFICES ASSUME NEW i \in DOMAIN q PROVE Sound(cache[i])' /\ Recent(Time(cache[i].call))'
      BY <1>1
    <3>1. cache'[i] = q[i] /\ Time(cache[i].call)' = Time(q[i].call)
      BY <1>1 DEF Time
    <3>2. Sound(cache[i])'
      BY <1>1, <1>4, <3>1 DEF Sound
    <3>3. Recent(Time(cache[i].call))'
      BY <1>1, <1>4, <3>1 DEF Recent
    <3> QED
      BY <3>2, <3>3
  <2>2. \A i, j \in DOMAIN cache' : i < j => Time(cache[i].call)' <= Time(cache[j].call)'
    BY <1>1, <1>4 DEF Time
  <2>3. (Len(cache) < Cap => Recent(durable))'
    BY <1>0, <1>1, <1>6 DEF Recent
  <2> QED
    BY <1>1, <1>4, <2>1, <2>2, <2>3 DEF CacheInv, Once
<1>8. SnapInv'
  <2>1. snap' \in [Readers -> Seq(Entries)]
    BY <1>0, <1>1, EmptySeq
  <2>2. ASSUME NEW x \in Readers, Loading(x)' PROVE \E m \in 0 .. Len(log') : Covers(x, m)'
    <3>1. x # r /\ Loading(x)
      BY <1>5, <2>2 DEF Loading
    <3>2. PICK m \in 0 .. Len(log) : Covers(x, m)
      BY <3>1 DEF WInv, SnapInv
    <3>3. snap'[x] = snap[x]
      BY <1>0, <1>1, <3>1
    <3>4. Found(snap[x], m)'
      <4>1. Found(snap[x], m)
        BY <3>2 DEF Covers
      <4>2. log' = log
        BY <1>1
      <4> QED
        BY <3>3, <4>1, <4>2, FoundStays
    <3>5. Pace(x, m)'
      BY <1>5, <3>1, <3>2 DEF Covers
    <3>6. (Len(cache) < Cap => Recent(m))'
      <4>1. m \in Nat
        BY <1>0
      <4> QED
        BY <1>1, <1>6, <4>1 DEF Recent
    <3>7. Covers(x, m)'
      BY <3>4, <3>5, <3>6 DEF Covers
    <3> QED
      BY <1>1, <3>7
  <2> QED
    BY <2>1, <2>2 DEF SnapInv
<1>9. LogOnce' /\ IdsAreTimes'
  BY <1>0, <1>1, LogStays DEF IdsAreTimes
<1> QED
  BY <1>5, <1>7, <1>8, <1>9

----------------------------------------------------------------------------
(* Recording, a restart, and the invariant.                                *)

LEMMA RecordCallKeepsWindow ==
    ASSUME WInv, IInv', NEW c \in Calls, RecordCall(c)
    PROVE  LogOnce' /\ IdsAreTimes' /\ QueueInv' /\ CacheInv' /\ SnapInv'
<1> DEFINE e == [call |-> c, id |-> 0]
           s == Append(cache, e)
           L == Len(cache)
           n == Len(log)
           When(x) == CHOOSE i \in DOMAIN log' : log'[i] = x
<1>0. /\ log \in Seq(Calls) /\ LogOnce /\ n \in Nat /\ durable \in Nat /\ Cap \in Nat \ {0}
      /\ cache \in Seq(Entries) /\ Once(cache) /\ L \in Nat /\ DOMAIN cache = 1 .. L
      /\ c \notin ToSet(log) /\ e \in Entries
      /\ queue' = queue /\ reader' = reader /\ snap' = snap /\ loaded' = loaded /\ phase' = phase
      /\ rows' = rows /\ durable' = durable /\ dbId' = dbId
      /\ log' = Append(log, c) /\ cache' = LastOf(s, Cap)
  BY LogAssumption, LenProperties
  DEF WInv, CacheInv, IInv, LogTypeOK, RecordCall, Entries, diskVars, readerVars
<1>1. \A x : Time(x)' = When(x)
  BY DEF Time
<1> HIDE DEF When
<1>2. /\ LogOnce' /\ log' \in Seq(Calls) /\ Len(log') = n + 1
      /\ ToSet(log') = ToSet(log) \cup {c}
      /\ \A i \in 1 .. n : log'[i] = log[i]
      /\ log'[n + 1] = c /\ When(c) = n + 1
      /\ \A x \in ToSet(log) : When(x) = Time(x)
  BY <1>0, <1>1, TimeStays
<1>3. /\ s \in Seq(Entries) /\ Len(s) = L + 1
      /\ \A i \in 1 .. L : s[i] = cache[i]
      /\ s[L + 1] = e
  <2> HIDE DEF e
  <2> QED
    BY <1>0, AppendProperties
<1> HIDE DEF s
<1>4. PICK d \in 0 .. L + 1 :
        /\ cache' \in Seq(Entries) /\ Len(cache') <= Cap /\ Len(cache') = L + 1 - d
        /\ d # 0 => L + 1 - d = Cap
        /\ \A i \in 1 .. L + 1 - d : cache'[i] = s[d + i]
  <2>1. s \in Seq(Entries) /\ Cap \in Nat
    BY <1>0, <1>3
  <2> DEFINE q == LastOf(s, Cap)
  <2>2. /\ q \in Seq(Entries) /\ Len(q) <= Cap
        /\ \E d \in 0 .. Len(s) :
             /\ Len(q) = Len(s) - d
             /\ d # 0 => Len(s) - d = Cap
             /\ \A i \in 1 .. Len(s) - d : q[i] = s[d + i]
    BY <2>1, LastOfIs
  <2>3. cache' = q /\ Len(s) = L + 1 /\ L \in Nat
    BY <1>0, <1>3
  <2> HIDE DEF q, L
  <2>4. PICK d \in 0 .. Len(s) :
          /\ Len(q) = Len(s) - d
          /\ d # 0 => Len(s) - d = Cap
          /\ \A i \in 1 .. Len(s) - d : q[i] = s[d + i]
    BY <2>2
  <2>5. /\ d \in 0 .. L + 1 /\ Len(q) = L + 1 - d
        /\ d # 0 => L + 1 - d = Cap
    BY <2>3, <2>4
  <2>6. \A i \in 1 .. L + 1 - d : q[i] = s[d + i]
    BY <2>3, <2>4
  <2> QED
    BY <2>2, <2>3, <2>5, <2>6
<1> HIDE DEF L, n
<1>5. DOMAIN cache' = 1 .. L + 1 - d /\ d <= L
  <2>1. DOMAIN cache' = 1 .. L + 1 - d
    BY <1>4, LenProperties
  <2> QED
    BY <1>0, <1>4, <2>1
<1>6. /\ \A i \in 1 .. L : /\ Sound(cache[i]) /\ cache[i].call \in ToSet(log)
                           /\ Time(cache[i].call) \in 1 .. n
                           /\ Recent(Time(cache[i].call))
      /\ \A i, j \in 1 .. L : i < j => Time(cache[i].call) <= Time(cache[j].call)
  <2>1. \A i \in 1 .. L : Sound(cache[i]) /\ Recent(Time(cache[i].call))
    BY <1>0 DEF WInv, CacheInv
  <2>2. \A i \in 1 .. L : cache[i].call \in ToSet(log)
    BY <2>1 DEF Sound
  <2>3. \A i \in 1 .. L : Time(cache[i].call) \in 1 .. n
    BY <1>0, <2>2, TimeIs DEF n
  <2>4. \A i, j \in 1 .. L : i < j => Time(cache[i].call) <= Time(cache[j].call)
    BY <1>0 DEF WInv, CacheInv
  <2> QED
    BY <2>1, <2>2, <2>3, <2>4
<1> DEFINE W(i) == When(s[i].call)
<1>7. /\ \A i \in 1 .. L : W(i) = Time(cache[i].call) /\ W(i) \in 1 .. n
      /\ W(L + 1) = n + 1
      /\ \A i, j \in 1 .. L + 1 : i < j => W(i) <= W(j)
  <2>1. \A i \in 1 .. L : W(i) = Time(cache[i].call) /\ W(i) \in 1 .. n
    BY <1>2, <1>3, <1>6
  <2>2. W(L + 1) = n + 1
    BY <1>2, <1>3
  <2>3. ASSUME NEW i \in 1 .. L + 1, NEW j \in 1 .. L + 1, i < j PROVE W(i) <= W(j)
    <3>1. i \in 1 .. L /\ (j \in 1 .. L \/ j = L + 1)
      BY <1>0, <2>3
    <3> HIDE DEF W
    <3>2. CASE j \in 1 .. L
      BY <1>6, <2>1, <2>3, <3>1, <3>2
    <3>3. CASE j = L + 1
      <4>1. W(i) \in 1 .. n /\ W(j) = n + 1
        BY <2>1, <2>2, <3>1, <3>3
      <4> QED
        BY <1>0, <4>1
    <3> QED
      BY <3>1, <3>2, <3>3
  <2> HIDE DEF W
  <2> QED
    BY <2>1, <2>2, <2>3
<1>8. Once(s)
  <2>1. \A i \in 1 .. L : cache[i] # e
    BY <1>0, <1>6
  <2>2. DOMAIN s = 1 .. L + 1
    BY <1>3, LenProperties
  <2>3. \A i \in 1 .. L + 1 : i \in 1 .. L \/ i = L + 1
    BY <1>0
  <2> HIDE DEF e
  <2> QED
    BY <1>0, <1>3, <2>1, <2>2, <2>3 DEF Once
<1>9. \A i \in 1 .. L + 1 : /\ s[i] \in Entries /\ s[i].call \in ToSet(log')
                            /\ s[i].id # 0 => s[i].id = W(i)
  <2> SUFFICES ASSUME NEW i \in 1 .. L + 1
               PROVE  /\ s[i] \in Entries /\ s[i].call \in ToSet(log')
                      /\ s[i].id # 0 => s[i].id = W(i)
    OBVIOUS
  <2>1. CASE i \in 1 .. L
    BY <1>2, <1>3, <1>6, <1>7, <2>1 DEF Sound
  <2>2. CASE i = L + 1
    BY <1>0, <1>2, <1>3, <2>2
  <2> QED
    BY <1>0, <2>1, <2>2
<1>10. ASSUME NEW j \in 1 .. L + 1, NEW t \in W(j) + 1 .. n + 1
       PROVE  \E k \in j .. L + 1 : s[k].call = log'[t]
  <2>1. CASE t = n + 1
    <3>1. L + 1 \in j .. L + 1
      BY <1>0
    <3> QED
      BY <1>2, <1>3, <2>1, <3>1
  <2>2. CASE t # n + 1
    <3>1. j \in 1 .. L
      <4>1. j = L + 1 => W(j) = n + 1
        BY <1>7
      <4> HIDE DEF W
      <4> QED
        BY <1>0, <2>2, <4>1
    <3>2. W(j) = Time(cache[j].call) /\ W(j) \in Nat
      BY <1>7, <3>1
    <3>3. t \in Time(cache[j].call) + 1 .. n /\ t \in 1 .. n
      <4> HIDE DEF W
      <4> QED
        BY <1>0, <2>2, <3>2
    <3>4. log[t] \in CallsIn(cache)
      BY <1>6, <3>1, <3>3 DEF Recent, n
    <3>5. PICK k \in 1 .. L : cache[k].call = log[t]
      BY <1>0, <3>4 DEF CallsIn
    <3>6. Time(cache[k].call) = t
      BY <1>0, <3>3, <3>5, TimeIs DEF n
    <3>7. ~ (k < j)
      BY <1>0, <1>6, <3>1, <3>3, <3>6
    <3>8. k \in j .. L + 1
      BY <1>0, <3>7
    <3> QED
      BY <1>2, <1>3, <3>3, <3>5, <3>8
  <2> QED
    BY <2>1, <2>2
<1> HIDE DEF W
<1>11. \A i \in DOMAIN cache' : d + i \in 1 .. L + 1 /\ cache'[i] = s[d + i]
  <2>1. \A i \in 1 .. L + 1 - d : d + i \in 1 .. L + 1
    BY <1>0
  <2> QED
    BY <1>4, <1>5, <2>1
<1>12. \A i \in DOMAIN cache' : Time(cache[i].call)' = W(d + i)
  BY <1>11 DEF Time, W, When
<1>13. ASSUME NEW k \in d + 1 .. L + 1 PROVE s[k].call \in CallsIn(cache')
  <2>1. k - d \in DOMAIN cache' /\ d + (k - d) = k
    BY <1>0, <1>5
  <2>2. cache'[k - d] = s[k]
    BY <1>11, <2>1
  <2> QED
    BY <2>1, <2>2 DEF CallsIn
<1>14. ASSUME NEW i \in DOMAIN cache', NEW t \in W(d + i) + 1 .. n + 1
       PROVE  log'[t] \in CallsIn(cache')
  <2>1. PICK k \in d + i .. L + 1 : s[k].call = log'[t]
    BY <1>10, <1>11
  <2>2. k \in d + 1 .. L + 1
    BY <1>0, <1>5
  <2> QED
    BY <1>13, <2>1, <2>2
<1>15. ASSUME NEW m \in Nat, Len(cache) < Cap => Recent(m), Len(cache') < Cap
       PROVE  \A t \in m + 1 .. n + 1 : log'[t] \in CallsIn(cache')
  <2>1. d = 0 /\ Len(cache) < Cap
    BY <1>0, <1>4, <1>15 DEF L
  <2> SUFFICES ASSUME NEW t \in m + 1 .. n + 1 PROVE log'[t] \in CallsIn(cache')
    OBVIOUS
  <2>2. CASE t = n + 1
    <3>1. L + 1 \in d + 1 .. L + 1
      BY <1>0, <2>1
    <3> QED
      BY <1>2, <1>3, <1>13, <2>2, <3>1
  <2>3. CASE t # n + 1
    <3>1. t \in m + 1 .. n /\ t \in 1 .. n
      BY <1>0, <2>3
    <3>2. log[t] \in CallsIn(cache)
      BY <1>15, <2>1, <3>1 DEF Recent, n
    <3>3. PICK k \in 1 .. L : cache[k].call = log[t]
      BY <1>0, <3>2 DEF CallsIn
    <3>4. k \in d + 1 .. L + 1
      BY <1>0, <2>1
    <3>5. s[k].call \in CallsIn(cache')
      BY <1>13, <3>4
    <3> QED
      BY <1>2, <1>3, <3>1, <3>3, <3>5
  <2> QED
    BY <2>2, <2>3
<1>16. CacheInv'
  <2>1. \A i, j \in DOMAIN cache' : cache'[i] = cache'[j] => i = j
    <3> SUFFICES ASSUME NEW i \in DOMAIN cache', NEW j \in DOMAIN cache', cache'[i] = cache'[j]
                 PROVE  i = j
      OBVIOUS
    <3>1. d + i \in DOMAIN s /\ d + j \in DOMAIN s /\ s[d + i] = s[d + j]
      BY <1>3, <1>11, LenProperties
    <3>2. d + i = d + j
      BY <1>8, <3>1 DEF Once
    <3> QED
      BY <1>0, <1>5, <3>2
  <2>2. \A i \in DOMAIN cache' : Sound(cache[i])'
    <3> SUFFICES ASSUME NEW i \in DOMAIN cache' PROVE Sound(cache[i])'
      OBVIOUS
    <3>1. /\ cache'[i] \in Entries /\ cache'[i].call \in ToSet(log')
          /\ cache'[i].id # 0 => cache'[i].id = Time(cache[i].call)'
      BY <1>9, <1>11, <1>12
    <3> QED
      BY <3>1 DEF Sound
  <2>3. \A i, j \in DOMAIN cache' : i < j => Time(cache[i].call)' <= Time(cache[j].call)'
    <3> SUFFICES ASSUME NEW i \in DOMAIN cache', NEW j \in DOMAIN cache', i < j
                 PROVE  Time(cache[i].call)' <= Time(cache[j].call)'
      OBVIOUS
    <3>1. d + i \in 1 .. L + 1 /\ d + j \in 1 .. L + 1 /\ d + i < d + j
      BY <1>0, <1>5, <1>11
    <3> QED
      BY <1>7, <1>12, <3>1
  <2>4. \A i \in DOMAIN cache' : Recent(Time(cache[i].call))'
    BY <1>2, <1>12, <1>14 DEF Recent
  <2>5. cache' # <<>>
    BY <1>0, <1>4, <1>5, EmptySeq
  <2>6. (Len(cache) < Cap => Recent(durable))'
    <3>1. Len(cache) < Cap => Recent(durable)
      BY DEF WInv, CacheInv
    <3> QED
      BY <1>0, <1>2, <1>15, <3>1 DEF Recent
  <2> QED
    BY <1>4, <2>1, <2>2, <2>3, <2>4, <2>5, <2>6 DEF CacheInv, Once
<1>17. ASSUME NEW x, Sound(x) PROVE Sound(x)'
  <2>1. x.call \in ToSet(log) /\ x \in Entries /\ (x.id # 0 => x.id = Time(x.call))
    BY <1>17 DEF Sound
  <2>2. Time(x.call)' = Time(x.call)
    BY <1>1, <1>2, <2>1
  <2> QED
    BY <1>2, <2>1, <2>2 DEF Sound
<1>18. SnapInv'
  <2> SUFFICES ASSUME NEW r \in Readers, Loading(r)' PROVE \E b \in 0 .. Len(log') : Covers(r, b)'
    BY <1>0 DEF WInv, SnapInv
  <2>1. Loading(r)
    BY <1>0 DEF Loading
  <2>2. PICK b \in 0 .. Len(log) : Covers(r, b)
    BY <2>1 DEF WInv, SnapInv
  <2>3. Found(snap[r], b)'
    <3>1. Found(snap[r], b)
      BY <2>2 DEF Covers
    <3>2. \A i \in DOMAIN snap[r] : Sound(snap[r][i])'
      <4>1. \A x : x \in ToSet(snap[r]) => Sound(x)'
        BY <1>17, <3>1 DEF Found, ToSet
      <4>2. snap' = snap
        BY <1>0
      <4> QED
        BY <4>1, <4>2 DEF ToSet, Sound, Time
    <3>3. snap' = snap
      BY <1>0
    <3> QED
      BY <3>1, <3>2, <3>3 DEF Found, Once
  <2>4. Pace(r, b)'
    BY <1>0, <2>2 DEF Covers, Pace
  <2>5. (Len(cache) < Cap => Recent(b))'
    <3>1. b \in Nat /\ (Len(cache) < Cap => Recent(b))
      BY <1>0, <2>2 DEF Covers, n
    <3> QED
      BY <1>2, <1>15, <3>1 DEF Recent
  <2>6. b \in 0 .. Len(log')
    BY <1>0, <1>2 DEF n
  <2> QED
    BY <2>3, <2>4, <2>5, <2>6 DEF Covers
<1>19. QueueInv'
  BY <1>0 DEF WInv, QueueInv
<1>20. IdsAreTimes'
  BY <1>0, <1>1, <1>2 DEF WInv, IdsAreTimes
<1> QED
  BY <1>2, <1>16, <1>18, <1>19, <1>20

LEMMA CrashKeepsWindow ==
    ASSUME WInv, IInv', Crash
    PROVE  LogOnce' /\ IdsAreTimes' /\ QueueInv' /\ CacheInv' /\ SnapInv'
<1>1. /\ log' = Committed /\ queue' = <<>> /\ phase' = "off" /\ durable' = durable
      /\ dbId' = [c \in Calls |-> 0] /\ cache' = <<>> /\ loaded' = FALSE
      /\ reader' = [r \in Readers |-> "idle"] /\ snap' = [r \in Readers |-> <<>>]
  BY DEF Crash
<1>2. /\ Committed \in Seq(Calls) /\ Len(Committed) = durable /\ durable \in Nat
      /\ durable <= Len(rows) /\ Len(rows) <= Len(log) /\ Len(rows) \in Nat
      /\ \A i \in 1 .. Len(rows) : rows[i] = log[i]
      /\ log \in Seq(Calls) /\ rows \in Seq(Calls) /\ Once(log)
  BY CommittedIsSeq, RowsAreFirst DEF WInv, LogOnce, IInv, LogTypeOK
<1>3. DOMAIN Committed = 1 .. durable /\ \A i \in 1 .. durable : Committed[i] = log[i]
  <2>1. \A i \in 1 .. durable : Committed[i] = rows[i] /\ i \in 1 .. Len(rows)
    BY <1>2, PrefixIsSeq DEF Committed
  <2> QED
    BY <1>2, <2>1, LenProperties
<1>4. LogOnce'
  <2>1. DOMAIN log = 1 .. Len(log) /\ Len(log) \in Nat
    BY <1>2, LenProperties
  <2>2. \A i \in 1 .. durable : i \in DOMAIN log
    BY <1>2, <2>1
  <2> QED
    BY <1>1, <1>2, <1>3, <2>2 DEF LogOnce, Once
<1>5. IdsAreTimes'
  BY <1>1 DEF IdsAreTimes
<1>6. DOMAIN <<>> = {} /\ Len(<<>>) = 0 /\ \A S : <<>> \in Seq(S)
  BY EmptySeq
<1>7. QueueInv'
  BY <1>1, <1>6 DEF QueueInv, Once, ToSet
<1>8. CacheInv'
  <2>1. Recent(durable)'
    BY <1>1, <1>2 DEF Recent
  <2> QED
    BY <1>1, <1>6, <2>1, LogAssumption DEF CacheInv, Once
<1>9. SnapInv'
  BY <1>1, <1>6 DEF SnapInv, Loading
<1> QED
  BY <1>4, <1>5, <1>7, <1>8, <1>9

LEMMA InitHasWindow == Init => WInv
<1> SUFFICES ASSUME Init PROVE WInv
  OBVIOUS
<1> USE DEF Init
<1>1. DOMAIN <<>> = {} /\ Len(<<>>) = 0 /\ \A S : <<>> \in Seq(S)
  BY EmptySeq
<1>2. IInv
  BY InitEstablishesIInv
<1>3. LogOnce /\ IdsAreTimes
  BY <1>1 DEF LogOnce, Once, IdsAreTimes
<1>4. QueueInv
  BY <1>1 DEF QueueInv, Once, ToSet
<1>5. CacheInv
  <2>1. Recent(durable)
    BY <1>1 DEF Recent
  <2> QED
    BY <1>1, <2>1, LogAssumption DEF CacheInv, Once
<1>6. SnapInv
  BY <1>1 DEF SnapInv, Loading
<1>7. loaded \in BOOLEAN /\ faults \in Nat
  OBVIOUS
<1> QED
  BY <1>2, <1>3, <1>4, <1>5, <1>6, <1>7 DEF WInv

LEMMA FlagsKeepTypes ==
    ASSUME loaded \in BOOLEAN, faults \in Nat, [Next]_vars
    PROVE  loaded' \in BOOLEAN /\ faults' \in Nat
<1>1. ASSUME NEW c \in Calls, RecordCall(c) PROVE loaded' = loaded /\ faults' = faults
  BY <1>1 DEF RecordCall
<1>2. ASSUME FlushBegins \/ Insert \/ Commit \/ Rollback
      PROVE  loaded' = loaded /\ faults' = faults
  BY <1>2 DEF FlushBegins, Insert, Commit, Rollback, cacheVars
<1>3. ASSUME FlushFails PROVE loaded' = loaded /\ faults' \in Nat
  BY <1>3 DEF FlushFails, Fault, cacheVars
<1>4. ASSUME NEW r \in Readers, LoadBegins(r) \/ Select(r) \/ Fetch(r)
      PROVE  loaded' = loaded /\ faults' = faults
  BY <1>4 DEF LoadBegins, Select, Fetch, cacheVars
<1>5. ASSUME NEW r \in Readers, Merge(r) PROVE loaded' = TRUE /\ faults' = faults
  BY <1>5 DEF Merge
<1>6. ASSUME NEW r \in Readers, LoadFails(r) PROVE loaded' = loaded /\ faults' \in Nat
  BY <1>6 DEF LoadFails, Fault, cacheVars
<1>7. ASSUME Crash PROVE loaded' = FALSE /\ faults' \in Nat
  BY <1>7 DEF Crash, Fault
<1>8. ASSUME UNCHANGED vars PROVE loaded' = loaded /\ faults' = faults
  BY <1>8 DEF vars, cacheVars
<1> QED
  BY <1>1, <1>2, <1>3, <1>4, <1>5, <1>6, <1>7, <1>8 DEF Next

LEMMA NextKeepsWindow == WInv /\ [Next]_vars => WInv'
<1> SUFFICES ASSUME WInv, [Next]_vars PROVE WInv'
  OBVIOUS
<1> DEFINE Window == LogOnce /\ IdsAreTimes /\ QueueInv /\ CacheInv /\ SnapInv
<1>0. IInv' /\ loaded' \in BOOLEAN /\ faults' \in Nat
  BY NextPreservesIInv, FlagsKeepTypes DEF WInv
<1>1. ASSUME NEW c \in Calls, RecordCall(c) PROVE Window'
  BY <1>0, <1>1, RecordCallKeepsWindow
<1>2. ASSUME FlushBegins PROVE Window'
  BY <1>0, <1>2, FlushBeginsKeepsWindow
<1>3. ASSUME Insert PROVE Window'
  BY <1>0, <1>3, InsertKeepsWindow
<1>4. ASSUME Commit PROVE Window'
  BY <1>0, <1>4, CommitKeepsWindow
<1>5. ASSUME FlushFails PROVE Window'
  BY <1>0, <1>5, FlushFailsKeepsWindow
<1>6. ASSUME Rollback PROVE Window'
  BY <1>0, <1>6, RollbackKeepsWindow
<1>7. ASSUME NEW r \in Readers, LoadBegins(r) PROVE Window'
  BY <1>0, <1>7, LoadBeginsKeepsWindow
<1>8. ASSUME NEW r \in Readers, Select(r) PROVE Window'
  BY <1>0, <1>8, SelectKeepsWindow
<1>9. ASSUME NEW r \in Readers, Fetch(r) PROVE Window'
  BY <1>0, <1>9, FetchKeepsWindow
<1>10. ASSUME NEW r \in Readers, Merge(r) PROVE Window'
  BY <1>0, <1>10, MergeKeepsWindow
<1>11. ASSUME NEW r \in Readers, LoadFails(r) PROVE Window'
  BY <1>0, <1>11, LoadFailsKeepsWindow
<1>12. ASSUME Crash PROVE Window'
  BY <1>0, <1>12, CrashKeepsWindow
<1>13. ASSUME UNCHANGED vars PROVE Window'
  <2>1. UNCHANGED <<rows, durable, queue, phase, dbId, cache, loaded, reader, snap, log>>
    BY <1>13 DEF vars, diskVars, flushVars, cacheVars, readerVars
  <2>2. LogOnce' /\ IdsAreTimes' /\ QueueInv'
    BY <2>1, LogStays DEF WInv, IdsAreTimes, QueueInv
  <2>3. /\ log \in Seq(Calls) /\ durable \in Nat /\ snap' \in [Readers -> Seq(Entries)]
    BY <2>1 DEF WInv, IInv, LogTypeOK, SnapInv
  <2>4. CacheInv'
    BY <1>0, <2>1, <2>3, CacheStays DEF WInv
  <2>5. \A r \in Readers : Loading(r)' => /\ Loading(r) /\ snap'[r] = snap[r]
                                          /\ \A b \in Nat : Pace(r, b) => Pace(r, b)'
    BY <2>1 DEF Loading, Pace
  <2>6. SnapInv'
    BY <2>1, <2>3, <2>5, SnapStays DEF WInv
  <2> QED
    BY <2>2, <2>4, <2>6
<1>14. Window'
  BY <1>1, <1>2, <1>3, <1>4, <1>5, <1>6, <1>7, <1>8, <1>9, <1>10, <1>11, <1>12, <1>13 DEF Next
<1> QED
  BY <1>0, <1>14 DEF WInv

\* The window's invariant holds for any calls, readers, window and faults.
THEOREM WindowInvariant == Spec => []WInv
<1>1. Init => WInv
  BY InitHasWindow
<1>2. WInv /\ [Next]_vars => WInv'
  BY NextKeepsWindow
<1> QED
  BY <1>1, <1>2, PTL DEF Spec

\* Type correctness of the whole log, its loads and the connection's queue.
THEOREM LogTypesHold == Spec => []TypeOK
<1>1. WInv => TypeOK
  BY DEF WInv, IInv, QueueInv, CacheInv, SnapInv, TypeOK
<1> QED
  BY <1>1, WindowInvariant, PTL

\* _ensure_disk_cached: whatever is recorded, flushed, rolled back or crashes
\* while the model's rows are read, the window holds the last calls recorded,
\* without a gap and oldest first.
THEOREM CacheAlwaysRecent == Spec => []CacheIsRecent
<1>1. ASSUME WInv PROVE CacheIsRecent
  <2>0. /\ log \in Seq(Calls) /\ LogOnce /\ Len(log) \in Nat
        /\ cache \in Seq(Entries) /\ Len(cache) \in Nat /\ DOMAIN cache = 1 .. Len(cache)
        /\ \A i \in DOMAIN cache : Sound(cache[i]) /\ Recent(Time(cache[i].call))
        /\ \A i, j \in DOMAIN cache : i < j => Time(cache[i].call) <= Time(cache[j].call)
    BY <1>1, LenProperties DEF WInv, IInv, LogTypeOK, CacheInv
  <2>1. \A i \in DOMAIN cache :
          /\ Time(cache[i].call) \in 1 .. Len(log) /\ log[Time(cache[i].call)] = cache[i].call
    BY <2>0, TimeIs DEF Sound
  <2> DEFINE Suffix(k) == CallsIn(cache) = ToSet(LastOf(log, k))
  <2>2. ASSUME Len(cache) = 0 PROVE \E k \in 0 .. Len(log) : Suffix(k)
    <3>1. CallsIn(cache) = {}
      BY <2>0, <2>2 DEF CallsIn
    <3>2. LastOf(log, 0) \in Seq(Calls) /\ Len(LastOf(log, 0)) <= 0
      BY <2>0, LastOfIs
    <3>3. DOMAIN LastOf(log, 0) = {}
      <4>1. Len(LastOf(log, 0)) \in Nat /\ DOMAIN LastOf(log, 0) = 1 .. Len(LastOf(log, 0))
        BY <3>2, LenProperties
      <4> QED
        BY <3>2, <4>1
    <3>4. CallsIn(cache) = ToSet(LastOf(log, 0))
      BY <3>1, <3>3 DEF ToSet
    <3> QED
      BY <2>0, <3>4
  <2>3. ASSUME Len(cache) # 0 PROVE \E k \in 0 .. Len(log) : Suffix(k)
    <3> DEFINE m == Time(cache[1].call)
               n == Len(log) - m + 1
               q == LastOf(log, n)
    <3>1. 1 \in DOMAIN cache /\ m \in 1 .. Len(log) /\ log[m] = cache[1].call /\ Recent(m)
      BY <2>0, <2>1, <2>3
    <3>2. n \in 0 .. Len(log) /\ n \in Nat /\ Len(log) - n = m - 1
      <4> HIDE DEF m
      <4> QED
        BY <2>0, <3>1
    <3> HIDE DEF n, m
    <3>3. PICK d \in 0 .. Len(log) :
            /\ q \in Seq(Calls) /\ Len(q) <= n /\ Len(q) = Len(log) - d
            /\ d # 0 => Len(log) - d = n
            /\ \A i \in 1 .. Len(log) - d : q[i] = log[d + i]
      BY <2>0, <3>2, LastOfIs
    <3> HIDE DEF q
    <3>4. d = m - 1
      BY <2>0, <3>1, <3>2, <3>3
    <3>5. DOMAIN q = 1 .. Len(log) - d
      BY <3>3, LenProperties
    <3>6. ASSUME NEW x \in ToSet(q) PROVE x \in CallsIn(cache)
      <4>1. PICK i \in 1 .. Len(log) - d : x = log[d + i]
        BY <3>3, <3>5 DEF ToSet
      <4>2. CASE d + i = m
        BY <3>1, <4>1, <4>2 DEF CallsIn
      <4>3. CASE d + i # m
        <5>1. d + i \in m + 1 .. Len(log)
          BY <2>0, <3>1, <3>4, <4>3
        <5> QED
          BY <3>1, <4>1, <5>1 DEF Recent
      <4> QED
        BY <4>2, <4>3
    <3>7. ASSUME NEW i \in DOMAIN cache PROVE cache[i].call \in ToSet(q)
      <4> DEFINE t == Time(cache[i].call)
      <4>1. t \in 1 .. Len(log) /\ log[t] = cache[i].call /\ m <= t
        <5>1. t \in 1 .. Len(log) /\ log[t] = cache[i].call
          BY <2>1
        <5>2. CASE i = 1
          BY <3>1, <5>2 DEF m
        <5>3. CASE i # 1
          <6>1. 1 < i
            BY <2>0, <5>3
          <6> QED
            BY <2>0, <3>1, <5>1, <6>1 DEF m
        <5> QED
          BY <5>1, <5>2, <5>3
      <4> HIDE DEF t
      <4>2. t - d \in 1 .. Len(log) - d /\ d + (t - d) = t
        BY <2>0, <3>1, <3>4, <4>1
      <4>3. q[t - d] = cache[i].call
        BY <3>3, <4>1, <4>2
      <4> QED
        BY <3>5, <4>2, <4>3 DEF ToSet
    <3>8. CallsIn(cache) = ToSet(q)
      BY <3>6, <3>7 DEF CallsIn
    <3> QED
      BY <3>2, <3>8 DEF q
  <2>4. \E k \in 0 .. Len(log) : Suffix(k)
    BY <2>2, <2>3
  <2>5. log # <<>> /\ loaded => cache # <<>>
    BY <1>1 DEF WInv, CacheInv
  <2> QED
    BY <2>0, <2>4, <2>5 DEF CacheIsRecent
<1> QED
  BY <1>1, WindowInvariant, PTL

----------------------------------------------------------------------------
(* LlmCalls: the requests to the provider.                                 *)

\* Each request has a record for each call but the one it waits for; the requests of
\* this second are those the provider's counter has; the quota is short of one for each
\* charge.
LlmInv ==
    /\ Llm!TypeOK
    /\ Llm!RateKept
    /\ llmSent = Llm!CountNow
    /\ llmCalls \in [Llm!Requests -> Nat]
    /\ \A r \in Llm!Requests :
          /\ r \in ChatRequests => llmCalls[r] <= llmTries[r]
          /\ r \notin ChatRequests => llmCalls[r] <= 1 /\ (llmPc[r] = "new" => llmCalls[r] = 0)
          /\ r \notin CheckedChats /\ llmPc[r] \in {"wait", "sync"} =>
                Len(llmRecords[r]) + 1 = llmCalls[r]
          /\ r \notin CheckedChats /\ llmPc[r] \notin {"wait", "sync", "cancelled"} =>
                Len(llmRecords[r]) = llmCalls[r]
    /\ IsFiniteSet(Llm!Charges)
    /\ ~llmSynced /\ (\A r \in TimedChats : llmPc[r] # "cancelled")
          => llmQuota = - Cardinality(Llm!Charges)

LEMMA LlmAssumed ==
    /\ CheckedChats \subseteq ChatRequests /\ TimedChats \subseteq ChatRequests
    /\ ChatRequests \cap EmbedRequests = {}
    /\ (ChatRequests \cup EmbedRequests) \cap SpeechRequests = {}
    /\ ChatTries \in Nat /\ ChatTries > 0 /\ AskLimit \in Nat /\ AskLimit > 0
    /\ AskSeconds \in Nat /\ AskSeconds > 0
<1> QED
  BY InstancesAreSound DEF Llm!LlmCallsAssumption

\* The instance counts as the library does.
LEMMA LlmCounts == \A S : Llm!Cardinality(S) = Cardinality(S)
<1> QED
  BY DEF Llm!Cardinality, Cardinality

\* What a charge is.
LEMMA ChargeMembers ==
    /\ \A c \in Llm!Charges : \E r \in Llm!Requests : \E i : c = <<r, i>>
    /\ \A r \in Llm!Requests : \A i : <<r, i>> \in Llm!Charges <=> i \in Llm!Charged(r)
<1>1. \A c \in Llm!Charges : \E r \in Llm!Requests : \E i : c = <<r, i>>
  <2> SUFFICES ASSUME NEW c \in UNION {{r} \X Llm!Charged(r) : r \in Llm!Requests}
               PROVE  \E r \in Llm!Requests : \E i : c = <<r, i>>
    BY DEF Llm!Charges
  <2>1. PICK r \in Llm!Requests : c \in {r} \X Llm!Charged(r)
    OBVIOUS
  <2> QED
    BY <2>1
<1>2. ASSUME NEW r \in Llm!Requests, NEW i
      PROVE  <<r, i>> \in Llm!Charges <=> i \in Llm!Charged(r)
  BY DEF Llm!Charges
<1> QED
  BY <1>1, <1>2

LEMMA ChargeMembersNext ==
    /\ \A c \in (Llm!Charges)' : \E r \in Llm!Requests : \E i : c = <<r, i>>
    /\ \A r \in Llm!Requests : \A i : <<r, i>> \in (Llm!Charges)' <=> i \in (Llm!Charged(r))'
<1>1. \A c \in (Llm!Charges)' : \E r \in Llm!Requests : \E i : c = <<r, i>>
  <2> SUFFICES ASSUME NEW c \in UNION {{r} \X (Llm!Charged(r))' : r \in Llm!Requests}
               PROVE  \E r \in Llm!Requests : \E i : c = <<r, i>>
    BY DEF Llm!Charges, Llm!Requests
  <2>1. PICK r \in Llm!Requests : c \in {r} \X (Llm!Charged(r))'
    OBVIOUS
  <2> QED
    BY <2>1
<1>2. ASSUME NEW r \in Llm!Requests, NEW i
      PROVE  <<r, i>> \in (Llm!Charges)' <=> i \in (Llm!Charged(r))'
  BY DEF Llm!Charges
<1> QED
  BY <1>1, <1>2

\* A step of request r leaves what the others are charged for.
OthersKept(r) ==
    \A q \in Llm!Requests \ {r} : llmPc'[q] = llmPc[q] /\ llmRecords'[q] = llmRecords[q]

LEMMA OthersCharged ==
    ASSUME NEW r \in Llm!Requests, OthersKept(r)
    PROVE  \A q \in Llm!Requests : \A i : q # r =>
             (<<q, i>> \in (Llm!Charges)' <=> <<q, i>> \in Llm!Charges)
<1>1. \A q \in Llm!Requests : q # r => (Llm!Charged(q))' = Llm!Charged(q)
  BY DEF OthersKept, Llm!Charged
<1> QED
  BY <1>1, ChargeMembers, ChargeMembersNext

LEMMA ChargesGrow ==
    ASSUME NEW r \in Llm!Requests, OthersKept(r), NEW i,
           i \notin Llm!Charged(r), (Llm!Charged(r))' = Llm!Charged(r) \cup {i}
    PROVE  (Llm!Charges)' = Llm!Charges \cup {<<r, i>>} /\ <<r, i>> \notin Llm!Charges
<1>1. <<r, i>> \notin Llm!Charges
  BY ChargeMembers
<1>2. ASSUME NEW c \in (Llm!Charges)' PROVE c \in Llm!Charges \cup {<<r, i>>}
  <2>1. PICK q \in Llm!Requests : \E n : c = <<q, n>>
    BY ChargeMembersNext
  <2> QED
    BY <2>1, OthersCharged, ChargeMembers, ChargeMembersNext
<1>3. ASSUME NEW c \in Llm!Charges \cup {<<r, i>>} PROVE c \in (Llm!Charges)'
  <2>1. CASE c = <<r, i>>
    BY <2>1, ChargeMembersNext
  <2>2. CASE c \in Llm!Charges
    <3>1. PICK q \in Llm!Requests : \E n : c = <<q, n>>
      BY <2>2, ChargeMembers
    <3> QED
      BY <2>2, <3>1, OthersCharged, ChargeMembers, ChargeMembersNext
  <2> QED
    BY <2>1, <2>2
<1> QED
  BY <1>1, <1>2, <1>3

LEMMA ChargesStay ==
    ASSUME NEW r \in Llm!Requests, OthersKept(r), (Llm!Charged(r))' \subseteq Llm!Charged(r)
    PROVE  (Llm!Charges)' \subseteq Llm!Charges
<1> SUFFICES ASSUME NEW c \in (Llm!Charges)' PROVE c \in Llm!Charges
  OBVIOUS
<1>1. PICK q \in Llm!Requests : \E n : c = <<q, n>>
  BY ChargeMembersNext
<1> QED
  BY <1>1, OthersCharged, ChargeMembers, ChargeMembersNext

LEMMA ChargesSame ==
    ASSUME NEW r \in Llm!Requests, OthersKept(r), (Llm!Charged(r))' = Llm!Charged(r)
    PROVE  (Llm!Charges)' = Llm!Charges
<1>1. ASSUME NEW c \in Llm!Charges PROVE c \in (Llm!Charges)'
  <2>1. PICK q \in Llm!Requests : \E n : c = <<q, n>>
    BY ChargeMembers
  <2> QED
    BY <2>1, OthersCharged, ChargeMembers, ChargeMembersNext
<1> QED
  BY <1>1, ChargesStay

LEMMA ChargesMove ==
    ASSUME NEW r \in Llm!Requests, OthersKept(r), NEW i, 0 \in Llm!Charged(r),
           i \notin Llm!Charged(r), (Llm!Charged(r))' = (Llm!Charged(r) \ {0}) \cup {i}
    PROVE  /\ (Llm!Charges)' = (Llm!Charges \ {<<r, 0>>}) \cup {<<r, i>>}
           /\ <<r, 0>> \in Llm!Charges /\ <<r, i>> \notin Llm!Charges
<1>1. <<r, 0>> \in Llm!Charges /\ <<r, i>> \notin Llm!Charges
  BY ChargeMembers
<1>2. ASSUME NEW c \in (Llm!Charges)'
      PROVE  c \in (Llm!Charges \ {<<r, 0>>}) \cup {<<r, i>>}
  <2>1. PICK q \in Llm!Requests : \E n : c = <<q, n>>
    BY ChargeMembersNext
  <2>2. CASE q = r
    BY <2>1, <2>2, ChargeMembers, ChargeMembersNext
  <2>3. CASE q # r
    BY <2>1, <2>3, OthersCharged
  <2> QED
    BY <2>2, <2>3
<1>3. ASSUME NEW c \in (Llm!Charges \ {<<r, 0>>}) \cup {<<r, i>>} PROVE c \in (Llm!Charges)'
  <2>1. CASE c = <<r, i>>
    BY <2>1, ChargeMembersNext
  <2>2. CASE c \in Llm!Charges /\ c # <<r, 0>>
    <3>1. PICK q \in Llm!Requests : \E n : c = <<q, n>>
      BY <2>2, ChargeMembers
    <3> QED
      BY <2>2, <3>1, OthersCharged, ChargeMembers, ChargeMembersNext
  <2> QED
    BY <1>3, <2>1, <2>2
<1> QED
  BY <1>1, <1>2, <1>3

\* What a record more means for the successes.
LEMMA RecordsMore ==
    ASSUME NEW s \in Seq(BOOLEAN)
    PROVE  /\ \A ok \in BOOLEAN :
                 /\ Append(s, ok) \in Seq(BOOLEAN) /\ Len(Append(s, ok)) = Len(s) + 1
                 /\ {i \in DOMAIN Append(s, ok) : Append(s, ok)[i]}
                      = {i \in DOMAIN s : s[i]} \cup (IF ok THEN {Len(s) + 1} ELSE {})
           /\ s \o <<TRUE, FALSE>> \in Seq(BOOLEAN)
           /\ {i \in DOMAIN (s \o <<TRUE, FALSE>>) : (s \o <<TRUE, FALSE>>)[i]}
                = {i \in DOMAIN s : s[i]} \cup {Len(s) + 1}
           /\ Len(s) + 1 \notin DOMAIN s /\ 0 \notin DOMAIN s /\ Len(s) \in Nat
<1>1. Len(s) \in Nat /\ DOMAIN s = 1 .. Len(s)
  BY LenProperties
<1>2. ASSUME NEW ok \in BOOLEAN
      PROVE  /\ Append(s, ok) \in Seq(BOOLEAN) /\ Len(Append(s, ok)) = Len(s) + 1
             /\ {i \in DOMAIN Append(s, ok) : Append(s, ok)[i]}
                  = {i \in DOMAIN s : s[i]} \cup (IF ok THEN {Len(s) + 1} ELSE {})
  <2>1. /\ Append(s, ok) \in Seq(BOOLEAN) /\ Len(Append(s, ok)) = Len(s) + 1
        /\ \A i \in 1 .. Len(s) : Append(s, ok)[i] = s[i]
        /\ Append(s, ok)[Len(s) + 1] = ok
    BY AppendProperties
  <2>2. DOMAIN Append(s, ok) = 1 .. Len(s) + 1
    BY <2>1, LenProperties
  <2>3. DOMAIN Append(s, ok) = DOMAIN s \cup {Len(s) + 1}
    BY <1>1, <2>2
  <2> QED
    BY <1>1, <2>1, <2>3
<1>3. /\ s \o <<TRUE, FALSE>> \in Seq(BOOLEAN)
      /\ {i \in DOMAIN (s \o <<TRUE, FALSE>>) : (s \o <<TRUE, FALSE>>)[i]}
           = {i \in DOMAIN s : s[i]} \cup {Len(s) + 1}
  <2>1. <<TRUE, FALSE>> \in Seq(BOOLEAN) /\ Len(<<TRUE, FALSE>>) = 2
    OBVIOUS
  <2>2. /\ s \o <<TRUE, FALSE>> \in Seq(BOOLEAN)
        /\ Len(s \o <<TRUE, FALSE>>) = Len(s) + 2
        /\ \A i \in 1 .. Len(s) + 2 : (s \o <<TRUE, FALSE>>)[i] =
              IF i <= Len(s) THEN s[i] ELSE <<TRUE, FALSE>>[i - Len(s)]
    BY <2>1, ConcatProperties
  <2>3. DOMAIN (s \o <<TRUE, FALSE>>) = 1 .. Len(s) + 2
    BY <2>2, LenProperties
  <2>4. DOMAIN (s \o <<TRUE, FALSE>>) = DOMAIN s \cup {Len(s) + 1, Len(s) + 2}
    BY <1>1, <2>3
  <2>5. /\ \A i \in DOMAIN s : (s \o <<TRUE, FALSE>>)[i] = s[i]
        /\ (s \o <<TRUE, FALSE>>)[Len(s) + 1] = TRUE
        /\ (s \o <<TRUE, FALSE>>)[Len(s) + 2] = FALSE
    BY <1>1, <2>2
  <2> QED
    BY <2>2, <2>4, <2>5
<1> QED
  BY <1>1, <1>2, <1>3

\* A record of a success ends an answer, or has the next model tried.
LEMMA LlmAccepts ==
    ASSUME LlmInv, NEW r \in Llm!Requests, llmPc[r] \in {"wait", "sync"},
           NEW ok \in BOOLEAN, Llm!Accept(r, ok)
    PROVE  /\ llmRecords' \in [Llm!Requests -> Seq(BOOLEAN)]
           /\ llmPc' \in [Llm!Requests -> {"new", "wait", "sync", "pause", "next"} \cup Llm!Over]
           /\ OthersKept(r)
           /\ llmPc'[r] \in {"done", "pause"}
           /\ r \notin CheckedChats =>
                llmPc'[r] = "done" /\ Len(llmRecords'[r]) = Len(llmRecords[r]) + 1
           /\ r \notin ChatRequests => llmPc'[r] = "done"
           /\ Len(llmRecords[r]) + 1 \notin Llm!Charged(r)
           /\ 0 \in Llm!Charged(r) <=> llmPc[r] = "sync"
           /\ (Llm!Charged(r))' = (Llm!Charged(r) \ {0}) \cup {Len(llmRecords[r]) + 1}
<1>1. llmRecords \in [Llm!Requests -> Seq(BOOLEAN)] /\ llmRecords[r] \in Seq(BOOLEAN)
  BY DEF LlmInv, Llm!TypeOK
<1>2. llmPc \in [Llm!Requests -> {"new", "wait", "sync", "pause", "next"} \cup Llm!Over]
  BY DEF LlmInv, Llm!TypeOK
<1> DEFINE s == llmRecords[r]
<1>3. /\ Append(s, TRUE) \in Seq(BOOLEAN) /\ Len(Append(s, TRUE)) = Len(s) + 1
      /\ {i \in DOMAIN Append(s, TRUE) : Append(s, TRUE)[i]} = {i \in DOMAIN s : s[i]} \cup {Len(s) + 1}
      /\ s \o <<TRUE, FALSE>> \in Seq(BOOLEAN)
      /\ {i \in DOMAIN (s \o <<TRUE, FALSE>>) : (s \o <<TRUE, FALSE>>)[i]}
           = {i \in DOMAIN s : s[i]} \cup {Len(s) + 1}
      /\ Len(s) + 1 \notin DOMAIN s /\ 0 \notin DOMAIN s /\ Len(s) \in Nat
  BY <1>1, RecordsMore
<1>4. /\ Len(s) + 1 \notin Llm!Charged(r)
      /\ 0 \in Llm!Charged(r) <=> llmPc[r] = "sync"
      /\ Llm!Charged(r) \ {0} = {i \in DOMAIN s : s[i]}
  BY <1>3 DEF Llm!Charged
<1>5. CASE ok
  <2>1. /\ llmRecords' = [llmRecords EXCEPT ![r] = Append(s, TRUE)]
        /\ llmPc' = [llmPc EXCEPT ![r] = "done"]
    BY <1>5 DEF Llm!Accept, Llm!Records, Llm!Goes
  <2>2. llmRecords'[r] = Append(s, TRUE) /\ llmPc'[r] = "done"
    BY <1>1, <1>2, <2>1
  <2>3. (Llm!Charged(r))' = {i \in DOMAIN s : s[i]} \cup {Len(s) + 1}
    BY <1>3, <2>2 DEF Llm!Charged
  <2>4. llmRecords' \in [Llm!Requests -> Seq(BOOLEAN)] /\ OthersKept(r)
        /\ llmPc' \in [Llm!Requests -> {"new", "wait", "sync", "pause", "next"} \cup Llm!Over]
    BY <1>1, <1>2, <1>3, <2>1 DEF OthersKept, Llm!Over
  <2> QED
    BY <1>3, <1>4, <2>2, <2>3, <2>4
<1>6. CASE ~ok
  <2>1. /\ r \in CheckedChats
        /\ llmRecords' = [llmRecords EXCEPT ![r] = s \o <<TRUE, FALSE>>]
        /\ llmPc' = [llmPc EXCEPT ![r] = "pause"]
    BY <1>6 DEF Llm!Accept, Llm!Goes
  <2>2. llmRecords'[r] = s \o <<TRUE, FALSE>> /\ llmPc'[r] = "pause"
    BY <1>1, <1>2, <2>1
  <2>3. (Llm!Charged(r))' = {i \in DOMAIN s : s[i]} \cup {Len(s) + 1}
    BY <1>3, <2>2 DEF Llm!Charged
  <2>4. llmRecords' \in [Llm!Requests -> Seq(BOOLEAN)] /\ OthersKept(r)
        /\ llmPc' \in [Llm!Requests -> {"new", "wait", "sync", "pause", "next"} \cup Llm!Over]
    BY <1>1, <1>2, <1>3, <2>1 DEF OthersKept, Llm!Over
  <2> QED
    BY <1>4, <2>1, <2>2, <2>3, <2>4, LlmAssumed
<1> QED
  BY <1>5, <1>6

\* The charges and the quota.
ChargesSound ==
    /\ IsFiniteSet(Llm!Charges)
    /\ ~llmSynced /\ (\A r \in TimedChats : llmPc[r] # "cancelled")
          => llmQuota = - Cardinality(Llm!Charges)

\* A step of a request that was not given up: it was not before, when none is after.
LEMMA NoneGivenUp ==
    ASSUME NEW r \in Llm!Requests, OthersKept(r), llmPc[r] # "cancelled",
           \A q \in TimedChats : llmPc'[q] # "cancelled"
    PROVE  \A q \in TimedChats : llmPc[q] # "cancelled"
<1>1. TimedChats \subseteq Llm!Requests
  BY LlmAssumed DEF Llm!Requests
<1> QED
  BY <1>1 DEF OthersKept

LEMMA ChargedQuietly ==
    ASSUME ChargesSound, NEW r \in Llm!Requests, OthersKept(r), llmPc[r] # "cancelled",
           (Llm!Charged(r))' = Llm!Charged(r), UNCHANGED <<llmQuota, llmSynced>>
    PROVE  ChargesSound'
<1>1. (Llm!Charges)' = Llm!Charges
  BY ChargesSame
<1> QED
  BY <1>1, NoneGivenUp DEF ChargesSound

LEMMA ChargedOnce ==
    ASSUME ChargesSound, NEW r \in Llm!Requests, OthersKept(r), llmPc[r] # "cancelled",
           NEW i, i \notin Llm!Charged(r), (Llm!Charged(r))' = Llm!Charged(r) \cup {i},
           llmQuota' = llmQuota - 1, UNCHANGED llmSynced
    PROVE  ChargesSound'
<1>1. (Llm!Charges)' = Llm!Charges \cup {<<r, i>>} /\ <<r, i>> \notin Llm!Charges
  BY ChargesGrow
<1>2. /\ IsFiniteSet((Llm!Charges)')
      /\ Cardinality((Llm!Charges)') = Cardinality(Llm!Charges) + 1
      /\ Cardinality(Llm!Charges) \in Nat
  BY <1>1, FS_AddElement, FS_CardinalityType DEF ChargesSound
<1>3. ASSUME ~llmSynced', \A q \in TimedChats : llmPc'[q] # "cancelled"
      PROVE  llmQuota' = - Cardinality((Llm!Charges)')
  <2>1. llmQuota = - Cardinality(Llm!Charges)
    BY <1>3, NoneGivenUp DEF ChargesSound
  <2> QED
    BY <1>2, <2>1
<1> QED
  BY <1>2, <1>3 DEF ChargesSound

LEMMA ChargesKept ==
    ASSUME LlmInv, [Llm!Next]_llmVars
    PROVE  ChargesSound'
<1> DEFINE Places == {"new", "wait", "sync", "pause", "next"} \cup Llm!Over
<1>0. ChargesSound
  BY DEF LlmInv, ChargesSound
<1>1. llmPc \in [Llm!Requests -> Places] /\ llmRecords \in [Llm!Requests -> Seq(BOOLEAN)]
  BY DEF LlmInv, Llm!TypeOK
<1>2. CASE Llm!Tick \/ UNCHANGED llmVars
  <2>1. UNCHANGED <<llmPc, llmRecords, llmQuota, llmSynced>>
    BY <1>2 DEF Llm!Tick, llmVars
  <2> QED
    BY <1>0, <2>1 DEF ChargesSound, Llm!Charges, Llm!Charged
<1>3. ASSUME NEW r \in Llm!Requests, NEW to \in Places \ {"sync"}, Llm!Goes(r, to),
             llmPc[r] \notin {"sync", "cancelled"},
             UNCHANGED <<llmRecords, llmQuota, llmSynced>>
      PROVE  ChargesSound'
  <2>1. OthersKept(r) /\ llmPc'[r] = to
    BY <1>1, <1>3 DEF OthersKept, Llm!Goes
  <2>2. (Llm!Charged(r))' = Llm!Charged(r)
    BY <1>3, <2>1 DEF Llm!Charged
  <2> QED
    BY <1>0, <1>3, <2>1, <2>2, ChargedQuietly
<1>4. ASSUME NEW r \in Llm!Requests, Llm!Works(r) \/ Llm!Cancel(r)
      PROVE  ChargesSound'
  <2>1. CASE Llm!Try(r) \/ Llm!Embed(r)
    BY <1>3, <2>1 DEF Llm!Try, Llm!Embed, Llm!Send, Llm!Goes
  <2>2. CASE Llm!TryFails(r)
    BY <1>3, <2>2 DEF Llm!TryFails, Llm!Goes
  <2>3. CASE Llm!Speak(r)
    <3>1. "wait" \in Places \ {"sync"} /\ "failed" \in Places \ {"sync"}
      BY DEF Llm!Over
    <3> QED
      BY <1>3, <2>3, <3>1 DEF Llm!Speak, Llm!Send
  <2>4. CASE Llm!Resumes(r)
    <3>1. "next" \in Places \ {"sync"} /\ "failed" \in Places \ {"sync"}
      BY DEF Llm!Over
    <3> QED
      BY <1>3, <2>4, <3>1 DEF Llm!Resumes
  <2>5. CASE Llm!Fails(r)
    <3>1. PICK to \in {"pause", "failed"} : llmPc' = [llmPc EXCEPT ![r] = to]
      BY <2>5 DEF Llm!Fails, Llm!Goes
    <3>2. /\ llmPc[r] = "wait" /\ UNCHANGED <<llmQuota, llmSynced>>
          /\ llmRecords' = [llmRecords EXCEPT ![r] = Append(llmRecords[r], FALSE)]
      BY <2>5 DEF Llm!Fails, Llm!Records
    <3>3. /\ OthersKept(r) /\ llmPc'[r] = to
          /\ llmRecords'[r] = Append(llmRecords[r], FALSE)
      BY <1>1, <3>1, <3>2 DEF OthersKept
    <3>4. {i \in DOMAIN Append(llmRecords[r], FALSE) : Append(llmRecords[r], FALSE)[i]}
            = {i \in DOMAIN llmRecords[r] : llmRecords[r][i]} \cup {}
      BY <1>1, RecordsMore
    <3>5. (Llm!Charged(r))' = Llm!Charged(r)
      BY <3>2, <3>3, <3>4 DEF Llm!Charged
    <3> QED
      BY <1>0, <3>2, <3>3, <3>5, ChargedQuietly
  <2>6. CASE Llm!Answered(r)
    <3>0. llmPc[r] = "wait" /\ llmQuota' = llmQuota - 1 /\ UNCHANGED llmSynced
      BY <2>6 DEF Llm!Answered
    <3>1. CASE Llm!Goes(r, "sync") /\ UNCHANGED llmRecords
      <4>1. OthersKept(r) /\ llmPc'[r] = "sync"
        BY <1>1, <3>1 DEF OthersKept, Llm!Goes
      <4>2. 0 \notin DOMAIN llmRecords[r]
        BY <1>1, RecordsMore
      <4>3. 0 \notin Llm!Charged(r) /\ (Llm!Charged(r))' = Llm!Charged(r) \cup {0}
        BY <3>0, <3>1, <4>1, <4>2 DEF Llm!Charged
      <4> QED
        BY <1>0, <3>0, <4>1, <4>3, ChargedOnce
    <3>2. ASSUME NEW ok \in BOOLEAN, Llm!Accept(r, ok) PROVE ChargesSound'
      <4>1. /\ OthersKept(r) /\ Len(llmRecords[r]) + 1 \notin Llm!Charged(r)
            /\ (Llm!Charged(r))' = Llm!Charged(r) \cup {Len(llmRecords[r]) + 1}
        BY <3>0, <3>2, LlmAccepts
      <4> QED
        BY <1>0, <3>0, <4>1, ChargedOnce
    <3> QED
      BY <2>6, <3>1, <3>2 DEF Llm!Answered
  <2>7. CASE Llm!Synced(r)
    <3>0. llmPc[r] = "sync"
      BY <2>7 DEF Llm!Synced
    <3>1. PICK ok \in BOOLEAN : Llm!Accept(r, ok)
      BY <2>7 DEF Llm!Synced
    <3>2. OthersKept(r)
      BY <3>0, <3>1, LlmAccepts
    <3>3. /\ (Llm!Charges)' = (Llm!Charges \ {<<r, 0>>}) \cup {<<r, Len(llmRecords[r]) + 1>>}
          /\ <<r, 0>> \in Llm!Charges /\ <<r, Len(llmRecords[r]) + 1>> \notin Llm!Charges
      BY <3>0, <3>1, <3>2, LlmAccepts, ChargesMove
    <3>4. /\ IsFiniteSet(Llm!Charges \ {<<r, 0>>})
          /\ Cardinality(Llm!Charges \ {<<r, 0>>}) = Cardinality(Llm!Charges) - 1
          /\ Cardinality(Llm!Charges) \in Nat
      BY <1>0, <3>3, FS_RemoveElement, FS_CardinalityType DEF ChargesSound
    <3>5. /\ IsFiniteSet((Llm!Charges)')
          /\ Cardinality((Llm!Charges)') = Cardinality(Llm!Charges \ {<<r, 0>>}) + 1
      BY <3>3, <3>4, FS_AddElement
    <3>6. Cardinality((Llm!Charges)') = Cardinality(Llm!Charges)
      BY <3>4, <3>5
    <3>7. llmSynced' \/ UNCHANGED <<llmQuota, llmSynced>>
      BY <2>7 DEF Llm!Synced
    <3> QED
      BY <1>0, <3>0, <3>2, <3>5, <3>6, <3>7, NoneGivenUp DEF ChargesSound
  <2>8. CASE Llm!Cancel(r)
    <3>1. /\ OthersKept(r) /\ llmPc'[r] = "cancelled" /\ r \in TimedChats
          /\ UNCHANGED llmRecords
      BY <1>1, <2>8 DEF Llm!Cancel, Llm!Goes, OthersKept
    <3>2. (Llm!Charged(r))' \subseteq Llm!Charged(r)
      BY <3>1 DEF Llm!Charged
    <3>3. IsFiniteSet((Llm!Charges)')
      BY <1>0, <3>1, <3>2, ChargesStay, FS_Subset DEF ChargesSound
    <3> QED
      BY <3>1, <3>3 DEF ChargesSound
  <2> QED
    BY <1>4, <2>1, <2>2, <2>3, <2>4, <2>5, <2>6, <2>7, <2>8 DEF Llm!Works
<1> QED
  BY <1>2, <1>4 DEF Llm!Next

\* A request of this second is one more for the provider and for the count of it.
LEMMA LlmSends ==
    ASSUME LlmInv, NEW r \in Llm!Requests, Llm!MayAsk, Llm!Send(r)
    PROVE  /\ llmTs' \in 0 .. llmSecond' /\ llmCount' \in 0 .. AskLimit
           /\ llmSent' \in Nat /\ llmSent' <= AskLimit /\ llmSent' = (Llm!CountNow)'
           /\ llmCalls' = [llmCalls EXCEPT ![r] = llmCalls[r] + 1]
           /\ llmPc' = [llmPc EXCEPT ![r] = "wait"]
           /\ UNCHANGED <<llmSecond, llmQuota, llmSynced, llmRecords>>
<1> QED
  BY LlmAssumed DEF LlmInv, Llm!TypeOK, Llm!RateKept, Llm!MayAsk, Llm!Send, Llm!CountNow,
     Llm!Goes

\* What an invariant of the requests asks of each.
LlmEach(r) ==
    /\ llmCalls[r] <= ChatTries
    /\ r \in ChatRequests => llmCalls[r] <= llmTries[r]
    /\ r \notin ChatRequests => llmCalls[r] <= 1 /\ (llmPc[r] = "new" => llmCalls[r] = 0)
    /\ r \notin CheckedChats /\ llmPc[r] \in {"wait", "sync"} =>
          Len(llmRecords[r]) + 1 = llmCalls[r]
    /\ r \notin CheckedChats /\ llmPc[r] \notin {"wait", "sync", "cancelled"} =>
          Len(llmRecords[r]) = llmCalls[r]

\* The step of one request, which leaves what holds of the others.
LEMMA LlmOneStep ==
    ASSUME LlmInv, NEW r \in Llm!Requests,
           llmSecond' = llmSecond, llmTs' \in 0 .. llmSecond, llmCount' \in 0 .. AskLimit,
           llmSent' = llmSent \/ (llmSent' \in Nat /\ llmSent' <= AskLimit),
           llmSent' = (Llm!CountNow)',
           llmPc' \in [Llm!Requests -> {"new", "wait", "sync", "pause", "next"} \cup Llm!Over],
           llmTries' \in [Llm!Requests -> 0 .. ChatTries],
           llmCalls' \in [Llm!Requests -> Nat],
           llmRecords' \in [Llm!Requests -> Seq(BOOLEAN)],
           llmQuota' \in Int, llmSynced' \in BOOLEAN,
           \A q \in Llm!Requests \ {r} :
              /\ llmPc'[q] = llmPc[q] /\ llmRecords'[q] = llmRecords[q]
              /\ llmCalls'[q] = llmCalls[q] /\ llmTries'[q] = llmTries[q],
           (LlmEach(r))', ChargesSound'
    PROVE  LlmInv'
<1>1. \A q \in Llm!Requests : LlmEach(q)
  BY DEF LlmInv, Llm!TypeOK, LlmEach
<1>2. \A q \in Llm!Requests : (LlmEach(q))'
  BY <1>1 DEF LlmEach
<1>3. llmSent' \in Nat /\ llmSent' <= AskLimit
  BY DEF LlmInv, Llm!TypeOK, Llm!RateKept
<1>4. (Llm!TypeOK)'
  BY <1>2, <1>3 DEF LlmInv, Llm!TypeOK, LlmEach
<1> QED
  BY <1>2, <1>3, <1>4 DEF LlmInv, LlmEach, ChargesSound, Llm!RateKept

LEMMA LlmBegins == Llm!Init => LlmInv
<1> SUFFICES ASSUME Llm!Init PROVE LlmInv
  OBVIOUS
<1> USE LlmAssumed DEF Llm!Init
<1>1. <<>> \in Seq(BOOLEAN) /\ Len(<<>>) = 0
  OBVIOUS
<1>2. Llm!Charges = {}
  BY <1>1 DEF Llm!Charges, Llm!Charged
<1>3. IsFiniteSet({}) /\ Cardinality({}) = 0
  BY FS_EmptySet
<1>4. Llm!TypeOK
  <2>1. /\ llmSecond \in 1 .. AskSeconds /\ llmTs \in 0 .. llmSecond
        /\ llmCount \in 0 .. AskLimit /\ llmSent \in Nat
        /\ llmQuota \in Int
    OBVIOUS
  <2>3. llmSynced \in BOOLEAN
    OBVIOUS
  <2>2. /\ llmTries \in [Llm!Requests -> 0 .. ChatTries]
        /\ \A r \in Llm!Requests : llmCalls[r] <= ChatTries
        /\ llmRecords \in [Llm!Requests -> Seq(BOOLEAN)]
        /\ llmPc \in [Llm!Requests -> {"new", "wait", "sync", "pause", "next"} \cup Llm!Over]
    BY <1>1
  <2> QED
    BY <2>1, <2>2, <2>3 DEF Llm!TypeOK
<1>5. Llm!RateKept /\ llmSent = Llm!CountNow
  BY DEF Llm!RateKept, Llm!CountNow
<1> QED
  BY <1>1, <1>2, <1>3, <1>4, <1>5 DEF LlmInv

LEMMA LlmSteps == LlmInv /\ [Llm!Next]_llmVars => LlmInv'
<1> SUFFICES ASSUME LlmInv, [Llm!Next]_llmVars PROVE LlmInv'
  OBVIOUS
<1> USE LlmAssumed
<1> DEFINE Places == {"new", "wait", "sync", "pause", "next"} \cup Llm!Over
<1>0. ChargesSound'
  BY ChargesKept
<1>1. /\ llmSecond \in 1 .. AskSeconds /\ llmTs \in 0 .. llmSecond
      /\ llmCount \in 0 .. AskLimit /\ llmSent \in Nat /\ llmSent <= AskLimit
      /\ llmPc \in [Llm!Requests -> Places]
      /\ llmTries \in [Llm!Requests -> 0 .. ChatTries]
      /\ llmQuota \in Int /\ llmSynced \in BOOLEAN
      /\ llmRecords \in [Llm!Requests -> Seq(BOOLEAN)]
      /\ llmSent = Llm!CountNow /\ llmCalls \in [Llm!Requests -> Nat]
      /\ \A r \in Llm!Requests : LlmEach(r) /\ Len(llmRecords[r]) \in Nat
  BY LenProperties DEF LlmInv, Llm!TypeOK, Llm!RateKept, LlmEach
<1>2. CASE Llm!Tick
  <2>1. /\ llmSecond' = llmSecond + 1 /\ llmSent' = 0 /\ llmSecond' \in 1 .. AskSeconds
        /\ UNCHANGED <<llmTs, llmCount, llmPc, llmTries, llmQuota, llmSynced, llmCalls, llmRecords>>
    BY <1>1, <1>2 DEF Llm!Tick
  <2>2. (Llm!TypeOK)' /\ (Llm!RateKept)' /\ llmSent' = (Llm!CountNow)'
    BY <1>1, <2>1 DEF LlmInv, Llm!TypeOK, Llm!RateKept, Llm!CountNow
  <2> QED
    BY <1>0, <1>1, <2>1, <2>2 DEF LlmInv, ChargesSound, LlmEach
<1>3. CASE UNCHANGED llmVars
  BY <1>0, <1>3 DEF llmVars, LlmInv, ChargesSound, Llm!TypeOK, Llm!RateKept, Llm!CountNow
<1>4. ASSUME NEW r \in Llm!Requests, Llm!Works(r) \/ Llm!Cancel(r)
      PROVE  LlmInv'
  <2>1. CASE Llm!Try(r)
    <3>1. /\ r \in ChatRequests /\ llmPc[r] \in {"new", "next"} /\ llmTries[r] < ChatTries
          /\ llmTries' = [llmTries EXCEPT ![r] = llmTries[r] + 1]
          /\ Llm!MayAsk /\ Llm!Send(r)
      BY <2>1 DEF Llm!Try
    <3>2. /\ llmTries' \in [Llm!Requests -> 0 .. ChatTries]
          /\ llmTries'[r] = llmTries[r] + 1
      BY <1>1, <3>1
    <3>0. /\ llmCalls' = [llmCalls EXCEPT ![r] = llmCalls[r] + 1]
          /\ llmPc' = [llmPc EXCEPT ![r] = "wait"] /\ UNCHANGED llmRecords
      BY <3>1, LlmSends
    <3>3. /\ llmPc' \in [Llm!Requests -> Places] /\ llmPc'[r] = "wait"
          /\ llmCalls' \in [Llm!Requests -> Nat] /\ llmCalls'[r] = llmCalls[r] + 1
      BY <1>1, <3>0
    <3>4. \A q \in Llm!Requests \ {r} :
              /\ llmPc'[q] = llmPc[q] /\ llmRecords'[q] = llmRecords[q]
              /\ llmCalls'[q] = llmCalls[q] /\ llmTries'[q] = llmTries[q]
      BY <1>1, <3>1, LlmSends
    <3>5. (LlmEach(r))'
      <4>1. llmCalls[r] <= llmTries[r] /\ llmTries[r] \in Nat /\ llmCalls[r] \in Nat
        BY <1>1, <3>1 DEF LlmEach
      <4>0. LlmEach(r) /\ Len(llmRecords[r]) \in Nat /\ llmCalls[r] \in Nat
        BY <1>1
      <4>2. r \notin CheckedChats => Len(llmRecords[r]) = llmCalls[r]
        BY <3>1, <4>0 DEF LlmEach
      <4> QED
        BY <3>0, <3>1, <3>2, <3>3, <4>1, <4>2 DEF LlmEach
    <3> QED
      BY <1>0, <1>1, <3>1, <3>2, <3>3, <3>4, <3>5, LlmSends, LlmOneStep
  <2>2. CASE Llm!TryFails(r)
    <3>1. /\ r \in ChatRequests /\ llmPc[r] \in {"new", "next"} /\ llmTries[r] < ChatTries
          /\ llmTries' = [llmTries EXCEPT ![r] = llmTries[r] + 1]
          /\ llmPc' = [llmPc EXCEPT ![r] = "pause"]
          /\ UNCHANGED <<llmSecond, llmQuota, llmSynced, llmSent, llmCalls, llmRecords>>
      BY <2>2 DEF Llm!TryFails, Llm!Goes
    <3>2. llmTs' \in 0 .. llmSecond /\ llmCount' \in 0 .. AskLimit /\ llmSent' = (Llm!CountNow)'
      BY <1>1, <2>2 DEF Llm!TryFails, Llm!CountNow
    <3>3. /\ llmTries' \in [Llm!Requests -> 0 .. ChatTries] /\ llmTries'[r] = llmTries[r] + 1
          /\ llmPc' \in [Llm!Requests -> Places] /\ llmPc'[r] = "pause"
      BY <1>1, <3>1
    <3>4. (LlmEach(r))'
      <4>1. llmCalls[r] <= llmTries[r] /\ llmTries[r] \in Nat /\ llmCalls[r] \in Nat
        BY <1>1, <3>1 DEF LlmEach
      <4>0. LlmEach(r) /\ Len(llmRecords[r]) \in Nat /\ llmCalls[r] \in Nat
        BY <1>1
      <4>2. r \notin CheckedChats => Len(llmRecords[r]) = llmCalls[r]
        BY <3>1, <4>0 DEF LlmEach
      <4>3. llmCalls[r] <= ChatTries
        BY <1>1 DEF LlmEach
      <4> QED
        BY <3>1, <3>3, <4>1, <4>2, <4>3 DEF LlmEach
    <3>5. \A q \in Llm!Requests \ {r} :
              /\ llmPc'[q] = llmPc[q] /\ llmRecords'[q] = llmRecords[q]
              /\ llmCalls'[q] = llmCalls[q] /\ llmTries'[q] = llmTries[q]
      BY <1>1, <3>1
    <3> QED
      BY <1>0, <1>1, <3>1, <3>2, <3>3, <3>4, <3>5, LlmOneStep
  <2>3. CASE Llm!Speak(r)
    <3>1. r \in SpeechRequests /\ r \notin ChatRequests /\ llmPc[r] = "new" /\ UNCHANGED llmTries
      BY <2>3 DEF Llm!Speak
    <3>2. CASE Llm!MayAsk
      <4>1. Llm!Send(r)
        BY <2>3, <3>2 DEF Llm!Speak
      <4>0. /\ llmCalls' = [llmCalls EXCEPT ![r] = llmCalls[r] + 1]
            /\ llmPc' = [llmPc EXCEPT ![r] = "wait"] /\ UNCHANGED llmRecords
        BY <3>2, <4>1, LlmSends
      <4>2. /\ llmPc' \in [Llm!Requests -> Places] /\ llmPc'[r] = "wait"
            /\ llmCalls' \in [Llm!Requests -> Nat] /\ llmCalls'[r] = llmCalls[r] + 1
        BY <1>1, <4>0
      <4>3. \A q \in Llm!Requests \ {r} :
                /\ llmPc'[q] = llmPc[q] /\ llmRecords'[q] = llmRecords[q]
                /\ llmCalls'[q] = llmCalls[q] /\ llmTries'[q] = llmTries[q]
        BY <1>1, <3>1, <3>2, <4>1, LlmSends
      <4>4. (LlmEach(r))'
        <5>1. /\ llmCalls[r] = 0
              /\ r \notin CheckedChats => Len(llmRecords[r]) = 0
          BY <1>1, <3>1 DEF LlmEach
        <5> QED
          BY <3>1, <4>0, <4>2, <5>1 DEF LlmEach
      <4> QED
        BY <1>0, <1>1, <3>1, <3>2, <4>1, <4>2, <4>3, <4>4, LlmSends, LlmOneStep
    <3>3. CASE ~Llm!MayAsk
      <4>1. /\ llmPc' = [llmPc EXCEPT ![r] = "failed"]
            /\ UNCHANGED <<llmSecond, llmTs, llmCount, llmQuota, llmSynced, llmSent, llmCalls,
                           llmRecords>>
        BY <2>3, <3>3 DEF Llm!Speak, Llm!Goes
      <4>2. llmPc' \in [Llm!Requests -> Places] /\ llmPc'[r] = "failed"
        BY <1>1, <4>1 DEF Llm!Over
      <4>3. (LlmEach(r))' /\ llmSent' = (Llm!CountNow)'
        BY <1>1, <3>1, <4>1, <4>2 DEF LlmEach, Llm!CountNow
      <4> QED
        BY <1>0, <1>1, <3>1, <4>1, <4>2, <4>3, LlmOneStep
    <3> QED
      BY <3>2, <3>3
  <2>4. CASE Llm!Embed(r)
    <3>1. /\ r \in EmbedRequests /\ r \notin ChatRequests /\ llmPc[r] = "new"
          /\ llmCalls' = [llmCalls EXCEPT ![r] = llmCalls[r] + 1]
          /\ llmPc' = [llmPc EXCEPT ![r] = "wait"]
          /\ UNCHANGED <<llmSecond, llmTs, llmCount, llmTries, llmQuota, llmSynced, llmSent,
                         llmRecords>>
      BY <2>4 DEF Llm!Embed, Llm!Goes
    <3>2. /\ llmPc' \in [Llm!Requests -> Places] /\ llmPc'[r] = "wait"
          /\ llmCalls' \in [Llm!Requests -> Nat] /\ llmCalls'[r] = llmCalls[r] + 1
      BY <1>1, <3>1
    <3>3. (LlmEach(r))'
      <4>1. /\ llmCalls[r] = 0
            /\ r \notin CheckedChats => Len(llmRecords[r]) = 0
        <5>1. LlmEach(r) /\ Len(llmRecords[r]) \in Nat
          BY <1>1
        <5> QED
          BY <3>1, <5>1 DEF LlmEach
      <4> QED
        BY <3>1, <3>2, <4>1 DEF LlmEach
    <3>4. llmSent' = (Llm!CountNow)'
      BY <1>1, <3>1 DEF Llm!CountNow
    <3>5. \A q \in Llm!Requests \ {r} :
              /\ llmPc'[q] = llmPc[q] /\ llmRecords'[q] = llmRecords[q]
              /\ llmCalls'[q] = llmCalls[q] /\ llmTries'[q] = llmTries[q]
      BY <1>1, <3>1
    <3> QED
      BY <1>0, <1>1, <3>1, <3>2, <3>3, <3>4, <3>5, LlmOneStep
  <2>5. CASE Llm!Answered(r)
    <3>1. /\ llmPc[r] = "wait" /\ llmQuota' = llmQuota - 1
          /\ UNCHANGED <<llmSecond, llmTs, llmCount, llmTries, llmSynced, llmSent, llmCalls>>
      BY <2>5 DEF Llm!Answered
    <3>2. llmSent' = (Llm!CountNow)' /\ llmQuota' \in Int
      BY <1>1, <3>1 DEF Llm!CountNow
    <3>3. CASE Llm!Goes(r, "sync") /\ UNCHANGED llmRecords
      <4>1. llmPc' \in [Llm!Requests -> Places] /\ llmPc'[r] = "sync"
            /\ \A q \in Llm!Requests \ {r} : llmPc'[q] = llmPc[q]
        BY <1>1, <3>3 DEF Llm!Goes
      <4>2. (LlmEach(r))'
        BY <1>1, <3>1, <3>3, <4>1 DEF LlmEach
      <4> QED
        BY <1>0, <1>1, <3>1, <3>2, <3>3, <4>1, <4>2, LlmOneStep
    <3>4. ASSUME NEW ok \in BOOLEAN, Llm!Accept(r, ok) PROVE LlmInv'
      <4>1. (LlmEach(r))'
        <5>1. /\ llmPc'[r] \in {"done", "pause"}
              /\ r \notin CheckedChats =>
                   llmPc'[r] = "done" /\ Len(llmRecords'[r]) = Len(llmRecords[r]) + 1
          BY <3>1, <3>4, LlmAccepts
        <5>2. LlmEach(r) /\ llmCalls'[r] = llmCalls[r] /\ llmTries'[r] = llmTries[r]
          BY <1>1, <3>1
        <5> QED
          BY <3>1, <5>1, <5>2 DEF LlmEach
      <4> QED
        BY <1>0, <1>1, <3>1, <3>2, <3>4, <4>1, LlmAccepts, LlmOneStep DEF OthersKept
    <3> QED
      BY <2>5, <3>3, <3>4 DEF Llm!Answered
  <2>6. CASE Llm!Synced(r)
    <3>1. /\ llmPc[r] = "sync" /\ llmQuota' \in Int /\ llmSynced' \in BOOLEAN
          /\ UNCHANGED <<llmSecond, llmTs, llmCount, llmTries, llmSent, llmCalls>>
      <4>1. \/ llmQuota' \in {-1, 0} /\ llmSynced' = TRUE
            \/ UNCHANGED <<llmQuota, llmSynced>>
        BY <2>6 DEF Llm!Synced
      <4>2. llmQuota' \in Int /\ llmSynced' \in BOOLEAN
        <5>1. \A n \in {-1, 0} : n \in Int
          OBVIOUS
        <5> QED
          BY <1>1, <4>1, <5>1
      <4> QED
        BY <2>6, <4>2 DEF Llm!Synced
    <3>2. PICK ok \in BOOLEAN : Llm!Accept(r, ok)
      BY <2>6 DEF Llm!Synced
    <3>3. (LlmEach(r))'
      <4>1. /\ llmPc'[r] \in {"done", "pause"}
            /\ r \notin CheckedChats =>
                 llmPc'[r] = "done" /\ Len(llmRecords'[r]) = Len(llmRecords[r]) + 1
        BY <3>1, <3>2, LlmAccepts
      <4>2. LlmEach(r) /\ llmCalls'[r] = llmCalls[r] /\ llmTries'[r] = llmTries[r]
        BY <1>1, <3>1
      <4> QED
        BY <3>1, <4>1, <4>2 DEF LlmEach
    <3>4. llmSent' = (Llm!CountNow)'
      BY <1>1, <3>1 DEF Llm!CountNow
    <3> QED
      BY <1>0, <1>1, <3>1, <3>2, <3>3, <3>4, LlmAccepts, LlmOneStep DEF OthersKept
  <2>7. CASE Llm!Fails(r)
    <3>1. /\ llmPc[r] = "wait"
          /\ llmRecords' = [llmRecords EXCEPT ![r] = Append(llmRecords[r], FALSE)]
          /\ UNCHANGED <<llmSecond, llmTs, llmCount, llmTries, llmQuota, llmSynced, llmSent, llmCalls>>
      BY <2>7 DEF Llm!Fails, Llm!Records
    <3>2. PICK to \in {"pause", "failed"} : llmPc' = [llmPc EXCEPT ![r] = to]
      BY <2>7 DEF Llm!Fails, Llm!Goes
    <3>3. /\ Append(llmRecords[r], FALSE) \in Seq(BOOLEAN)
          /\ Len(Append(llmRecords[r], FALSE)) = Len(llmRecords[r]) + 1
      BY <1>1, RecordsMore
    <3>4. /\ llmRecords' \in [Llm!Requests -> Seq(BOOLEAN)]
          /\ Len(llmRecords'[r]) = Len(llmRecords[r]) + 1
          /\ llmPc' \in [Llm!Requests -> Places] /\ llmPc'[r] = to
          /\ \A q \in Llm!Requests \ {r} : llmPc'[q] = llmPc[q] /\ llmRecords'[q] = llmRecords[q]
      BY <1>1, <3>1, <3>2, <3>3 DEF Llm!Over
    <3>5. (LlmEach(r))' /\ llmSent' = (Llm!CountNow)'
      BY <1>1, <3>1, <3>4 DEF LlmEach, Llm!CountNow
    <3> QED
      BY <1>0, <1>1, <3>1, <3>4, <3>5, LlmOneStep
  <2>8. CASE Llm!Resumes(r) \/ Llm!Cancel(r)
    <3>1. UNCHANGED <<llmSecond, llmTs, llmCount, llmTries, llmQuota, llmSynced, llmSent,
                      llmCalls, llmRecords>>
      BY <2>8 DEF Llm!Resumes, Llm!Cancel
    <3>2. PICK to \in {"next", "failed", "cancelled"} :
              /\ llmPc' = [llmPc EXCEPT ![r] = to]
              /\ to = "cancelled" \/ llmPc[r] = "pause"
              /\ to = "cancelled" => r \in TimedChats
      BY <2>8 DEF Llm!Resumes, Llm!Cancel, Llm!Goes
    <3>3. /\ llmPc' \in [Llm!Requests -> Places] /\ llmPc'[r] = to
          /\ \A q \in Llm!Requests \ {r} : llmPc'[q] = llmPc[q]
      BY <1>1, <3>2 DEF Llm!Over
    <3>4. (LlmEach(r))' /\ llmSent' = (Llm!CountNow)'
      BY <1>1, <3>1, <3>2, <3>3 DEF LlmEach, Llm!CountNow
    <3> QED
      BY <1>0, <1>1, <3>1, <3>3, <3>4, LlmOneStep
  <2> QED
    BY <1>4, <2>1, <2>2, <2>3, <2>4, <2>5, <2>6, <2>7, <2>8 DEF Llm!Works
<1> QED
  BY <1>2, <1>3, <1>4 DEF Llm!Next

\* The requests of one second stay under the limit of the provider; until the quota is
\* read from it, it is short of one price for each call that succeeded, however the
\* requests overlap; and every call leaves its record: for any requests, any number of
\* models a chat may try and any limit (check_qps_limit, aupdate_quota and record of
\* llm/__init__.py and api_provider.py).
THEOREM RequestsAlwaysCharged == SceneSpec => []RequestsAreCharged
<1> DEFINE SInv == scene = "Llm" => LlmInv
<1>1. SceneInit => SInv
  BY LlmBegins DEF SceneInit
<1>2. SInv /\ [SceneNext]_sceneVars => SInv'
  <2> SUFFICES ASSUME SInv, [SceneNext]_sceneVars PROVE SInv'
    OBVIOUS
  <2>1. scene' = scene /\ (scene = "Llm" => [Llm!Next]_llmVars)
    BY DEF SceneNext, sceneVars
  <2> QED
    BY <2>1, LlmSteps
<1>3. LlmInv => Llm!TypeOK /\ Llm!RateKept /\ Llm!ChargesAddUp /\ Llm!RecordedOnce
  <2> SUFFICES ASSUME LlmInv
               PROVE  Llm!TypeOK /\ Llm!RateKept /\ Llm!ChargesAddUp /\ Llm!RecordedOnce
    OBVIOUS
  <2>1. Llm!TypeOK /\ Llm!RateKept
    BY DEF LlmInv
  <2>2. Llm!ChargesAddUp
    BY LlmCounts DEF LlmInv, Llm!ChargesAddUp
  <2>3. Llm!RecordedOnce
    BY DEF LlmInv, Llm!RecordedOnce
  <2> QED
    BY <2>1, <2>2, <2>3
<1>4. SInv => RequestsAreCharged
  BY <1>3 DEF RequestsAreCharged
<1> QED
  BY <1>1, <1>2, <1>4, PTL DEF SceneSpec

=============================================================================
