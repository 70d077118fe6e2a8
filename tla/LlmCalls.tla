------------------------------- MODULE LlmCalls -------------------------------
(***************************************************************************)
(* Requests to the models of one API provider (src/src/llm/__init__.py and *)
(* api_provider.py).  A chat tries its models in turn until one answers to *)
(* the satisfaction of its caller; embeddings and speech ask one model     *)
(* once.  The provider is asked only so often in a second, the price of an *)
(* answer is taken off a quota kept in a file, which is now and then read  *)
(* anew from the provider, and every call is recorded for the statistics.  *)
(***************************************************************************)
EXTENDS Integers, Sequences, FiniteSets

CONSTANTS
    Chats,          \* chat requests
    Embeddings,     \* requests for embeddings
    Speeches,       \* requests for speech
    Processed,      \* chats whose caller checks the answer (process_func)
    Timed,          \* chats whose caller gives up after a time of its own
    Models,         \* how many models a chat may try
    Limit,          \* qps_limit
    MaxSecond       \* bound: seconds

Requests == Chats \cup Embeddings \cup Speeches

LlmCallsAssumption ==
    /\ Processed \cup Timed \subseteq Chats
    /\ Chats \cap Embeddings = {} /\ (Chats \cup Embeddings) \cap Speeches = {}
    /\ {Models, Limit, MaxSecond} \subseteq Nat \ {0}

VARIABLES
    second,         \* the clock
    ts, count,      \* cur_query_ts, cur_sec_query_count
    pc,             \* the await each request is in
    tries,          \* models it has tried
    quota,          \* the quota in the file
    synced,         \* it was read from the provider once
    sent,           \* requests sent in this second, embeddings aside
    calls,          \* per request: calls that reached the provider
    records         \* per request: outcomes recorded

vars == <<second, ts, count, pc, tries, quota, synced, sent, calls, records>>

Init ==
    /\ second = 1 /\ ts = 0 /\ count = 0
    /\ pc = [r \in Requests |-> "new"]
    /\ tries = [r \in Requests |-> 0]
    /\ quota = 0 /\ synced = FALSE
    /\ sent = 0
    /\ calls = [r \in Requests |-> 0]
    /\ records = [r \in Requests |-> <<>>]

Tick ==
    /\ second < MaxSecond
    /\ second' = second + 1
    /\ sent' = 0
    /\ UNCHANGED <<ts, count, pc, tries, quota, synced, calls, records>>

Goes(r, to) == pc' = [pc EXCEPT ![r] = to]
Records(r, ok) == records' = [records EXCEPT ![r] = Append(@, ok)]

\* check_qps_limit.  CountNow is the number of this second's requests.
CountNow == IF second > ts THEN 0 ELSE count
\* Faulty variant: the request itself is not counted yet.
MayAskOneMore == CountNow <= Limit

MayAsk == CountNow < Limit

\* The request is sent at once.
Send(r) ==
    /\ ts' = IF second > ts THEN second ELSE ts
    /\ count' = CountNow + 1
    /\ sent' = sent + 1
    /\ calls' = [calls EXCEPT ![r] = @ + 1]
    /\ Goes(r, "wait")
    /\ UNCHANGED <<second, quota, synced, records>>

\* The next model of a chat is found and may be asked.
Try(r) ==
    /\ r \in Chats /\ pc[r] \in {"new", "next"} /\ tries[r] < Models
    /\ tries' = [tries EXCEPT ![r] = @ + 1]
    /\ MayAsk /\ Send(r)

\* Faulty variant: the same model is tried again.
TryFailsAgain(r) ==
    /\ r \in Chats /\ pc[r] \in {"new", "next"} /\ tries[r] < Models
    /\ Goes(r, "pause")
    /\ UNCHANGED <<second, ts, count, tries, quota, synced, sent, calls, records>>

\* No such model, no pictures for it, or too many requests: not recorded.
TryFails(r) ==
    /\ r \in Chats /\ pc[r] \in {"new", "next"} /\ tries[r] < Models
    /\ tries' = [tries EXCEPT ![r] = @ + 1]
    /\ ts' = IF second > ts THEN second ELSE ts
    /\ count' = CountNow
    /\ Goes(r, "pause")
    /\ UNCHANGED <<second, quota, synced, sent, calls, records>>

\* Speech is limited like chats; an embedding is not limited.
Speak(r) ==
    /\ r \in Speeches /\ pc[r] = "new"
    /\ IF MayAsk THEN Send(r)
       ELSE /\ Goes(r, "failed")
            /\ UNCHANGED <<second, ts, count, quota, synced, sent, calls, records>>
    /\ UNCHANGED tries

Embed(r) ==
    /\ r \in Embeddings /\ pc[r] = "new"
    /\ calls' = [calls EXCEPT ![r] = @ + 1]
    /\ Goes(r, "wait")
    /\ UNCHANGED <<second, ts, count, tries, quota, synced, sent, records>>

\* What follows a record of a success: a chat's caller may reject the answer,
\* which counts as a failure and is recorded once more.
Accept(r, ok) ==
    IF ok THEN Records(r, TRUE) /\ Goes(r, "done")
    ELSE /\ r \in Processed
         /\ records' = [records EXCEPT ![r] = @ \o <<TRUE, FALSE>>]
         /\ Goes(r, "pause")

\* Faulty variant: the quota is not charged for a request that is timed.
AnsweredUncharged(r) ==
    /\ pc[r] = "wait"
    /\ quota' = IF r \in Timed THEN quota ELSE quota - 1
    /\ \/ Goes(r, "sync") /\ UNCHANGED records
       \/ \E ok \in BOOLEAN : Accept(r, ok)
    /\ UNCHANGED <<second, ts, count, tries, synced, sent, calls>>

\* An answer: its price is taken off the quota in one go, which may be due to
\* be read from the provider first.
Answered(r) ==
    /\ pc[r] = "wait"
    /\ quota' = quota - 1
    /\ \/ Goes(r, "sync") /\ UNCHANGED records
       \/ \E ok \in BOOLEAN : Accept(r, ok)
    /\ UNCHANGED <<second, ts, count, tries, synced, sent, calls>>

\* sync_quota gave a balance, or nothing, or failed.
Synced(r) ==
    /\ pc[r] = "sync"
    /\ \/ \E balance \in {-1, 0} : quota' = balance /\ synced' = TRUE
       \/ UNCHANGED <<quota, synced>>
    /\ \E ok \in BOOLEAN : Accept(r, ok)
    /\ UNCHANGED <<second, ts, count, tries, sent, calls>>

\* Faulty variant of Fails: the failure of the last model is not recorded.
FailsQuietly(r) ==
    /\ pc[r] = "wait"
    /\ IF tries[r] = Models THEN UNCHANGED records ELSE Records(r, FALSE)
    /\ Goes(r, IF r \in Chats THEN "pause" ELSE "failed")
    /\ UNCHANGED <<second, ts, count, tries, quota, synced, sent, calls>>

\* An error, a time-out, or an answer that makes no sense.
Fails(r) ==
    /\ pc[r] = "wait"
    /\ Records(r, FALSE)
    /\ Goes(r, IF r \in Chats THEN "pause" ELSE "failed")
    /\ UNCHANGED <<second, ts, count, tries, quota, synced, sent, calls>>

\* After a pause the next model is tried, or all have failed.
Resumes(r) ==
    /\ pc[r] = "pause"
    /\ Goes(r, IF tries[r] < Models THEN "next" ELSE "failed")
    /\ UNCHANGED <<second, ts, count, tries, quota, synced, sent, calls, records>>

\* The caller of a translation gives up, in whatever await the chat is.
Cancel(r) ==
    /\ r \in Timed /\ pc[r] \in {"wait", "sync", "pause"}
    /\ Goes(r, "cancelled")
    /\ UNCHANGED <<second, ts, count, tries, quota, synced, sent, calls, records>>

Works(r) ==
    \/ Try(r) \/ TryFails(r) \/ Speak(r) \/ Embed(r)
    \/ Answered(r) \/ Synced(r) \/ Fails(r) \/ Resumes(r)

Next == Tick \/ \E r \in Requests : Works(r) \/ Cancel(r)

\* Chats have a time-out, and the client library ends other requests by itself.
Fairness == \A r \in Requests : WF_vars(Works(r))

Spec == Init /\ [][Next]_vars
FairSpec == Spec /\ Fairness

-----------------------------------------------------------------------------

\* What request r is charged for: its successes by their place in the records, and 0 for
\* the answer whose quota is being read.
Charged(r) ==
    {i \in DOMAIN records[r] : records[r][i]} \cup (IF pc[r] = "sync" THEN {0} ELSE {})
Charges == UNION {{r} \X Charged(r) : r \in Requests}
Over == {"done", "failed", "cancelled"}

\* No more is counted and recorded than was asked.
TypeOK ==
    /\ second \in 1 .. MaxSecond /\ ts \in 0 .. second
    /\ count \in 0 .. Limit /\ sent \in Nat
    /\ pc \in [Requests -> {"new", "wait", "sync", "pause", "next"} \cup Over]
    /\ tries \in [Requests -> 0 .. Models] /\ \A r \in Requests : calls[r] <= Models
    /\ quota \in Int /\ synced \in BOOLEAN
    /\ records \in [Requests -> Seq(BOOLEAN)]

\* No second sees more than Limit chats and speeches, however many handlers
\* ask at the turn of a second and whichever of their models fail
\* (check_qps_limit).
RateKept == sent <= Limit

\* Until the quota is read from the provider, it is short of the first one by
\* the price of every call that succeeded: charges of requests that overlap
\* are not lost (aupdate_quota).
ChargesAddUp ==
    ~synced /\ (\A r \in Timed : pc[r] # "cancelled") => quota = - Cardinality(Charges)

\* The statistics hold one record of each call that reached the provider ("记录一次
\* LLM / embedding / TTS 调用", llm/sql.py:188), once its request is over, unless
\* the caller gave up on it or has its answers checked: an answer that does not
\* pass is recorded as a success and as a failure.
RecordedOnce ==
    \A r \in Requests \ Processed : pc[r] \in {"done", "failed"} => Len(records[r]) = calls[r]

\* Every request comes to an end.
RequestsEnd == <>(\A r \in Requests : pc[r] \in Over)

=============================================================================
