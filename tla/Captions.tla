-------------------------------- MODULE Captions --------------------------------
(***************************************************************************)
(* The captions of pictures in chats (get_image_caption and                *)
(* get_forward_msg_text of src/src/chat/__init__.py).  A model describes a *)
(* picture once, and what it says is kept in a file under the picture's    *)
(* name; a list of the names, in the same file, tells which caption is to  *)
(* go when there are too many.  Caption and list are saved one after the   *)
(* other, and several tasks may have asked about one picture.              *)
(***************************************************************************)
EXTENDS Naturals, Sequences, FiniteSets

CONSTANTS
    Tasks,          \* tasks that put a message into words
    Pictures,       \* the pictures that have a name, file_unique
    Plain,          \* a picture without a name or an address, or a sticker
    Forwards,       \* forwarded messages: sequences of pictures
    Limit,          \* image_caption.limit
    MaxListed,      \* bound: names ever put into the list
    MaxRestarts     \* bound: restarts that are explored

\* What the constants are taken to be.
CaptionsAssumption ==
    /\ Plain \notin Pictures
    /\ Forwards \subseteq Seq(Pictures \cup {Plain})
    /\ {Limit, MaxListed, MaxRestarts} \subseteq Nat

VARIABLES
    stored,         \* the pictures whose caption is in image_caption_db
    listed,         \* its entry "keys"
    at,             \* at[t]: where the task is
    left,           \* left[t]: the pictures still to be put into words
    saving,         \* the picture whose caption is being saved, or Plain
    told,           \* history: how often a name was put into the list
    restarts

vars == <<stored, listed, at, left, saving, told, restarts>>

\* The invariant on types: what each variable may hold.
TypeOK ==
    /\ stored \subseteq Pictures
    /\ listed \in Seq(Pictures) /\ Len(listed) <= Limit + 1
    /\ at \in [Tasks -> {"idle", "fetching", "wording", "asking", "saving"}]
    /\ \A t \in Tasks : left[t] \in Seq(Pictures \cup {Plain})
    /\ saving \in Pictures \cup {Plain}
    /\ told \in 0..MaxListed
    /\ restarts \in 0..MaxRestarts

Init ==
    /\ stored = {}
    /\ listed = <<>>
    /\ at = [t \in Tasks |-> "idle"]
    /\ left = [t \in Tasks |-> <<>>]
    /\ saving = Plain
    /\ told = 0 /\ restarts = 0

\* A save of both goes on without a pause; nothing else runs before it is done.
Loop == saving = Plain

Goes(t, where) == at' = [at EXCEPT ![t] = where]
NextPicture(t) == left' = [left EXCEPT ![t] = Tail(left[t])]

\* A message that holds a forwarded one, or a replied one that does, is put into words.
Begin(t) ==
    /\ Loop /\ at[t] = "idle"
    /\ Goes(t, "fetching")
    /\ UNCHANGED <<stored, listed, left, saving, told, restarts>>

\* Its contents arrive, those of forwarded messages inside it among them; or they do
\* not, and the task is over.
Fetch(t) ==
    /\ Loop /\ at[t] = "fetching"
    /\ \/ \E f \in Forwards : left' = [left EXCEPT ![t] = f] /\ Goes(t, "wording")
       \/ Goes(t, "idle") /\ UNCHANGED left
    /\ UNCHANGED <<stored, listed, saving, told, restarts>>

\* The next picture has a caption, or can have none, and the text goes on.
Word(t) ==
    /\ Loop /\ at[t] = "wording"
    /\ left[t] # <<>>
    /\ Head(left[t]) \in stored \cup {Plain}
    /\ NextPicture(t)
    /\ UNCHANGED <<stored, listed, at, saving, told, restarts>>

\* The next picture is downloaded and shown to the model.
Ask(t) ==
    /\ Loop /\ at[t] = "wording"
    /\ left[t] # <<>>
    /\ Head(left[t]) \in Pictures \ stored
    /\ Goes(t, "asking")
    /\ UNCHANGED <<stored, listed, left, saving, told, restarts>>

\* The download, the model or the empty caption fails: the text goes on without it.
Fail(t) ==
    /\ Loop /\ at[t] = "asking"
    /\ Goes(t, "wording") /\ NextPicture(t)
    /\ UNCHANGED <<stored, listed, saving, told, restarts>>

\* The model has answered: its caption is put into the file.
Store(t) ==
    /\ Loop /\ at[t] = "asking" /\ told < MaxListed
    /\ stored' = stored \cup {Head(left[t])}
    /\ saving' = Head(left[t])
    /\ told' = told + 1
    /\ Goes(t, "saving")
    /\ UNCHANGED <<listed, left, restarts>>

\* Faulty variant: what is too much is seen before the name is put into the list.
TooManyBefore == Len(listed) - Limit

\* The name is put at the end of the list, and what is too much is taken from its
\* front with its caption.
TooMany == Len(listed) + 1 - Limit
Evicted == {Append(listed, saving)[n] : n \in 1..TooMany}
ListedNow == SubSeq(Append(listed, saving), 1 + TooMany, Limit + TooMany)

\* The list after the name was put into it.
Kept == IF TooMany > 0 THEN ListedNow ELSE Append(listed, saving)

\* The list is saved, after the captions that went; the text goes on.
List(t) ==
    /\ at[t] = "saving"
    /\ listed' = Kept
    /\ stored' = IF TooMany > 0 THEN stored \ Evicted ELSE stored
    /\ saving' = Plain
    /\ Goes(t, "wording") /\ NextPicture(t)
    /\ UNCHANGED <<told, restarts>>

\* The text is done.
End(t) ==
    /\ Loop /\ at[t] = "wording" /\ left[t] = <<>>
    /\ Goes(t, "idle")
    /\ UNCHANGED <<stored, listed, left, saving, told, restarts>>

\* The process is stopped, between the saves too; the file is what was saved last.
Restart ==
    /\ restarts < MaxRestarts
    /\ restarts' = restarts + 1
    /\ at' = [t \in Tasks |-> "idle"]
    /\ left' = [t \in Tasks |-> <<>>]
    /\ saving' = Plain
    /\ UNCHANGED <<stored, listed, told>>

Step(t) ==
    \/ Begin(t) \/ Fetch(t) \/ Word(t) \/ Ask(t)
    \/ Fail(t) \/ Store(t) \/ List(t) \/ End(t)

Next == (\E t \in Tasks : Step(t)) \/ Restart

Spec == Init /\ [][Next]_vars

-------------------------------------------------------------------------------

Names == {listed[n] : n \in DOMAIN listed}

\* However the tasks meet, no more captions stay for good than the limit and one for
\* each time the bot was stopped between the two saves: every other caption is in the
\* list, and goes when its turn comes (__init__.py:110-118).
CaptionsAreListed ==
    saving = Plain => Cardinality(stored \ Names) <= restarts /\ Len(listed) <= Limit

===============================================================================
