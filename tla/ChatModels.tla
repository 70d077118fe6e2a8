------------------------------- MODULE ChatModels -------------------------------
(***************************************************************************)
(* Which model answers in a chat (the model commands of                    *)
(* src/src/chat/__init__.py).  There is a preset for each mode; a          *)
(* superuser, or the user in a private chat, chooses another by its name,  *)
(* with the mode or without it: then for pictures if the model takes them, *)
(* and for text.  What is chosen is kept in a file, for all modes of the   *)
(* chat at once.  A name is a sequence of words here, for the mode is      *)
(* looked for inside what the user types.                                  *)
(***************************************************************************)
EXTENDS Naturals, Sequences

CONSTANTS
    Chats,          \* groups and private chats
    Models,         \* the models there are, [name, mm, image]
    Preset,         \* the model of each mode where none was chosen
    Typed,          \* what users type after the command
    MaxFaults       \* bound: saves that fail

Keywords == <<"text", "mm", "tool", "image">>
Modes == {Keywords[n] : n \in 1..4}

\* What a mode asks of a model.
Fits(model, mode) == (mode = "mm" => model.mm) /\ (mode = "image" => model.image)

\* What the constants are taken to be.
ChatModelsAssumption ==
    /\ Preset \in [Modes -> Models]
    /\ \A mode \in Modes : Fits(Preset[mode], mode)
    /\ \A a, b \in Models : a.name = b.name => a = b
    /\ MaxFaults \in Nat

VARIABLES
    chosen,         \* the chats with an entry, and their models
    saved,          \* the same in the file
    answered,       \* history: the models each chat was last told it has
    faults

vars == <<chosen, saved, answered, faults>>

Own == [Modes -> Models]
Entries == UNION {[c -> Own] : c \in SUBSET Chats}

\* The invariant on types: what each variable may hold.
TypeOK ==
    /\ chosen \in Entries /\ saved \in Entries
    /\ answered \in [Chats -> Own]
    /\ faults \in 0..MaxFaults

Init ==
    /\ chosen = [c \in {} |-> Preset] /\ saved = chosen
    /\ answered = [c \in Chats |-> Preset]
    /\ faults = 0

\* get_model_name: the models of a chat.
ModelsOf(c) == IF c \in DOMAIN chosen THEN chosen[c] ELSE Preset

\* The first mode that is found in what was typed, "none" when there is none.
Has(typed, word) == \E n \in DOMAIN typed : typed[n] = word
ModeOf(typed) ==
    IF \A n \in 1..4 : ~Has(typed, Keywords[n]) THEN "none"
    ELSE Keywords[CHOOSE n \in 1..4 :
             Has(typed, Keywords[n]) /\ \A k \in 1..(n - 1) : ~Has(typed, Keywords[k])]

\* The models with the name that is left when the mode is taken out wherever it is.
IsWithout(name, typed, mode) ==
    LET left == {n \in DOMAIN typed : typed[n] # mode}
    IN  \E at \in [DOMAIN name -> left] :
            /\ \A j, k \in DOMAIN name : j < k => at[j] < at[k]
            /\ \A n \in left : \E j \in DOMAIN name : at[j] = n
            /\ \A j \in DOMAIN name : name[j] = typed[at[j]]
Named(typed, mode) == {m \in Models : IsWithout(m.name, typed, mode)}

\* Faulty variant: the model is not checked against the mode.
UsableFound(typed, mode) == Named(typed, mode)

\* What may be chosen: a model that is found and fits.
Usable(typed, mode) == {m \in Named(typed, mode) : Fits(m, mode)}

\* The entry of a chat starts with all its presets.
With(c, model, modes) ==
    [d \in DOMAIN chosen \cup {c} |->
        IF d = c THEN [mode \in Modes |-> IF mode \in modes THEN model ELSE ModelsOf(c)[mode]]
                 ELSE chosen[d]]

\* The entry is changed and all entries saved.  When the save fails the change stays in
\* memory; the user is shown the error.
Sets(c, model, modes) ==
    /\ chosen' = With(c, model, modes)
    /\ \/ /\ saved' = chosen'
          /\ answered' = [answered EXCEPT ![c] =
                 [mode \in Modes |-> IF mode \in modes THEN model ELSE answered[c][mode]]]
          /\ UNCHANGED faults
       \/ /\ faults < MaxFaults /\ faults' = faults + 1
          /\ UNCHANGED <<saved, answered>>

\* A model for one mode; one that is not found, or does not fit, changes nothing.
Choose(c, typed) ==
    /\ ModeOf(typed) # "none"
    /\ \E model \in Usable(typed, ModeOf(typed)) : Sets(c, model, {ModeOf(typed)})

\* A model alone: for pictures if it takes them, and for text.
ChooseBoth(c, typed) ==
    /\ ModeOf(typed) = "none"
    /\ \E model \in Usable(typed, "text") :
          \/ model \in Usable(typed, "mm") /\ Sets(c, model, {"mm", "text"})
          \/ model \notin Usable(typed, "mm") /\ Sets(c, model, {"text"})

\* The first of its two saves fails and the second does not: both changes are saved,
\* and the user is told of the text alone.
ChooseBothHalf(c, typed) ==
    /\ ModeOf(typed) = "none" /\ faults < MaxFaults
    /\ faults' = faults + 1
    /\ \E model \in Usable(typed, "mm") :
          /\ chosen' = With(c, model, {"mm", "text"})
          /\ answered' = [answered EXCEPT ![c]["text"] = model]
    /\ saved' = chosen'

\* The entry of the chat goes, and its models are the presets again.
Clear(c) ==
    /\ chosen' = [d \in DOMAIN chosen \ {c} |-> chosen[d]]
    /\ saved' = chosen'
    /\ answered' = [answered EXCEPT ![c] = Preset]
    /\ UNCHANGED faults

\* The command without a name: the chat is told its models.
Show(c) ==
    /\ answered' = [answered EXCEPT ![c] = ModelsOf(c)]
    /\ UNCHANGED <<chosen, saved, faults>>

Restart ==
    /\ chosen' = saved
    /\ UNCHANGED <<saved, answered, faults>>

Next ==
    \/ \E c \in Chats :
          \/ \E typed \in Typed : Choose(c, typed) \/ ChooseBoth(c, typed) \/ ChooseBothHalf(c, typed)
          \/ Clear(c) \/ Show(c)
    \/ Restart

Spec == Init /\ [][Next]_vars

-------------------------------------------------------------------------------

\* Whatever was chosen, and whichever save failed, the model for pictures takes pictures
\* and the one for drawing draws (__init__.py:240-270, llm/__init__.py:72-82).
ModelsFit == \A c \in Chats, mode \in Modes : Fits(ModelsOf(c)[mode], mode)

\* A chat has the models it was last told it has, whatever other chats chose, and over a
\* restart; until a save has failed (__init__.py:218-260, 580-611, 632).
ToldModelsAreUsed == faults = 0 => \A c \in Chats : ModelsOf(c) = answered[c]

\* A model whose name holds the word of a mode cannot be chosen for that mode, nor for one
\* that is looked for later: the word is taken out of the name too (__init__.py:580-599).
WordsAreLost == \A c \in DOMAIN chosen : \A n \in 1..4 :
    chosen[c][Keywords[n]] = Preset[Keywords[n]]
    \/ \A k \in 1..n : ~Has(chosen[c][Keywords[n]].name, Keywords[k])

===============================================================================
