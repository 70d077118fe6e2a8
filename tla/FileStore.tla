------------------------------ MODULE FileStore ------------------------------
(***************************************************************************)
(* A JSON file kept by the bot (FileDB of src/src/core/store.py) or by the *)
(* autochat service (FileDB of src/services/autochat/utils.py).  Every set *)
(* and delete writes the whole file: a temporary file first, which the bot *)
(* flushes to the disk and the service does not, and then a rename.  The   *)
(* process may be stopped between any two steps, and the machine may lose  *)
(* power: what it then finds is what had reached the disk.  A file that    *)
(* cannot be read counts as empty.                                         *)
(***************************************************************************)
EXTENDS Naturals, TLAPS

CONSTANTS
    Keys,
    Values,
    NoValue,
    Synced,         \* the temporary file is flushed before the rename
    MaxLosses       \* bound: failures of power

ASSUME FileStoreAssumption ==
    /\ NoValue \notin Values
    /\ Synced \in BOOLEAN
    /\ MaxLosses \in Nat

Contents == [Keys -> Values \cup {NoValue}]
Empty == [k \in Keys |-> NoValue]
NoFile == [exists |-> FALSE, whole |-> FALSE, text |-> Empty]
Torn == [exists |-> TRUE, whole |-> FALSE, text |-> Empty]
Holding(c) == [exists |-> TRUE, whole |-> TRUE, text |-> c]
Files == [exists : BOOLEAN, whole : BOOLEAN, text : Contents]

VARIABLES
    data,           \* self.data
    loaded,         \* self.loaded
    pc,             \* "idle", "write", "sync" or "replace": where save is
    tmp,            \* the temporary file
    file,           \* the file as processes see it
    onDisk,         \* the files a loss of power may leave behind
    losses

vars == <<data, loaded, pc, tmp, file, onDisk, losses>>

Init ==
    /\ data = Empty
    /\ loaded = FALSE
    /\ pc = "idle"
    /\ tmp = NoFile /\ file = NoFile /\ onDisk = {NoFile}
    /\ losses = 0

\* What json.load makes of a file; one that is missing or broken is empty.
Read(f) == IF f.exists /\ f.whole THEN f.text ELSE Empty

\* The first operation on the file reads it.
Load ==
    /\ ~loaded
    /\ loaded' = TRUE
    /\ data' = Read(file)
    /\ UNCHANGED <<pc, tmp, file, onDisk, losses>>

\* Faulty variant: the file is not read first.
ChangeUnloaded(k, v) ==
    /\ pc = "idle"
    /\ v = NoValue => data[k] # NoValue
    /\ data' = [data EXCEPT ![k] = v]
    /\ pc' = "write"
    /\ UNCHANGED <<loaded, tmp, file, onDisk, losses>>

\* set puts the value into the data and saves it all; delete of a key that is
\* there does the same, and of one that is not nothing.
Change(k, v) ==
    /\ loaded /\ pc = "idle"
    /\ v = NoValue => data[k] # NoValue
    /\ data' = [data EXCEPT ![k] = v]
    /\ pc' = "write"
    /\ UNCHANGED <<loaded, tmp, file, onDisk, losses>>

\* Faulty variant: the file itself is opened.
OpenInPlace ==
    /\ pc = "write" /\ tmp # Torn
    /\ tmp' = Torn /\ file' = Torn
    /\ UNCHANGED <<data, loaded, pc, onDisk, losses>>

\* The temporary file is opened, which empties it, and then written.
Open ==
    /\ pc = "write" /\ tmp # Torn
    /\ tmp' = Torn
    /\ UNCHANGED <<data, loaded, pc, file, onDisk, losses>>

Write ==
    /\ pc = "write" /\ tmp = Torn
    /\ tmp' = Holding(data)
    /\ pc' = IF Synced THEN "sync" ELSE "replace"
    /\ UNCHANGED <<data, loaded, file, onDisk, losses>>

Sync ==
    /\ pc = "sync"
    /\ pc' = "replace"
    /\ UNCHANGED <<data, loaded, tmp, file, onDisk, losses>>

\* The rename is atomic and reaches the disk some time later; text that was
\* not flushed may reach it later still.
Replace ==
    /\ pc = "replace"
    /\ file' = tmp /\ tmp' = NoFile
    /\ onDisk' = onDisk \cup {tmp} \cup (IF Synced THEN {} ELSE {Torn})
    /\ pc' = "idle"
    /\ UNCHANGED <<data, loaded, losses>>

\* A value that cannot be written as JSON, or a full disk: set raises, and the
\* data keeps what it was given.
SaveFails ==
    /\ pc \in {"write", "sync"}
    /\ pc' = "idle"
    /\ UNCHANGED <<data, loaded, tmp, file, onDisk, losses>>

\* The operating system writes what it holds back.
Flush ==
    /\ onDisk # {file}
    /\ onDisk' = {file}
    /\ UNCHANGED <<data, loaded, pc, tmp, file, losses>>

Forget == loaded' = FALSE /\ data' = Empty /\ pc' = "idle"

\* The process is stopped and started again: the files stay as they are.
Restart ==
    /\ loaded
    /\ Forget
    /\ UNCHANGED <<tmp, file, onDisk, losses>>

PowerLoss ==
    /\ losses < MaxLosses
    /\ losses' = losses + 1
    /\ file' \in onDisk
    /\ onDisk' = {file'}
    /\ tmp' \in {NoFile, Torn, tmp}
    /\ Forget

Next ==
    \/ Load \/ Open \/ Write \/ Sync \/ Replace \/ SaveFails
    \/ Flush \/ Restart \/ PowerLoss
    \/ \E k \in Keys, v \in Values \cup {NoValue} : Change(k, v)

Spec == Init /\ [][Next]_vars

-----------------------------------------------------------------------------

\* Contents and files have their types, and only loaded data is saved.
TypeOK ==
    /\ data \in Contents
    /\ loaded \in BOOLEAN
    /\ pc \in {"idle", "write", "sync", "replace"}
    /\ pc # "idle" => loaded
    /\ tmp \in Files /\ file \in onDisk /\ onDisk \subseteq Files
    /\ losses \in 0 .. MaxLosses

\* A file that is there can be read, whatever step the process was stopped in
\* and whatever a loss of power left of it (the promise of FileDB, store.py:31):
\* otherwise the next set would save the empty map it was taken for.
NeverTorn == file.exists => file.whole

\* Whatever step the process stops in, and whatever a loss of power leaves of the
\* files, a file that is there can be read (the promise of FileDB).
FilesAreWhole == TypeOK /\ NeverTorn

\* The file is a KeptMap: no stop, failure or loss of power mixes two saves,
\* drops keys, or loses a save that a restart had found.
Kept ==
    INSTANCE KeptMap WITH
        Values <- Values \cup {NoValue},
        wanted <- IF loaded THEN data ELSE Read(file),
        saved <- Read(file),
        past <- {Read(f) : f \in onDisk}
ImplementsKeptMap == Kept!Spec

-----------------------------------------------------------------------------
(* Proofs, for any keys, values and number of failures of power.           *)

Whole(f) == f.exists => f.whole

\* What is renamed is the text that was written and what flushed files hold.
WholeInv ==
    /\ TypeOK
    /\ pc \in {"sync", "replace"} => tmp = Holding(data)
    /\ Synced => \A f \in onDisk : Whole(f)
    /\ losses = 0 => Whole(file)

LEMMA FilesAreTyped ==
    /\ Empty \in Contents
    /\ NoFile \in Files /\ Torn \in Files
    /\ \A c \in Contents : Holding(c) \in Files /\ Whole(Holding(c)) /\ Read(Holding(c)) = c
    /\ \A f \in Files : Read(f) \in Contents
    /\ Whole(NoFile) /\ Read(NoFile) = Empty
  BY DEF Empty, Contents, NoFile, Torn, Holding, Files, Read, Whole

LEMMA InitIsWhole == Init => WholeInv
<1> SUFFICES ASSUME Init PROVE WholeInv
  OBVIOUS
<1>1. tmp \in Files /\ file \in onDisk /\ onDisk \subseteq Files
  BY FilesAreTyped DEF Init
<1>2. \A f \in onDisk : Whole(f)
  BY FilesAreTyped DEF Init
<1>3. losses \in 0 .. MaxLosses
  BY FileStoreAssumption DEF Init
<1>4. data \in Contents /\ ~ loaded /\ pc = "idle"
  BY FilesAreTyped DEF Init
<1> QED
  BY <1>1, <1>2, <1>3, <1>4 DEF WholeInv, TypeOK, Init

LEMMA StepIsWhole == WholeInv /\ [Next]_vars => WholeInv'
<1> SUFFICES ASSUME WholeInv, [Next]_vars PROVE WholeInv'
  OBVIOUS
<1> USE FileStoreAssumption DEF WholeInv, TypeOK
<1>1. CASE Load
  <2>1. file \in Files
    OBVIOUS
  <2> QED
    BY <1>1, <2>1, FilesAreTyped DEF Load
<1>2. ASSUME NEW k \in Keys, NEW v \in Values \cup {NoValue}, Change(k, v) PROVE WholeInv'
  <2>1. data' \in Contents
    BY <1>2 DEF Change, Contents
  <2> QED
    BY <1>2, <2>1 DEF Change
<1>3. CASE Open
  BY <1>3, FilesAreTyped DEF Open
<1>4. CASE Write
  BY <1>4, FilesAreTyped DEF Write
<1>5. CASE Sync \/ SaveFails
  BY <1>5 DEF Sync, SaveFails
<1>6. CASE Replace
  <2>1. Whole(tmp) /\ tmp \in Files
    BY <1>6, FilesAreTyped DEF Replace
  <2> QED
    BY <1>6, <2>1, FilesAreTyped DEF Replace
<1>7. CASE Flush
  BY <1>7 DEF Flush
<1>8. CASE Restart
  BY <1>8, FilesAreTyped DEF Restart, Forget
<1>9. CASE PowerLoss
  <2>1. losses' \in 0 .. MaxLosses /\ losses' # 0
    BY <1>9 DEF PowerLoss
  <2>2. file' \in onDisk' /\ onDisk' = {file'} /\ onDisk' \subseteq onDisk
    BY <1>9 DEF PowerLoss
  <2>3. tmp' \in Files
    BY <1>9, FilesAreTyped DEF PowerLoss
  <2>4. ~ loaded' /\ loaded' \in BOOLEAN /\ pc' = "idle" /\ data' \in Contents
    BY <1>9, FilesAreTyped DEF PowerLoss, Forget
  <2>5. TypeOK'
    BY <2>1, <2>2, <2>3, <2>4
  <2>6. Synced => \A f \in onDisk' : Whole(f)
    BY <2>2
  <2> QED
    BY <2>1, <2>4, <2>5, <2>6
<1>10. CASE UNCHANGED vars
  BY <1>10 DEF vars
<1> QED
  BY <1>1, <1>2, <1>3, <1>4, <1>5, <1>6, <1>7, <1>8, <1>9, <1>10 DEF Next

LEMMA AlwaysWholeInv == Spec => []WholeInv
  BY InitIsWhole, StepIsWhole, PTL DEF Spec

\* A file of the bot, which flushes what it renames, can be read after any stop
\* and any loss of power.
THEOREM FilesAlwaysWhole ==
    ASSUME Synced
    PROVE  Spec => []FilesAreWhole
<1>1. WholeInv => FilesAreWhole
  BY DEF WholeInv, TypeOK, FilesAreWhole, NeverTorn, Whole
<1> QED
  BY <1>1, AlwaysWholeInv, PTL

\* A file of the autochat service, which does not, can be read as long as the
\* power stays.
THEOREM TornByPowerLossOnly == Spec => [](losses = 0 => NeverTorn)
<1>1. WholeInv => (losses = 0 => NeverTorn)
  BY DEF WholeInv, NeverTorn, Whole
<1> QED
  BY <1>1, AlwaysWholeInv, PTL

\* Each step of a file of the bot is one of the map it keeps, or none.
LEMMA StepKeepsMap ==
    ASSUME Synced
    PROVE  WholeInv /\ [Next]_vars => [Kept!Next]_Kept!vars
<1> SUFFICES ASSUME WholeInv, [Next]_vars PROVE [Kept!Next]_Kept!vars
  OBVIOUS
<1> DEFINE wanted == IF loaded THEN data ELSE Read(file)
           past == {Read(f) : f \in onDisk}
<1> USE DEF WholeInv, TypeOK
<1>1. CASE Load
  BY <1>1 DEF Load, Kept!vars
<1>2. ASSUME NEW k \in Keys, NEW v \in Values \cup {NoValue}, Change(k, v)
      PROVE  Kept!Change(k, v)
  BY <1>2 DEF Change, Kept!Change
<1>3. CASE Open \/ Write \/ Sync \/ SaveFails
  BY <1>3 DEF Open, Write, Sync, SaveFails, Kept!vars
<1>4. CASE Replace
  <2>1. loaded /\ loaded' /\ tmp = Holding(data) /\ data' = data
    BY <1>4 DEF Replace
  <2>2. Read(file') = data /\ onDisk' = onDisk \cup {file'}
    BY <1>4, <2>1, FilesAreTyped DEF Replace
  <2>3. past' = past \cup {data}
    BY <2>2
  <2> QED
    BY <2>1, <2>2, <2>3 DEF Kept!Next, Kept!Save
<1>5. CASE Flush
  BY <1>5 DEF Flush, Kept!Next, Kept!Flush
<1>6. CASE Restart
  BY <1>6 DEF Restart, Forget, Kept!Next, Kept!Restart
<1>7. CASE PowerLoss
  <2>1. ~ loaded' /\ file' \in onDisk /\ onDisk' = {file'}
    BY <1>7 DEF PowerLoss, Forget
  <2>2. Read(file') \in past /\ past' = {Read(file')}
    BY <2>1
  <2> QED
    BY <2>1, <2>2 DEF Kept!Next, Kept!PowerLoss
<1>8. CASE UNCHANGED vars
  BY <1>8 DEF vars, Kept!vars
<1> QED
  BY <1>1, <1>2, <1>3, <1>4, <1>5, <1>6, <1>7, <1>8 DEF Next, Kept!Next

\* A file of the bot is a KeptMap: no stop, failure or loss of power mixes two
\* saves, drops keys, or loses a save that a restart had found.
THEOREM KeptMapImplemented ==
    ASSUME Synced
    PROVE  Spec => ImplementsKeptMap
<1>1. Init => Kept!Init
  <2> SUFFICES ASSUME Init PROVE Kept!Init
    OBVIOUS
  <2>1. Read(file) = Empty /\ onDisk = {file} /\ ~ loaded /\ Empty \in Contents
    BY FilesAreTyped DEF Init
  <2> QED
    BY <2>1 DEF Kept!Init, Kept!Maps, Contents
<1>2. WholeInv /\ [Next]_vars => [Kept!Next]_Kept!vars
  BY StepKeepsMap
<1> QED
  BY <1>1, <1>2, AlwaysWholeInv, PTL DEF Spec, ImplementsKeptMap, Kept!Spec

=============================================================================
