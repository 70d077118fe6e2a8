------------------------------ MODULE MCGallery ------------------------------
(***************************************************************************)
(* Four instances of Gallery over the same variables, one of which runs:   *)
(* one handler at a time, whose constants MCGallery.cfg gives; handlers    *)
(* between whose awaits galleries and pictures change; the names of        *)
(* galleries and the turns taken on them; and uploads whose duplicate      *)
(* check has to stay valid.  What GalleryProofs proves of Gallery is       *)
(* proved of the instances below.  Titles is an instance of Gallery itself *)
(* because TLC evaluates the constant definitions of a module that is      *)
(* instantiated nowhere, such as NewUp, once for all instances.            *)
(***************************************************************************)
EXTENDS GalleryProofs, TLC

CONSTANTS
    Looks2,         \* what two pictures look like
    Uploads3        \* three upload commands

VARIABLES scene     \* the instance that runs

Files == INSTANCE GalleryProofs WITH
    Looks <- Looks2, Images <- 1, MaxInFlight <- 2, MaxCommands <- 3,
    Admitted <- {"open", "close", "delete", "undo", "replace"}
Titles == INSTANCE Gallery WITH
    Uploads <- Uploads3, Images <- 1, MaxInFlight <- 1, MaxCommands <- 3,
    Admitted <- {"open", "close", "alias"}
Turns == INSTANCE GalleryProofs WITH
    Looks <- Looks2, Images <- 2, MaxInFlight <- 2, MaxCommands <- 2,
    Admitted <- {"open", "close"}

ASSUME InstancesAreSound ==
    Files!GalleryAssumption /\ Titles!GalleryAssumption /\ Turns!GalleryAssumption

SceneInit ==
    \/ scene = "serial" /\ Init
    \/ scene = "files"  /\ Files!Init
    \/ scene = "titles" /\ Titles!Init
    \/ scene = "turns"  /\ Turns!Init
SceneNext ==
    /\ \/ scene = "serial" /\ Next
       \/ scene = "files"  /\ Files!Next
       \/ scene = "titles" /\ Titles!Next
       \/ scene = "turns"  /\ Turns!Next
    /\ UNCHANGED scene
SceneSpec == SceneInit /\ [][SceneNext]_<<scene, vars>>

Symmetry == Permutations(Galls) \cup Permutations(Uploads3) \cup Permutations(Looks2)

------------------------------------------------------------------------------

\* No two pictures have one pid, in memory or on the disk, whatever is deleted,
\* undone, reloaded or lost in a crash (GalleryManager.pid_top).
PidsAreUnique == scene = "serial" => TypeOK /\ UniquePids

\* A user's undo removes pictures of that user's last upload and no others
\* (revert_user_last_add_history), while one handler runs at a time.
UndoesOwnInTurn == [][scene = "serial" => UndoneIsOwn]_vars

\* While two handlers wait, and galleries are closed and opened below them, every
\* picture keeps its file, no file is of two pictures, and what is not saved yet
\* is in the hands of a handler that saves it.
PicturesAreSound == scene = "files" =>
    Files!FilesExist /\ Files!OneRecordPerFile /\ Files!UnsavedOnlyInFlight

\* A picture is added only when nothing in its gallery is the same, though the check
\* was made two awaits earlier.
CheckedUploadIsNew == [][scene = "turns" => Turns!AddedIsNew]_vars

------------------------------------------------------------------------------
(* The instance that runs one handler at a time.                             *)

LEMMA SerialMoves ==
    ASSUME scene = "serial"
    PROVE  /\ SceneInit => Init
           /\ [SceneNext]_<<scene, vars>> => [Next]_vars /\ scene' = "serial"
  BY DEF SceneInit, SceneNext

LEMMA SceneStays == [SceneNext]_<<scene, vars>> => scene' = scene
  BY DEF SceneNext

\* With one handler at a time pids are unique and variables typed, for any galleries,
\* uploads and numbers of commands, deletions, reloads and crashes.
THEOREM SerialPidsUnique ==
    ASSUME MaxInFlight = 1
    PROVE  SceneSpec => []PidsAreUnique
<1> DEFINE Inv == scene = "serial" => Typed /\ Bounds /\ PidsInv
<1>1. SceneInit => Inv
  BY SerialMoves, InitIsTyped, InitIsBounded, InitIsDistinct
<1>2. Inv /\ [SceneNext]_<<scene, vars>> => Inv'
  BY SceneStays, SerialMoves, StepIsTyped, StepIsBounded, StepKeepsPids
<1>3. Inv => PidsAreUnique
  BY TypesHold, PidsAreDistinct DEF PidsInv, PidsAreUnique
<1> QED
  BY <1>1, <1>2, <1>3, PTL DEF SceneSpec

\* There, an undo removes pictures of its own upload only.
THEOREM SerialUndoesOwn ==
    ASSUME MaxInFlight = 1
    PROVE  SceneSpec => UndoesOwnInTurn
<1> DEFINE Inv == scene = "serial" => Typed /\ Bounds /\ PidsInv /\ OwnInv
<1>1. SceneInit => Inv
  BY SerialMoves, InitIsTyped, InitIsBounded, InitIsDistinct, InitIsOwn
<1>2. Inv /\ [SceneNext]_<<scene, vars>> => Inv'
  BY SceneStays, SerialMoves, StepIsTyped, StepIsBounded, StepKeepsPids, StepKeepsOwn
<1>3. Inv /\ [SceneNext]_<<scene, vars>> => [scene = "serial" => UndoneIsOwn]_vars
  BY SerialMoves, UndoneHasPid
<1> QED
  BY <1>1, <1>2, <1>3, PTL DEF SceneSpec, UndoesOwnInTurn

------------------------------------------------------------------------------
(* The instance whose handlers change galleries and pictures below each      *)
(* other.                                                                    *)

LEMMA FilesMoves ==
    ASSUME scene = "files"
    PROVE  /\ SceneInit => Files!Init
           /\ [SceneNext]_<<scene, vars>> => [Files!Next]_(Files!vars) /\ scene' = "files"
  BY DEF SceneInit, SceneNext, vars, store, saved, jobs, undo,
         Files!vars, Files!store, Files!saved, Files!jobs, Files!undo

LEMMA FilesUndisturbed == Files!Undisturbed
  BY DEF Files!Undisturbed

\* Whatever is opened, closed, deleted, undone and replaced while handlers wait, every
\* picture has its file, and that file is its own and saved by a handler, for any
\* galleries and uploads.
THEOREM ScenePicturesSound == SceneSpec => []PicturesAreSound
<1> DEFINE Inv == scene = "files" => Files!Typed /\ Files!FilesInv /\ Files!FoundInv
<1>1. SceneInit => Inv
  BY FilesMoves, InstancesAreSound, Files!InitIsTyped, Files!InitIsFiled, Files!InitIsFound
<1>2. Inv /\ [SceneNext]_<<scene, vars>> => Inv'
  BY SceneStays, FilesMoves, InstancesAreSound, FilesUndisturbed, Files!NoneReloads,
     Files!StepIsTyped, Files!StepIsFiled, Files!StepIsFound
<1>3. Inv => PicturesAreSound
  BY InstancesAreSound, FilesUndisturbed, Files!NoneReloads, Files!FilesAreDistinct,
     Files!FilesAreFound DEF PicturesAreSound
<1> QED
  BY <1>1, <1>2, <1>3, PTL DEF SceneSpec

------------------------------------------------------------------------------
(* The instance whose uploads take turns.                                    *)

LEMMA TurnsMoves ==
    ASSUME scene = "turns"
    PROVE  /\ SceneInit => Turns!Init
           /\ [SceneNext]_<<scene, vars>> => [Turns!Next]_(Turns!vars) /\ scene' = "turns"
  BY DEF SceneInit, SceneNext, vars, store, saved, jobs, undo,
         Turns!vars, Turns!store, Turns!saved, Turns!jobs, Turns!undo

LEMMA TurnsUntitled == Turns!Untitled
  BY DEF Turns!Untitled

\* There, what a duplicate check found holds when the picture is added, for any
\* galleries, looks and uploads.
THEOREM SceneCheckHolds == SceneSpec => CheckedUploadIsNew
<1> DEFINE Inv == scene = "turns" => Turns!Typed /\ Turns!NamesInv /\ Turns!TurnInv
<1>1. SceneInit => Inv
  BY TurnsMoves, InstancesAreSound, Turns!InitIsTyped, Turns!InitIsNamed, Turns!InitIsInTurn
<1>2. Inv /\ [SceneNext]_<<scene, vars>> => Inv'
  BY SceneStays, TurnsMoves, InstancesAreSound, TurnsUntitled, Turns!StepIsTyped,
     Turns!StepIsNamed, Turns!StepIsInTurn
<1>3. Inv /\ [SceneNext]_<<scene, vars>> => [scene = "turns" => Turns!AddedIsNew]_vars
  BY TurnsMoves, InstancesAreSound, Turns!CommitIsNew
<1> QED
  BY <1>1, <1>2, <1>3, PTL DEF SceneSpec, CheckedUploadIsNew

==============================================================================
