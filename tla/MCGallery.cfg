SPECIFICATION SceneSpec
CONSTANTS
    Galls = {g1, g2}
    Aliases = {a, g1, g2}
    Looks = {x}
    Looks2 = {x, y}
    Uploads = {u1, u2}
    Uploads3 = {u1, u2, u3}
    NoUpload = NoUpload
    Images = 2
    MaxInFlight = 1
    MaxCommands = 2
    Admitted = {"close", "delete", "undo", "replace", "reload", "drop", "copyfail", "crash"}
SYMMETRY Symmetry
INVARIANTS
    PidsAreUnique
    PicturesAreSound
    NamesAreSound
PROPERTIES
    UndoesOwnInTurn
    CheckedUploadIsNew
CHECK_DEADLOCK FALSE
