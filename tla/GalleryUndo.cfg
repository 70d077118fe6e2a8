SPECIFICATION Spec
CONSTANTS
    Galls = {g1, g2}
    Aliases = {}
    Looks = {x, y}
    Uploads = {u1, u2}
    NoUpload = NoUpload
    Images = 1
    MaxInFlight = 2
    MaxCommands = 1
    Admitted = {"undo"}
PROPERTIES
    UndoRemovesOwn
CHECK_DEADLOCK FALSE
