SPECIFICATION Spec
CONSTANTS
    Galls = {g1, g2}
    Aliases = {}
    Looks = {x}
    Uploads = {u1, u2}
    NoUpload = NoUpload
    Images = 1
    MaxInFlight = 1
    MaxCommands = 1
    Admitted = {"reload"}
INVARIANTS
    OneRecordPerFile
CHECK_DEADLOCK FALSE
