SPECIFICATION SceneSpec
INVARIANTS
    WorkIsSound
PROPERTIES
    WorkEnds
CHECK_DEADLOCK FALSE
