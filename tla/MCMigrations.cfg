SPECIFICATION Spec
CONSTANTS
    Pods = {p1}
    Script = script
    MaxCrashes = 1
INVARIANTS TypeOK MarkedInOrder ServedIsWhole
PROPERTY ServesUnlessTorn
