SPECIFICATION Spec
CONSTANTS
    Pods = {p1}
    Script = script
    MaxCrashes = 0
INVARIANT AppliedIsPresent
