SPECIFICATION Spec
CONSTANTS
    Session = {s1, s2}
    Challenge = {c1}
    Flight = {f1, f2}
    Bucket = {"code"}
    None = None
    Limit = 2
    MaxAttempts = 2
    MaxEras = 3
    MaxSignups = 2
    MaxResets = 1
SYMMETRY MCSymmetry
INVARIANTS ChangesShutOut GuessesAreBounded
PROPERTY NoWayRoundTheCode
