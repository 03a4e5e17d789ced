CONSTANTS
    F1 = F1
    w = w
    small = small
    large = large
    Minimised = Minimised
    Moves = {w}
    Size = {small, large}
    FirstSize = small
    Position <- Still
    MaxNested = 2
SPECIFICATION Spec
INVARIANTS NoWaitInCallback
