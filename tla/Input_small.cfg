CONSTANTS
    F1 = F1
    w = w
    small = small
    large = large
    Minimised = Minimised
    Moves = {w}
    Size = {small, large}
    FirstSize = small
    Position <- Positions
    MaxNested = 2
SPECIFICATION Spec
INVARIANTS TypeOK CameraObeys SizeFollowsWindow
