SPECIFICATION FairSpec
CONSTANTS
    Sizes = {pal, ntsc}
    Rows = 2
    MaxFrames = 3
INVARIANTS
    NumberNotAhead
PROPERTIES
    ImplementsRegister
    FrameRendered
