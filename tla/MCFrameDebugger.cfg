SPECIFICATION Spec
CONSTANTS
    Sizes = {pal, ntsc}
    Rows = 2
    MaxFrames = 2
INVARIANTS
    DebuggerReadsLiveBuffer
