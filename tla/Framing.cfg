SPECIFICATION Spec
CONSTANTS
    MaxFrames = 2
    MaxRequests = 2
    MaxLen = 2
    MaxUnread = 2
INVARIANTS FramesInOrder AckedIsAnswered HalfFrameIsLast
PROPERTY CallsReturn
CHECK_DEADLOCK FALSE
