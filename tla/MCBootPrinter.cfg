CONSTANTS
    BUFFER_HEIGHT = 3
    BUFFER_WIDTH = 2
    Printable = {"a"}
    Other = {"tab"}
    MaxBytes = 8
    SCREEN_WIDTH = 6
    SCREEN_HEIGHT = 4
    GLYPH = 2
    FrameBufferSize = 38
    MaxMessage = 10
SPECIFICATION ScreenSpec
INVARIANTS
    ScreenShowsTail
    MessageReadable
    PixelsInFrameBuffer
CHECK_DEADLOCK FALSE
