SPECIFICATION RecordingSpec
CONSTANTS
    MAX_BUFFERS = 2
    QUEUE_DEPTH = 1
    OutputSizes = {1, 2}
    MaxFrames = 4
    MaxRecordings = 2
PROPERTY StopFinalises
CHECK_DEADLOCK FALSE
