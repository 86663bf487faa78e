SPECIFICATION Spec
CONSTANTS
    NULL = NULL
    Formats = {small, large}
    Devices = {a, b}
    Threads = {t1, t2}
    RetryFrames = 2
    MaxChanges = 2
INVARIANTS DeviceIsCurrent DenialStands
PROPERTIES CameraComesBack
