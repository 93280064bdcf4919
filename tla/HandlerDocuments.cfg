SPECIFICATION DocumentsFairSpec
CONSTANTS
    Bytes = {1, 34, 56, 68, 92, 117, 128, 144, 160, 194, 224, 225, 237, 240, 241, 244}
    MaxBytes = 4
    BufferSize = 14
    MaxValues = 6
INVARIANTS
    ForwardedAsItCame
    WithinTheirMemory
    HandledByKind
PROPERTY AllFreed
\* every routine ends
CHECK_DEADLOCK FALSE
