SPECIFICATION Spec
CONSTANTS
    MaxTokens = 9
    MaxChars = 8
    RawBytes <- Raw
    MaxBytes = 5
    EscapeBytes <- Escape
    Units <- BoundaryUnits
    MaxEscapes = 4
    BufferSize = 15
    NumberChars = {"0", "1", "2", "5", "6", "7", "8", "9", "-", "+", ".", "e", " "}
    MaxText = 5
    Width = 8
    MinExp <- FixedFrom
    MaxExp = 3
    LargestExp = 60
    Precision = 6
    Bias = 20
    MaxE = 40
    Q = 14
    Alpha <- SmallestShift
    Gamma <- LargestShift
    CachedPowers <- RoundedPowers
    CachedPowersDecStep = 2
    Values <- BinaryValues
    ReceivedBytes <- BinaryBytes
    MaxReceived = 3
    MaxCut = 12
    MaxCount = 300
INVARIANTS
    TakesJsonUpToNul
    ForwardsWhatWasRead
    ShortestDigits
    StaysInItsMemory
    BinaryReadsBack
\* every routine ends
CHECK_DEADLOCK FALSE
