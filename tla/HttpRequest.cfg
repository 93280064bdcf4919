\* four calls: a part before and one after the init, or a body between two
\* sends; two pieces, so that a reply can break off between them
SPECIFICATION Spec
CONSTANTS
    MaxCalls = 4
    MaxChunks = 2
INVARIANTS
    WireIsWhatWasMeant
    HoldsTheReplyOfItsSend
    OnlyReinitLeaks
\* the object is destroyed and nothing follows
CHECK_DEADLOCK FALSE
