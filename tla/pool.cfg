\* Two connections, one with an empty frame and another behind it, one with an empty
\* frame; the selector thread and two pool threads.  A runnable per byte, so that all
\* can be read one by one, and a buffer more for the end of a stream.
CONSTANTS
    a1 = a1
    a2 = a2
    Acts = {a1, a2}
    Tasks = {r1, r2, r3, r4}
    Clients = {s1}
    Workers = {w1, w2}
    Null = Null
    Bytes = {0, 1}
    End = 0
    Stream <- MCStream
    Buffers = {b1, b2, b3, b4, b5}
SPECIFICATION DecodingSpec
INVARIANTS
    TypeOK
    OneAtATime
    NobodyStranded
    DecodingTypeOK
    DecodesWhatWasSent
    OneOwner
CHECK_DEADLOCK FALSE
PROPERTIES
    KeepsMailboxes
    ImplementsMailbox
    EveryTaskRuns
    EverythingIsDecoded
