\* Three frames, one fault, a buffer that overflows behind a lost ETX.
SPECIFICATION LinkSpec
CONSTANTS
    MaxBuffer = 8
    MaxChunk = 8
    Payloads <- SomePayloads
    MaxSent = 3
    Noise <- SomeNoise
    MaxFaults = 1
INVARIANTS
    LinkTypeOK
    NothingWithheld
    FramesFromStream
    EveryFrameFound
    ChunkingIrrelevant
    NothingInvented
    LossBounded
PROPERTIES
    KeepsFifo
CHECK_DEADLOCK FALSE
