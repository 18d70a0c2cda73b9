SPECIFICATION FairSpec
CONSTANTS
    Workers = {w1, w2}
    Streams <- SmallStreams
    Layouts <- SmallLayouts
    MAX_PACKET_SIZE = 11
    DwordSize = 1
    WcharSize = 2
    GuidSize = 3
    Samples <- SmallSamples
    FieldSeqs <- SmallFieldSeqs
INVARIANTS
    InOrder
    DropsDeserved
    LateDiscarded
    DeserialiserExact
PROPERTIES
    EverythingHandled
    EndNoticed
