SPECIFICATION Spec
CONSTANTS
    Subs = {c1}
    Kinds <- MCKinds
    bufferLimit = 1
    MaxGens = 2
    MaxStimuli = 5
    MaxTicks = 2
    limit = 2
    MaxRequests = 2
INVARIANTS NothingUnannounced TranscriptWhole DecidesTheOpened
PROPERTIES SubscriptionsEnd
CHECK_DEADLOCK FALSE
