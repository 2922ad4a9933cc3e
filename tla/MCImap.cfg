\* Authentication in both TLS modes, every operation over an authenticated
\* connection; streams that exceed the limits and streams within them.
\* A conversation or a stream that is over takes no step.
CHECK_DEADLOCK FALSE
SPECIFICATION SuiteSpec
CONSTANTS
    Modes = {"Implicit", "StartTls"}
    Ops = {"list", "search", "body", "attachments", "inspect", "draft", "disconnect"}
    CapSets <- MCCapSets
    Noise <- MCNoise
    MaxMailboxes = 1
    MaxResponses = 9
    MaxQueue = 2
    MaxInc = 2
    Streams <- TextStreams
    Contract = "Body"
    BodyCount = 2
    MaxResponseBytes = 24
    MaxLiteralBytes = 3
    MaxOperationBytes = 60
    MaxParserSteps = 300
    MaxFrames = 2
    MaxNesting = 3
INVARIANTS
    ConversationSafe
    FramesAdmitted
PROPERTIES
    FramesKeepMeaning
