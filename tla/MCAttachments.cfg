\* Two requests over three transfers, in two scopes; parts of up to four pieces;
\* two names for an export, of which other programs may take either.
\* The components may stop: time and transfers run out, a part that is read and an
\* export that is over take no step.
CHECK_DEADLOCK FALSE
SPECIFICATION SuiteSpec
CONSTANTS
    Calls = {c1, c2}
    Ids = {i1, i2, i3}
    Sessions = {"s1", "s2"}
    Accounts = {"a1"}
    Scopes = {p1, p2}
    Quota <- SessionQuota
    Duration = 2
    Size = 3
    Chunk = 1
    Runtimes = {"r1"}
    RuntimeOf <- OneRuntime
    MaxNow = 2
    None = None
    Attachment <- Whole
    Chunks <- ExportChunks
    MaximumBytes = 4
    NameCount = 2
    MaxDisturbances = 2
SYMMETRY TransferSymmetry
INVARIANTS
    TransfersConsistent
    PagesAreTheAttachment
PROPERTIES
    AttachmentSteps
    ExportIsAtomic
