\* Mailboxes of three or four messages that change once between the pages of a
\* traversal, or a server that answers with anything; three mailboxes, one of
\* them INBOX in two spellings; structures of up to three parts on three levels;
\* two callers that trade cursors.
\* The components may stop: requests and changes run out, a decided read is over.
CHECK_DEADLOCK FALSE
SPECIFICATION SuiteSpec
CONSTANTS
    MaxUid = 4
    Queries = {"q2"}
    Fuzzable = {}
    Scopes = {"p1"}
    Window = 2
    Windows = 2
    PageLimit = 2
    Marks <- FlagMarks
    MaxChanges = 1
    MaxCalls = 3
    Faults = {FALSE}
    None = None
    Names = {"INBOX", "inbox", "A", "b", ""}
    Inboxes = {"INBOX", "inbox"}
    Order <- NameOrder
    MailboxMarks = {"plain", "noselect"}
    NoSelect = "noselect"
    MailboxScopes <- ScopesTried
    Limit = 2
    Maximum = 4
    MaxListChanges = 1
    MaxLists = 2
    All = All
    Absent = Absent
    Callers = {"c1", "c2"}
    TextPageBytes <- PagesGranted
    MessageUids = {1, 2}
    Bodies = {"b1", "b2"}
    Contents <- BodyContents
    Characters = {11, 14, 21, 24, 31, 34, 43, 51, 61}
    ChunkBytes = 6
    MaxBodyBytes = 10
    MaxBytesAsked = {3, 4}
    Backends = {"imap", "memory"}
    MaxValidity = 2
    MaxGets = 3
    MaxBoxChanges = 1
INVARIANTS
    MailboxListExact
    SelectionSound
    BodyPagesExact
PROPERTIES
    TraversalsExact
