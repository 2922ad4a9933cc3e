\* Small instances of every component that waits.
\* The components may stop: calls are not repeated, time and ids run out.
CHECK_DEADLOCK FALSE
SPECIFICATION FairSpec
CONSTANTS
    None = None
PROPERTIES
    EveryoneAnswered
    NothingOutlivesItsTime
    ImplementsFifoGate
