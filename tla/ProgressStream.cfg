\* Up to four messages of one invocation.  When Invoke has returned and the
\* stream loop has exited nothing is left to do, so the system may stop.
SPECIFICATION FairSpec
CONSTANTS
    MaxMessages = 4
INVARIANTS
    TypeOK
    InOrder
    CompleteStream
PROPERTIES
    InvokeEnds
CHECK_DEADLOCK FALSE
