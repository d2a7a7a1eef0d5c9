\* A SET and an unknown verb whose name holds "\\r\\n+OK".
CONSTANTS
    None = None
    Requests <- MCInjection
    Keys <- MCKeys
    MaxRequests = 2
SPECIFICATION Spec
INVARIANT ClientSeesReplies
\* The client stops after its requests; a closed connection stays closed.
CHECK_DEADLOCK FALSE
