\* Two requests out of GET, SET, a SET missing its value and an unknown
\* verb, delivered in chunks of every size.
CONSTANTS
    None = None
    Requests <- MCRequests
    Keys <- MCKeys
    MaxRequests = 2
SPECIFICATION Spec
INVARIANT RequestsDecoded ClientSeesReplies
\* The client stops after its requests; a closed connection stays closed.
CHECK_DEADLOCK FALSE
