\* Three sequential calls of get and set on one key, with a value and the
\* empty value, delivered in chunks of every size, under fair delivery and
\* scheduling of the server and the client, checked against the abstract
\* key/value service.
CONSTANTS
    None = None
    Requests = {}
    Keys <- MCKeys
    Values <- MCValues
    MaxRequests = 3
SPECIFICATION ClientFairSpec
INVARIANT CallsAnsweredInOrder
PROPERTY CallCompletes ImplementsService
\* The client stops after its calls.
CHECK_DEADLOCK FALSE
