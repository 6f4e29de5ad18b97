SPECIFICATION FairSpec
CONSTANTS
    Ports = {p1, p2}
    Workers = {w1, w2}
    NoJob = NoJob
    Calls <- MCCalls
    Send <- DartSend
    Meant <- Narrowed
    Receive <- RustReceive
    Run <- MCRun
    Reply <- RustReply
    Read <- MCRead
    Core <- MCCore
    U8 = 4
    U32 = 8
    NULLIFIER_LEN = 2
INVARIANTS
    CallsRoundTrip
    TasksMeanTheirCalls
    OneAnswerPerCall
PROPERTIES
    ImplementsRemoteCalls
    EveryFutureCompletes
CHECK_DEADLOCK FALSE
