CONSTANTS
    Client = client
    Server = server
    SeqMod = 16
    Iss <- MCIss
    Mss = 2
    RxMax = 3
    TxMax = 3
    DupAcks = 1
    MaxRetries = 1
    SynRetries = 1
    StreamLen <- MCStreamLen
    ClientBytes = 3
    ServerBytes = 0
    MaxFlight = 2
    MaxFaults = 1
    Calls <- MCCalls
    Adverse = TRUE
SPECIFICATION TcpSpec
INVARIANTS AckedIsTaken StreamIntegrity EofIsEnd TimerArmed
CHECK_DEADLOCK FALSE
