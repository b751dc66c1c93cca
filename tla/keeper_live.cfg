\* The claim loop, liveness: one deployment, a quantum of one tick, one fault.
SPECIFICATION FairSpec
CONSTANTS
    Ids = {1}
    Quantum = 1
    Margin = 1
    Grace = 0
    DnsStrikes = 1
    Retries = 1
    SharedKey = FALSE
    MaxFunds = 1
    MaxQueue = 1
    MaxFaults = 1
    \* The disturbances that could leave work or a lease behind.
    Scenarios = {{"rival"}, {"restart"}, {"broken"}, {"lag"}}
PROPERTIES
    Taken
    NoFreeRide
    Resumed
\* A box with nothing to claim and nothing to serve may really be at rest.
CHECK_DEADLOCK FALSE
