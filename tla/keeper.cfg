\* The claim loop, safety: one deployment, a quantum of two ticks, one fault.
SPECIFICATION Spec
CONSTANTS
    Ids = {1}
    Quantum = 2
    Margin = 1
    Grace = 0
    DnsStrikes = 2
    Retries = 2
    SharedKey = FALSE
    MaxFunds = 2
    MaxQueue = 2
    MaxFaults = 1
    \* Every kind of disturbance on its own; a restart may also leave a transaction
    \* behind that lands at any later time.
    Scenarios = {{"queue"}, {"stop"}, {"rival"}, {"handback"}, {"hint"}, {"lag"},
                 {"dns"}, {"lost"}, {"broken"}, {"restart", "lost"}}
INVARIANTS
    TypeOK
    LeaseStack
\* A box with nothing to claim and nothing to serve may really be at rest.
CHECK_DEADLOCK FALSE
