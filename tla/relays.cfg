\* The machines of the relays, of the names they answer to, and the order book.
SPECIFICATION Spec
CONSTANTS
    Parts = {"tunnel", "egress", "udp", "tcp", "route", "sni", "zone", "fleet",
             "gate", "certs", "domains", "registrar", "boxcerts", "accounts",
             "orders"}
INVARIANTS
    SignInSound
    NoOrderOrphaned
    EveryPaymentBooked
    ServedOnlyProven
    TunnelSound
PROPERTIES
    FreshRoute
    OnlyHolders
    KeepsItsNames
    AutoProvisionsClean
\* Bounded machines end where their bounds do.
CHECK_DEADLOCK FALSE
