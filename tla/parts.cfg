\* The machines of boxes, payments and the owner's tools.
SPECIFICATION Spec
CONSTANTS
    Parts = {"tenants", "proofs", "provision", "topups", "pads",
             "placement", "cards", "metered", "metal", "guest", "cli", "door",
             "dash", "planner", "scaler", "move", "vault"}
INVARIANTS
    NeverOversold
    Incompressible
    ConvertedOnce
    CreditedOnce
    PadsUsedOnce
    ServesWhatWasOrdered
    PoolsBalance
    PaidTimeServed
    BoxSound
    SpentAsTapped
PROPERTIES
    SweepsSpareTenants
    HandBackPaysUp
    AsConfirmed
    OwnersOnly
\* Bounded machines end where their bounds do.
CHECK_DEADLOCK FALSE
