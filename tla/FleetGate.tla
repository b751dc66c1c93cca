------------------------------- MODULE FleetGate -------------------------------
(***************************************************************************)
(* What the relay hands only to the box that holds a deployment's lease:   *)
(* its secrets (src/relay/secrets.js, fetched by src/supervisor.js) and    *)
(* its names in DNS, as ACME challenges (src/relay/dns-relay.js), for one  *)
(* deployment.  Both ask the ledger through a cache (fleet-auth.js,        *)
(* fleet.mjs).  Stamps are kept as ages, in units of the cache's own age.  *)
(***************************************************************************)
EXTENDS Integers, FiniteSets

CONSTANTS
    Boxes,      \* boxes of the fleet, each registered by an operator of its own
    Ttl,        \* ledger cache age
    MaxTxt,     \* MAX_TXT_VALUES
    MaxFaults   \* bound: lease changes, registry changes, failed reads

VARIABLES
    lease,    \* the ledger: [runner, lapsed]; a lapsed lease keeps its runner
    since,    \* age of the last change of it
    row,      \* the relay's cached row: [runner, lapsed, age]
    reading,  \* a read under way: [runner, age], or NoRead
    listed,   \* boxes with an active registry entry
    ask,      \* per box: what it asked for and how far the handler is
    txt,      \* txtStore for the name: whose values it has
    given,    \* ghost: the last thing handed out, [to, what], or Nothing
    faults

vars == <<lease, since, row, reading, listed, ask, txt, given, faults>>

NoRead == [runner |-> 0, age |-> -1]
Idle == [what |-> "none", sig |-> "none", at |-> "idle"]
Nothing == [to |-> 0, what |-> "none"]

Init ==
    /\ lease = [runner |-> 0, lapsed |-> FALSE] /\ since = 0
    /\ row = [runner |-> 0, lapsed |-> FALSE, age |-> Ttl] /\ reading = NoRead
    /\ listed = Boxes
    /\ ask = [b \in Boxes |-> Idle]
    /\ txt = {} /\ given = Nothing
    /\ faults = MaxFaults

Fault == faults > 0 /\ faults' = faults - 1
Chain == <<lease, since>>
Cache == <<row, reading>>

-----------------------------------------------------------------------------
(* The ledger through the cache                                              *)

\* rowOf, leaseFor: awaited; fresh forgets the cached rows first, but joins a read
\* that is already under way.
StartRead ==
    /\ row.age >= Ttl /\ reading = NoRead
    /\ reading' = [runner |-> lease.runner, age |-> 0]
    /\ UNCHANGED <<Chain, row, listed, ask, txt, given, faults>>

\* leaseUntil comes with the row, so a lapse is seen without another read.
EndRead ==
    /\ reading # NoRead /\ reading' = NoRead
    /\ row' = [runner |-> reading.runner, age |-> 0,
               lapsed |-> lease.lapsed /\ reading.runner = lease.runner]
    /\ UNCHANGED <<Chain, listed, ask, txt, given, faults>>

\* Mutant: a lease that ran out still counts.
HoldsByRunner(b) == row.runner = b

\* holdsLease: the runner of the row, while its lease runs.
HoldsLease(b) == row.runner = b /\ ~row.lapsed

-----------------------------------------------------------------------------
(* Asking                                                                    *)

\* fetchDepSecrets asks up to three times; the ACME client pushes and removes
\* its challenge. A request is stamped, and signed by the fleet's shared key
\* or by the box's operator.
Ask(b) ==
    /\ ask[b] = Idle /\ given = Nothing
    /\ \E what \in {"secrets", "challenge"}, sig \in {"operator", "fleet"} :
          ask' = [ask EXCEPT ![b] = [what |-> what, sig |-> sig, at |-> "operator"]]
    /\ UNCHANGED <<Chain, Cache, listed, txt, given, faults>>

\* What the handlers refuse before they look at a signature.
Requests == {"well formed", "bad id", "bad endpoint", "stale stamp", "bad name", "too large"}
WellFormed(r) == r = "well formed"

\* endpointOperator, recoverOp, checkSig: a registered endpoint's secrets need its
\* operator's signature; a challenge needs the fleet's key or the operator's.
\* An operator that cannot be read is the last one known.
Authorized(what, sig, registered) ==
    IF what = "secrets" THEN IF registered THEN sig = "operator" ELSE sig = "fleet"
    ELSE sig = "fleet" \/ (sig = "operator" /\ registered)

Authorize(b) ==
    /\ ask[b].at = "operator" /\ \E r \in Requests : WellFormed(r)
    /\ \E failed \in BOOLEAN :
          /\ failed => faults > 0
          /\ faults' = IF failed THEN faults - 1 ELSE faults
          /\ \E registered \in IF failed THEN BOOLEAN ELSE {b \in listed} :
                ask' = [ask EXCEPT ![b] = IF Authorized(@.what, @.sig, registered)
                                          THEN [@ EXCEPT !.at = "row"] ELSE Idle]
    /\ UNCHANGED <<Chain, Cache, listed, txt, given>>

\* A push under the shared key is the relay's own; the ledger is not asked.
ByFleet(a) == a.what # "secrets" /\ a.sig = "fleet"

\* txtStore: a new value displaces the one that expires first when there are
\* too many.
Kept(b) == LET old == txt \ {b}
           IN  IF Cardinality(old) < MaxTxt THEN {old \union {b}}
               ELSE {(old \ {v}) \union {b} : v \in old}

Serve(b) ==
    LET what == ask[b].what
    IN  /\ given' = [to |-> b, what |-> IF ByFleet(ask[b]) THEN "none" ELSE what]
        /\ ask' = [ask EXCEPT ![b] = Idle]
        /\ txt' \in IF what = "secrets" THEN {txt}
                   ELSE Kept(b) \union {txt \ {b}}

\* The row is read; when it does not name the box, once more past the cache; and
\* then the request is served or refused, with no further await.
CheckLease(b) ==
    /\ ask[b].at \in {"row", "fresh"} /\ given = Nothing
    /\ IF ByFleet(ask[b]) THEN Serve(b) /\ UNCHANGED row
       ELSE /\ row.age < Ttl
            /\ IF HoldsLease(b) THEN Serve(b) /\ UNCHANGED row
               ELSE /\ ask' = [ask EXCEPT ![b] = IF @.at = "row" THEN [@ EXCEPT !.at = "fresh"] ELSE Idle]
                    /\ row' = IF ask[b].at = "row" THEN [row EXCEPT !.age = Ttl] ELSE row
                    /\ UNCHANGED <<txt, given>>
    /\ UNCHANGED <<Chain, reading, listed, faults>>

\* The ledger cannot be read: refused.
Unreadable(b) ==
    /\ Fault
    /\ ask[b].at \in {"row", "fresh"} /\ ask' = [ask EXCEPT ![b] = Idle]
    /\ UNCHANGED <<Chain, Cache, listed, txt, given>>

Received ==
    /\ given # Nothing /\ given' = Nothing
    /\ UNCHANGED <<Chain, Cache, listed, ask, txt, faults>>

-----------------------------------------------------------------------------
(* The world                                                                 *)

Cap == Ttl + 1
\* A read takes at most one unit; challenges expire (txtValues).
Tick ==
    /\ given = Nothing /\ reading.age < 1
    /\ since' = IF since < Cap THEN since + 1 ELSE since
    /\ row' = [row EXCEPT !.age = IF @ < Ttl THEN @ + 1 ELSE @]
    /\ reading' = IF reading = NoRead THEN NoRead ELSE [reading EXCEPT !.age = @ + 1]
    /\ txt' \in SUBSET txt
    /\ UNCHANGED <<lease, listed, ask, given, faults>>

\* Claims, Moves, releases; and a lease that runs out, cached or not.
Lease ==
    /\ Fault
    /\ \/ /\ lease' \in {[runner |-> b, lapsed |-> FALSE] : b \in Boxes \union {0}} \ {lease}
          /\ UNCHANGED row
       \/ /\ lease.runner # 0 /\ ~lease.lapsed /\ lease' = [lease EXCEPT !.lapsed = TRUE]
          /\ row' = IF row.runner = lease.runner THEN [row EXCEPT !.lapsed = TRUE] ELSE row
    /\ since' = 0
    /\ UNCHANGED <<reading, listed, ask, txt, given>>

Registry ==
    /\ Fault
    /\ \E b \in Boxes : listed' = IF b \in listed THEN listed \ {b} ELSE listed \union {b}
    /\ UNCHANGED <<Chain, Cache, ask, txt, given>>

Next ==
    \/ StartRead \/ EndRead \/ Received \/ Tick \/ Lease \/ Registry
    \/ \E b \in Boxes : Ask(b) \/ Authorize(b) \/ CheckLease(b) \/ Unreadable(b)

Spec == Init /\ [][Next]_vars

-----------------------------------------------------------------------------
\* Secrets and challenges go to the box whose lease runs, or whose lease ended
\* no longer ago than one ledger cache and the read that filled it, however
\* requests, reads, Moves and lapses interleave (holdsLease, operatorAuth).
OnlyHolders ==
    given' # given /\ given'.what # "none" =>
        (lease.runner = given'.to /\ ~lease.lapsed) \/ since <= Ttl
===============================================================================
