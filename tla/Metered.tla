-------------------------------- MODULE Metered --------------------------------
(***************************************************************************)
(* Pay-per-deploy on one box (src/supervisor.js): a reservation holds a    *)
(* slice until its window ends, payments are watched on the forwarder,     *)
(* turned into runtime, and metered while the instance is up; everything   *)
(* billing needs is on disk every other second.  Time is in polls; windows *)
(* and silences are kept as what is left of them.                          *)
(***************************************************************************)
EXTENDS Integers, FiniteSets

CONSTANTS
    Pays,        \* payments that may be made, one unit of runtime each
    EthPays,     \* those in ETH, which need a price
    Window,      \* PAYMENT_WINDOW_SEC, in polls
    Confirm,     \* PAY_CONFIRMATIONS, in polls
    Stale,       \* WATCHER_STALE_SEC, in polls
    MaxFaults    \* bound: failed polls, prices and launches, deaths, crashes

VARIABLES
    rec,      \* the record: [st, left, used, got, slice, paused, win]
    chain,    \* per payment: polls since its block (capped), -1 before
    early,    \* payments made well inside the window
    seen,     \* _seenLogs
    queue,    \* _pendingEth
    busy,     \* the payment whose launch this poll awaits, 0 for none
    silent,   \* polls since _lastPollOkAt
    up,       \* the instance is alive
    served,   \* ghost: polls the instance was up and the record running
    disk,     \* the state file: [rec, seen, served]
    torn,     \* payments a crash found marked as seen and not credited
    unpriced, \* those that still waited for a price when the window ended
    faults

vars == <<rec, chain, early, seen, queue, busy, silent, up, served, disk, torn, unpriced, faults>>

Terminal == {"expired", "failed"}
Reserved == [st |-> "awaiting", left |-> 0, used |-> 0, got |-> {}, slice |-> TRUE,
             paused |-> FALSE, win |-> Window]
Deep == Confirm + Stale

Init ==
    /\ rec = Reserved
    /\ chain = [p \in Pays |-> -1] /\ early = {} /\ seen = {} /\ queue = {} /\ busy = 0
    /\ silent = 0 /\ up = FALSE /\ served = 0
    /\ disk = [rec |-> Reserved, seen |-> {}, served |-> 0] /\ torn = {} /\ unpriced = {}
    /\ faults = MaxFaults

Fault == faults > 0 /\ faults' = faults - 1
Meter == <<up, served>>

-----------------------------------------------------------------------------
(* Payments                                                                  *)

\* The forwarder takes a payment whatever became of the reservation.
Pay(p) ==
    /\ chain[p] = -1
    /\ chain' = [chain EXCEPT ![p] = 0]
    /\ early' = IF rec.st = "awaiting" /\ rec.win > Deep THEN early \union {p} ELSE early
    /\ UNCHANGED <<rec, seen, queue, busy, silent, Meter, disk, torn, unpriced, faults>>

\* Mutant: a rescanned log is credited again.
Unseen(p) == chain[p] >= Confirm /\ p \notin queue
\* pollPayments: confirmed logs of the window and its overlap, handled once.
Fresh(p) == chain[p] >= Confirm /\ p \notin seen

\* onPaid, for a reservation: its timer is off and the launch awaited; for a running
\* record: more time; for anything else: ignored.
Credit(p) ==
    IF rec.st = "awaiting" THEN busy' = p /\ UNCHANGED rec
    ELSE /\ UNCHANGED busy
         /\ rec' = IF rec.st = "running"
                   THEN [rec EXCEPT !.left = (IF @ < 0 THEN 0 ELSE @) + 1, !.got = @ \union {p}] ELSE rec

\* usdcToSeconds.
HandleUsdc(p) ==
    /\ busy = 0 /\ Fresh(p) /\ p \notin EthPays
    /\ seen' = seen \union {p} /\ Credit(p)
    /\ UNCHANGED <<chain, early, queue, silent, Meter, disk, torn, unpriced, faults>>

\* onPaidEth: without a fresh price the payment waits in memory.
HandleEth(p, priced) ==
    /\ busy = 0 /\ (Fresh(p) \/ p \in queue) /\ p \in EthPays
    /\ ~priced => Fault
    /\ priced => UNCHANGED faults
    /\ seen' = seen \union {p}
    /\ queue' = IF priced THEN queue \ {p} ELSE queue \union {p}
    /\ IF priced THEN Credit(p) ELSE UNCHANGED <<rec, busy>>
    /\ UNCHANGED <<chain, early, silent, Meter, disk, torn, unpriced>>

\* performTenantProvision for the first payment. A failed launch gives the slice
\* back; its payment stays in the record.
LaunchEnds(ok) ==
    /\ busy # 0 /\ busy' = 0
    /\ ~ok => Fault
    /\ ok => UNCHANGED faults
    /\ rec' = IF ok THEN [rec EXCEPT !.st = "running", !.left = 1, !.got = @ \union {busy}]
              ELSE [rec EXCEPT !.st = "failed", !.slice = FALSE]
    /\ up' = ok
    /\ UNCHANGED <<chain, early, seen, queue, silent, served, disk, torn, unpriced>>

\* A poll that got through: nothing confirmed is left to handle.
PollEnds ==
    /\ busy = 0 /\ ~\E p \in Pays : Fresh(p)
    /\ silent' = 0
    /\ UNCHANGED <<rec, chain, early, seen, queue, busy, Meter, disk, torn, unpriced, faults>>

-----------------------------------------------------------------------------
(* The window and the meter                                                  *)

\* armPayTimer: a silent watcher holds the expiry off.
Expire ==
    /\ rec.st = "awaiting" /\ busy = 0 /\ rec.win = 0
    /\ silent <= Stale
    /\ rec' = [rec EXCEPT !.st = "expired", !.slice = FALSE]
    /\ unpriced' = unpriced \union queue
    /\ UNCHANGED <<chain, early, seen, queue, busy, silent, Meter, disk, torn, faults>>

\* startBillingTicker: whole polls, from the time the record last ran unpaused; a
\* sick backend, a silent watcher or a missing instance freezes the clock.
Frozen(healthy) == ~healthy \/ silent >= Stale \/ ~up
\* The reaper, past the grace.
Reaped(r) == IF r.left < 0 THEN [r EXCEPT !.st = "expired", !.slice = FALSE] ELSE r
Billed(r, healthy) ==
    IF r.st # "running" THEN r
    ELSE IF Frozen(healthy) THEN [r EXCEPT !.paused = TRUE]
    ELSE IF r.paused THEN [r EXCEPT !.paused = FALSE]
    ELSE Reaped([r EXCEPT !.left = @ - 1, !.used = @ + 1])

\* A poll's time passes; the billing tick runs; a timer that is due and may expire
\* the reservation has fired.
Tick(healthy) ==
    /\ ~healthy => Fault
    /\ healthy => UNCHANGED faults
    /\ silent' = IF silent <= Stale THEN silent + 1 ELSE silent
    /\ chain' = [p \in Pays |-> IF chain[p] \in 0 .. Confirm - 1 THEN chain[p] + 1 ELSE chain[p]]
    /\ LET b == Billed(rec, healthy)
       IN  rec' = [b EXCEPT !.win = IF b.st = "awaiting" /\ @ > 0 THEN @ - 1 ELSE @]
    /\ served' = IF rec.st = "running" /\ up THEN served + 1 ELSE served
    /\ served < Cardinality(Pays) + MaxFaults + 1      \* bound
    /\ up' = (up /\ rec'.st = "running")
    /\ ~(rec.st = "awaiting" /\ rec.win = 0 /\ silent <= Stale /\ busy = 0)
    /\ UNCHANGED <<early, seen, queue, busy, disk, torn, unpriced>>

Dies ==
    /\ Fault /\ up /\ up' = FALSE
    /\ UNCHANGED <<rec, chain, early, seen, queue, busy, silent, served, disk, torn, unpriced>>

\* respawnTenant, with a backoff.
Respawn ==
    /\ rec.st = "running" /\ rec.paused /\ ~up /\ up' = TRUE
    /\ UNCHANGED <<rec, chain, early, seen, queue, busy, silent, served, disk, torn, unpriced, faults>>

-----------------------------------------------------------------------------
(* The state file                                                            *)

\* serializeState, saveStateNow: the whole state, atomically, whatever handler
\* is awaiting something.
Save ==
    /\ disk' = [rec |-> rec, seen |-> seen, served |-> served]
    /\ disk' # disk
    /\ UNCHANGED <<rec, chain, early, seen, queue, busy, silent, Meter, torn, unpriced, faults>>

\* loadState: downtime is not charged, windows shift by it, running records wait
\* for their instance.
Restored(r) == [r EXCEPT !.paused = r.st = "running"]

Crash ==
    /\ Fault
    /\ rec' = Restored(disk.rec) /\ seen' = disk.seen /\ queue' = {} /\ busy' = 0
    /\ up' = FALSE /\ served' = disk.served /\ silent' = Stale + 1
    /\ torn' = torn \union {p \in disk.seen : p \notin disk.rec.got /\ disk.rec.st = "awaiting"}
                    \union (queue \intersect disk.seen)
    /\ UNCHANGED <<chain, early, disk, unpriced>>

Next ==
    \/ PollEnds \/ Expire \/ Dies \/ Respawn \/ Save \/ Crash
    \/ \E p \in Pays : Pay(p) \/ HandleUsdc(p) \/ \E ok \in BOOLEAN : HandleEth(p, ok)
    \/ \E ok \in BOOLEAN : LaunchEnds(ok) \/ Tick(ok)

Spec == Init /\ [][Next]_vars

-----------------------------------------------------------------------------
\* What a record was paid is what it has left and has used, to the poll; no more is
\* used than the instance was up; and a reservation paid early enough in its window
\* never expires unpaid (onPaid, startBillingTicker, armPayTimer, loadState). Two
\* payments are lost all the same: one that pollPayments had marked as seen, and the
\* state file with it, when a crash came before its launch or its price; and one in
\* ETH that had no price until the window ended. A launch that fails ends the record
\* as failed, not as expired.
PaidTimeServed ==
    /\ rec.left + rec.used = Cardinality(rec.got)
    /\ rec.used <= served
    /\ rec.slice = (rec.st \notin Terminal)
    /\ rec.st = "expired" /\ rec.got = {} => early \subseteq torn \union unpriced
===============================================================================
