------------------------------ MODULE LeaseKeeper ------------------------------
(***************************************************************************)
(* The claim loop of one box (src/supervisor.js): it claims funded work on *)
(* the lease market, serves it, renews, audits what it serves against a    *)
(* page of the ledger that may be stale, resumes leases of a previous life *)
(* and hands leases back.  Other boxes, the owner and the RPC are the      *)
(* environment.                                                            *)
(*                                                                         *)
(* Expiry times are kept as the ticks left to them, so that the clock      *)
(* never runs out: a lease may be claimed by anyone when left < 0, the     *)
(* contract renews it while left >= 0, and the box itself calls it lapsed  *)
(* as soon as left <= 0 (leaseUntil * 1000 <= Date.now()).                 *)
(***************************************************************************)
EXTENDS Integers, Sequences, FiniteSets

CONSTANTS
    Ids,            \* deployments
    Quantum,        \* leaseSec, in ticks
    Margin,         \* RENEW_MARGIN_SEC
    Grace,          \* GRACE_SEC of the reaper
    DnsStrikes,     \* REACH_DNS_STRIKES
    Retries,        \* attempts of releaseLease
    SharedKey,      \* does the other box sign with our operator key?
    MaxFunds,       \* bound: most ticks a deployment is funded for
    MaxQueue,       \* bound: transactions waiting in the operator queue
    MaxFaults,      \* bound: faults, restarts and interventions together
    Scenarios       \* bound: the sets of disturbances that may come together

\* Deployments are listed by fetchLedger, times are whole ticks.
ASSUME KeeperAssumption ==
    /\ IsFiniteSet(Ids)
    /\ {Quantum, Margin, Grace, MaxFunds, MaxQueue, MaxFaults} \subseteq Nat
    /\ {Retries, DnsStrikes} \subseteq Nat

VARIABLES
    lease,      \* ledger: [runner, left] of every deployment
    active,     \* ledger: the owner has not stopped it
    funds,      \* ledger: ticks the balance still buys
    prev,       \* the ledger as it was at the last fetchLedger
    page,       \* the rows this pass decides on
    pass,       \* the claim pass: its stage and the rows it has left
    rec,        \* the box's record of every deployment
    launching,  \* launches in flight: of the record ("cur") or a replaced one
    trying,     \* tryClaim calls between the decision and the transaction
    txq,        \* the operator queue; its head is in flight
    late,       \* transactions given up on that may still land
    retry,      \* releases waiting for their next attempt
    hold,       \* _provisionBackoff ("launch") and _evacuated ("move")
    reach,      \* the DNS watchdog
    faults,     \* faults still allowed
    upset       \* the disturbances of this behaviour, a member of Scenarios

vars == <<lease, active, funds, prev, page, pass, rec, launching, trying, txq,
          late, retry, hold, reach, faults, upset>>
ledgerVars == <<lease, active, funds>>
readVars == <<prev, page, pass>>

Parties == {"none", "us", "them"}
Terminal == {"none", "expired", "failed", "terminated"}
Statuses == Terminal \union {"claimed", "running"}

\* The record a fresh adoption installs; "none" is a missing record.
NewRec(left) == [st |-> "claimed", left |-> left, strikes |-> 0,
                 renewing |-> FALSE, resting |-> FALSE, reaped |-> FALSE]
NoRec == [NewRec(-1 - Grace) EXCEPT !.st = "none"]

Row(id) == [runner |-> lease[id].runner, left |-> lease[id].left,
            active |-> active[id], funds |-> funds[id] > 0]

\* What the loop holds between passes: nothing it still uses.
NoRow == [runner |-> "none", left |-> -1, active |-> FALSE, funds |-> FALSE]
NoPage == [id \in Ids |-> NoRow]

Idle == [at |-> "idle", todo |-> {}, own |-> {}, held |-> FALSE, wait |-> {}]

Init ==
    /\ lease = [id \in Ids |-> [runner |-> "none", left |-> -1]]
    /\ active = [id \in Ids |-> TRUE]
    /\ funds \in [Ids -> {0, MaxFunds}]
    /\ prev = NoPage
    /\ page = NoPage
    /\ pass = Idle
    /\ rec = [id \in Ids |-> NoRec]
    /\ launching = [id \in Ids |-> {}]
    /\ trying = {}
    /\ txq = <<>>
    /\ late = {}
    /\ retry = {}
    /\ hold = [id \in Ids |-> {}]
    /\ reach = [strikes |-> 0, tripped |-> FALSE]
    /\ faults = MaxFaults
    /\ upset \in Scenarios

Serving(id) == rec[id].st = "running"
Ours(r) == r.runner = "us" /\ r.left > 0
OurOperator(r) == r.runner = "us" \/ (SharedKey /\ r.runner = "them")

-----------------------------------------------------------------------------
(* The ledger's rules, as a function from a transaction to its effect       *)

Quantity(id) == IF funds[id] < Quantum THEN funds[id] ELSE Quantum

Claimable(id) == active[id] /\ lease[id].left < 0 /\ funds[id] > 0

Accepted(tx) ==
    CASE tx.verb = "claim" -> Claimable(tx.id)
      [] tx.verb = "renew" -> /\ active[tx.id]
                              /\ OurOperator(lease[tx.id])
                              /\ lease[tx.id].left >= 0
                              /\ funds[tx.id] > 0
      [] tx.verb = "release" -> OurOperator(lease[tx.id])

\* The lease a transaction leaves behind, and the balance.
LeaseAfter(tx) ==
    CASE tx.verb = "claim" -> [runner |-> "us", left |-> Quantity(tx.id)]
      [] tx.verb = "renew" -> [lease[tx.id] EXCEPT !.left = @ + Quantity(tx.id)]
      [] tx.verb = "release" -> [runner |-> "none", left |-> -1]

Refund(id) == IF lease[id].left > 0 THEN lease[id].left ELSE 0

FundsAfter(tx) ==
    IF tx.verb = "release"
      THEN LET sum == funds[tx.id] + Refund(tx.id)
           IN  IF sum > MaxFunds THEN MaxFunds ELSE sum
      ELSE funds[tx.id] - Quantity(tx.id)

Land(tx) ==
    /\ lease' = [lease EXCEPT ![tx.id] = IF Accepted(tx) THEN LeaseAfter(tx) ELSE @]
    /\ funds' = [funds EXCEPT ![tx.id] = IF Accepted(tx) THEN FundsAfter(tx) ELSE @]
    /\ active' = active

Tx(verb, id, by, n) == [verb |-> verb, id |-> id, by |-> by, n |-> n]

\* sendOperatorTx: one queue, one transaction in flight, through confirmation.
Send(tx) == txq' = Append(txq, tx)
\* The queue is bounded here, to one transaction where none may wait behind it.
Room == IF "queue" \in upset THEN MaxQueue ELSE 1
HasRoom == Len(txq) < Room

ReleaseJobs(S) == {Tx("release", id, "release", 1) : id \in S}

-----------------------------------------------------------------------------
(* The environment                                                          *)

Down(n, floor) == IF n > floor THEN n - 1 ELSE floor

TickRows(f, floor) == [id \in Ids |-> [f[id] EXCEPT !.left = Down(@, floor)]]

Tick ==
    /\ lease' = TickRows(lease, -1)
    /\ prev' = TickRows(prev, -1)
    /\ page' = TickRows(page, -1)
    /\ rec' = TickRows(rec, -1 - Grace)
    /\ trying' = {[t EXCEPT !.left = IF t.resume THEN Down(@, -1) ELSE @] : t \in trying}
    /\ UNCHANGED <<active, funds, pass, launching, txq, late, retry, hold,
                   reach, faults, upset>>

BoxVars == <<rec, launching, trying, txq, late, retry, hold, reach, faults, upset>>

SetActive(id) ==
    /\ active[id] => "stop" \in upset /\ faults > 0
    /\ active' = [active EXCEPT ![id] = ~@]
    /\ faults' = IF active[id] THEN faults - 1 ELSE faults
    /\ UNCHANGED <<lease, funds, readVars, rec, launching, trying, txq, late, retry,
                   hold, reach, upset>>

Fund(id) ==
    /\ funds[id] = 0
    /\ funds' = [funds EXCEPT ![id] = MaxFunds]
    /\ UNCHANGED <<lease, active, readVars, BoxVars>>

OtherClaims(id) ==
    /\ "rival" \in upset
    /\ Claimable(id)
    /\ lease' = [lease EXCEPT ![id] = [runner |-> "them", left |-> Quantity(id)]]
    /\ funds' = [funds EXCEPT ![id] = @ - Quantity(id)]
    /\ UNCHANGED <<active, readVars, BoxVars>>

OtherReleases(id) ==
    /\ lease[id].runner = "them"
    /\ lease' = [lease EXCEPT ![id] = [runner |-> "none", left |-> -1]]
    /\ UNCHANGED <<active, funds, readVars, BoxVars>>

\* A transaction whose receipt never came within awaitReceipt's timeout.
LateLands ==
    \E tx \in late :
        /\ Land(tx)
        /\ late' = late \ {tx}
        /\ UNCHANGED <<readVars, rec, launching, trying, txq, retry, hold,
                       reach, faults, upset>>
-----------------------------------------------------------------------------
(* Renewals ride their own clock: any record may be due at any moment        *)

Lapsed(id) == rec[id].left <= 0

Due(id) ==
    /\ Serving(id)
    /\ ~rec[id].renewing /\ ~rec[id].resting
    /\ rec[id].left <= Margin

\* renewLeases, one record: a lapsed lease is claimed anew, in place.
RenewLease(id) ==
    /\ ~reach.tripped
    /\ Due(id) /\ HasRoom
    /\ Send(Tx(IF Lapsed(id) THEN "claim" ELSE "renew", id, "renew", 1))
    /\ rec' = [rec EXCEPT ![id].renewing = TRUE]
    /\ UNCHANGED <<ledgerVars, readVars, launching, trying, late, retry, hold,
                   reach, faults, upset>>

\* _renewBackoffUntil has passed.
RestOver(id) ==
    /\ rec[id].resting
    /\ rec' = [rec EXCEPT ![id].resting = FALSE]
    /\ UNCHANGED <<ledgerVars, readVars, launching, trying, txq, late, retry,
                   hold, reach, faults, upset>>

\* How the head of the queue ends: it lands (and may revert), or its receipt
\* does not come in time and the caller is told that it failed.
HeadEnds(tx, ok, left) ==
    \/ /\ Land(tx)
       /\ ok = Accepted(tx)
       /\ left = IF ok THEN LeaseAfter(tx).left ELSE 0
       /\ UNCHANGED <<late, faults>>
    \/ /\ "lost" \in upset /\ faults > 0
       /\ ~ok /\ left = 0
       /\ late' = late \union {tx}
       /\ faults' = faults - 1
       /\ UNCHANGED ledgerVars

Lefts == -1 .. Margin + Quantum * (8 + MaxFaults)

\* Mutant: the receipt's expiry is not written back.
RenewedBlind(r, ok, left) == [r EXCEPT !.renewing = FALSE]

Renewed(r, ok, left) ==
    IF ~r.renewing THEN r
    ELSE IF ok THEN [r EXCEPT !.renewing = FALSE, !.left = left]
    ELSE [r EXCEPT !.renewing = FALSE, !.resting = TRUE]

RenewReceipt ==
    /\ txq # <<>> /\ Head(txq).by = "renew"
    /\ \E ok \in BOOLEAN, left \in Lefts :
        /\ HeadEnds(Head(txq), ok, left)
        /\ rec' = [rec EXCEPT ![Head(txq).id] = Renewed(@, ok, left)]
    /\ txq' = Tail(txq)
    /\ UNCHANGED <<readVars, launching, trying, retry, hold, reach, upset>>

-----------------------------------------------------------------------------
(* Handing leases back                                                       *)

\* releaseLease: four attempts, then the lease is left to expire.
ReleaseReceipt ==
    /\ txq # <<>> /\ Head(txq).by = "release"
    /\ \E ok \in BOOLEAN, left \in Lefts :
        LET tx == Head(txq)
        IN  /\ HeadEnds(tx, ok, left)
            /\ retry' = IF ok \/ tx.n = Retries THEN retry
                        ELSE retry \union {[tx EXCEPT !.n = @ + 1]}
    /\ txq' = Tail(txq)
    /\ UNCHANGED <<readVars, rec, launching, trying, hold, reach, upset>>

ReleaseRetry ==
    \E tx \in retry :
        /\ HasRoom
        /\ Send(tx)
        /\ retry' = retry \ {tx}
        /\ UNCHANGED <<ledgerVars, readVars, rec, launching, trying, late,
                       hold, reach, faults, upset>>

Held(id) == rec[id].st \in {"running", "claimed"}

\* A terminal record; what it remembers matters only to a launch in flight.
Teardown(id, st) == IF "cur" \in launching[id]
                      THEN [rec[id] EXCEPT !.st = st, !.reaped = FALSE]
                      ELSE [NoRec EXCEPT !.st = st]

\* The operator's consolidation release, the owner's delete and the owner's
\* move: stop here, hand the lease back, and perhaps stand down for a while.
HandBack(id, st, standDown) ==
    /\ "handback" \in upset /\ faults > 0
    /\ faults' = faults - 1
    /\ Held(id) /\ HasRoom
    /\ rec' = [rec EXCEPT ![id] = Teardown(id, st)]
    /\ hold' = [hold EXCEPT ![id] = IF standDown THEN @ \union {"move"} ELSE @]
    /\ Send(Tx("release", id, "release", 1))
    /\ UNCHANGED <<ledgerVars, readVars, launching, trying, late, retry, reach, upset>>

OperatorRelease(id) == HandBack(id, "expired", TRUE)
OwnerDelete(id, evacuate) == HandBack(id, "terminated", evacuate)

\* A holdoff or a cooldown runs out.
HoldOver(id) ==
    /\ hold[id] # {}
    /\ hold' = [hold EXCEPT ![id] = {}]
    /\ UNCHANGED <<ledgerVars, readVars, rec, launching, trying, txq, late,
                   retry, reach, faults, upset>>

\* The billing ticker finds the lease over for longer than the grace ...
ReapStart(id) ==
    /\ Serving(id) /\ ~rec[id].reaped
    /\ rec[id].left < -Grace
    /\ rec' = [rec EXCEPT ![id].reaped = TRUE]
    /\ UNCHANGED <<ledgerVars, readVars, launching, trying, txq, late, retry,
                   hold, reach, faults, upset>>

\* ... and tears down after the awaited final proof, without a second look.
ReapEnd(id) ==
    /\ rec[id].reaped
    /\ rec' = [rec EXCEPT ![id] = Teardown(id, "expired")]
    /\ UNCHANGED <<ledgerVars, readVars, launching, trying, txq, late, retry,
                   hold, reach, faults, upset>>

-----------------------------------------------------------------------------
(* Claiming                                                                  *)

\* considerClaim: may the box take (or resume) the work this row describes?
Eligible(id, row, forced) ==
    /\ rec[id].st \in Terminal
    /\ ~reach.tripped
    /\ row.active
    /\ Ours(row) \/ (row.left <= 0 /\ row.funds)
    /\ "move" \notin hold[id]
    /\ "launch" \in hold[id] => forced

Call(id, row) == [id |-> id, resume |-> Ours(row),
                  left |-> IF Ours(row) THEN row.left ELSE 0]

\* Bound: a second call for the same deployment only where hints are allowed.
CallRoom(id) == "hint" \in upset \/ \A t \in trying : t.id # id

\* adopt: install the record and launch, unless another adoption came first
\* or the capacity has gone; then the lease goes back.
Adopt(id, left, queue) ==
    IF rec[id].st \notin Terminal
      THEN /\ txq' = queue
           /\ UNCHANGED <<rec, launching>>
      ELSE \/ /\ rec' = [rec EXCEPT ![id] = NewRec(left)]
              /\ launching' = [launching EXCEPT ![id] =
                     {"cur"} \union (IF @ = {} THEN {} ELSE {"old"})]
              /\ txq' = queue
           \/ /\ "broken" \in upset
              /\ txq' = Append(queue, Tx("release", id, "release", 1))
              /\ rec' = [rec EXCEPT ![id] = NoRec]
              /\ UNCHANGED launching

\* A pass waits for the resumes it starts, launch included.  (A second call
\* for the same deployment, from a hint, may end the wait early.)
StopWaiting(id) == pass' = [pass EXCEPT !.wait = @ \ {id}]

\* tryClaim, once the prefetch is done: a resume adopts what the row said, a
\* claim asks the ledger once more and sends the transaction.
TryResume ==
    \E t \in trying :
        /\ t.resume /\ HasRoom
        /\ trying' = trying \ {t}
        /\ Adopt(t.id, t.left, txq)
        /\ IF launching' = launching THEN StopWaiting(t.id) ELSE pass' = pass
        /\ UNCHANGED <<ledgerVars, prev, page, late, retry, hold, reach, faults, upset>>

TryClaim ==
    \E t \in trying :
        /\ ~t.resume /\ HasRoom
        /\ trying' = trying \ {t}
        /\ IF Claimable(t.id)
             THEN Send(Tx("claim", t.id, "claim", 1)) /\ pass' = pass
             ELSE StopWaiting(t.id) /\ txq' = txq
        /\ UNCHANGED <<ledgerVars, prev, page, rec, launching, late, retry, hold,
                       reach, faults, upset>>

PrefetchFails ==
    /\ "broken" \in upset
    /\ \E t \in trying :
        /\ trying' = trying \ {t}
        /\ StopWaiting(t.id)
        /\ hold' = [hold EXCEPT ![t.id] = @ \union {"launch"}]
        /\ UNCHANGED <<ledgerVars, prev, page, rec, launching, txq, late, retry,
                       reach, faults, upset>>

ClaimReceipt ==
    /\ txq # <<>> /\ Head(txq).by = "claim"
    /\ \E ok \in BOOLEAN, left \in Lefts :
        LET tx == Head(txq)
        IN  /\ HeadEnds(tx, ok, left)
            /\ IF ok THEN Adopt(tx.id, left, Tail(txq))
                     ELSE txq' = Tail(txq) /\ UNCHANGED <<rec, launching>>
            /\ IF launching' = launching THEN StopWaiting(tx.id) ELSE pass' = pass
    /\ UNCHANGED <<prev, page, trying, retry, hold, reach, upset>>

\* A launch ends.  Success marks the record running whatever it became while
\* the launch was in flight; a failed one hands the lease back.
LaunchEnds(id, ok) ==
    /\ "cur" \in launching[id] /\ HasRoom
    /\ ok \/ "broken" \in upset
    /\ StopWaiting(id)
    /\ launching' = [launching EXCEPT ![id] = @ \ {"cur"}]
    /\ rec' = [rec EXCEPT ![id].st = IF ok THEN "running" ELSE "failed",
                          ![id].reaped = FALSE]
    /\ hold' = [hold EXCEPT ![id] = IF ok THEN @ \ {"launch"}
                                          ELSE @ \union {"launch"}]
    /\ txq' = IF ok THEN txq ELSE Append(txq, Tx("release", id, "release", 1))
    /\ UNCHANGED <<ledgerVars, prev, page, trying, late, retry, reach, faults, upset>>

\* The launch of a record that was replaced meanwhile: only its failure
\* still does something, and what it hands back is the successor's lease.
OldLaunchFails(id) ==
    /\ "old" \in launching[id] /\ HasRoom
    /\ StopWaiting(id)
    /\ launching' = [launching EXCEPT ![id] = @ \ {"old"}]
    /\ hold' = [hold EXCEPT ![id] = @ \union {"launch"}]
    /\ Send(Tx("release", id, "release", 1))
    /\ UNCHANGED <<ledgerVars, prev, page, rec, trying, late, retry, reach, faults, upset>>

OldLaunchSucceeds(id) ==
    /\ "old" \in launching[id]
    /\ StopWaiting(id)
    /\ launching' = [launching EXCEPT ![id] = @ \ {"old"}]
    /\ hold' = [hold EXCEPT ![id] = @ \ {"launch"}]
    /\ UNCHANGED <<ledgerVars, prev, page, rec, trying, txq, late, retry, reach,
                   faults, upset>>

\* POST /v1/claim-hint: reads the ledger itself; `forced` is an owner's Resume.
ClaimHint(id, forced) ==
    /\ "hint" \in upset
    /\ Eligible(id, Row(id), forced)
    /\ Ours(Row(id)) \/ Claimable(id)            \* the simulated claim
    /\ Call(id, Row(id)) \notin trying
    /\ trying' = trying \union {Call(id, Row(id))}
    /\ UNCHANGED <<ledgerVars, readVars, rec, launching, txq, late, retry, hold,
                   reach, faults, upset>>
-----------------------------------------------------------------------------
(* The claim pass: reach, (renew,) fetch, audit, sweep                       *)

\* reachStep: any resolver that sees the name resets, unanimity on its absence
\* is a strike, anything else holds still.
ReachStep(verdict) ==
    CASE verdict = "resolves" -> [strikes |-> 0, tripped |-> FALSE]
      [] verdict = "gone" ->
            [strikes |-> IF reach.strikes < DnsStrikes THEN reach.strikes + 1 ELSE DnsStrikes,
             tripped |-> reach.tripped \/ reach.strikes + 1 >= DnsStrikes]
      [] verdict = "error" -> reach

SetToSeqOf(S) == CHOOSE q \in [1 .. Cardinality(S) -> S] :
                     \A i, j \in DOMAIN q : i # j => q[i] # q[j]

\* reachTick; the round that trips hands everything back (abandonClaims).
ReachTick(verdict) ==
    LET next == ReachStep(verdict)
        trips == next.tripped /\ ~reach.tripped
        lost == {id \in Ids : trips /\ Held(id)}
    IN  /\ pass.at = "idle"
        /\ verdict = "resolves" \/ "dns" \in upset
        /\ pass' = [pass EXCEPT !.at = "fetch"]
        /\ Len(txq) + Cardinality(lost) <= Room
        /\ reach' = next
        /\ trips => faults > 0
        /\ faults' = IF trips THEN faults - 1 ELSE faults
        /\ rec' = [id \in Ids |-> IF id \in lost THEN Teardown(id, "expired")
                                               ELSE rec[id]]
        /\ txq' = txq \o SetToSeqOf(ReleaseJobs(lost))
        /\ UNCHANGED <<ledgerVars, prev, page, launching, trying, late, retry,
                       hold, upset>>

\* fetchLedger through a load balancer: a row is current, or what it was when
\* the previous pass fetched.
FetchLedger ==
    /\ pass.at = "fetch"
    /\ page' \in [Ids -> {Row(id) : id \in Ids} \union {prev[id] : id \in Ids}]
    /\ \A id \in Ids : page'[id] # Row(id) =>
           "lag" \in upset /\ page'[id] = prev[id]
    /\ prev' = IF "lag" \in upset THEN [id \in Ids |-> Row(id)] ELSE prev
    /\ pass' = [pass EXCEPT !.at = "audit", !.todo = Ids]
    /\ UNCHANGED <<ledgerVars, BoxVars>>

FetchFails ==
    /\ pass.at = "fetch" /\ "lost" \in upset /\ faults > 0
    /\ faults' = faults - 1
    /\ pass' = Idle
    /\ UNCHANGED <<ledgerVars, prev, page, rec, launching, trying, txq, late,
                   retry, hold, reach, upset>>

Visit(id) ==
    /\ pass.at = "audit" /\ id \in pass.todo /\ pass.wait = {}
    /\ pass' = [pass EXCEPT !.todo = @ \ {id}]

\* The audit leaves alone what is not held, and what is being launched.
Skipped(id) == ~Held(id) \/ "cur" \in launching[id]

AuditSkip(id) ==
    /\ Visit(id) /\ Skipped(id)
    /\ UNCHANGED <<ledgerVars, prev, page, BoxVars>>

AuditHealthy(id) ==
    /\ Visit(id) /\ ~Skipped(id)
    /\ page[id].active /\ Ours(page[id])
    /\ rec' = [rec EXCEPT ![id].strikes = 0]
    /\ UNCHANGED <<ledgerVars, prev, page, launching, trying, txq, late, retry,
                   hold, reach, faults, upset>>

\* The owner stopped it: tear down, and hand back a lease that is still ours.
AuditStopped(id) ==
    /\ Visit(id) /\ ~Skipped(id) /\ HasRoom
    /\ ~page[id].active
    /\ rec' = [rec EXCEPT ![id] = Teardown(id, "terminated")]
    /\ txq' = IF Ours(page[id]) THEN Append(txq, Tx("release", id, "release", 1))
                               ELSE txq
    /\ UNCHANGED <<ledgerVars, prev, page, launching, trying, late, retry, hold,
                   reach, faults, upset>>

Reacquirable(id) == OurOperator(page[id]) /\ page[id].left <= 0 /\ Serving(id)

\* Our own lease lapsed around a serving tenant: claim it again in place.
AuditReacquire(id) ==
    /\ pass.at = "audit" /\ id \in pass.todo /\ pass.wait = {}
    /\ ~Skipped(id) /\ HasRoom
    /\ page[id].active /\ Reacquirable(id)
    /\ Send(Tx("claim", id, "audit", 1))
    /\ pass' = [pass EXCEPT !.wait = {id}]
    /\ UNCHANGED <<ledgerVars, prev, page, rec, launching, trying, late, retry,
                   hold, reach, faults, upset>>

\* Mutants: the strikes never add up; they add up and nothing happens.
StruckNever(id) == rec[id]
StruckCounting(id) == [rec[id] EXCEPT !.strikes = @ + 1]

\* One read never kills a serving tenant: the second strike in a row does.
Struck(id) == IF ~Held(id) THEN rec[id]
              ELSE IF rec[id].strikes >= 1 THEN Teardown(id, "expired")
                                       ELSE [rec[id] EXCEPT !.strikes = 1]

AuditReceipt ==
    /\ txq # <<>> /\ Head(txq).by = "audit"
    /\ \E ok \in BOOLEAN, left \in Lefts :
        LET tx == Head(txq)
        IN  /\ HeadEnds(tx, ok, left)
            /\ rec' = [rec EXCEPT ![tx.id] =
                  IF ok /\ Held(tx.id) THEN [@ EXCEPT !.left = left, !.strikes = 0]
                                        ELSE Struck(tx.id)]
            /\ pass' = [pass EXCEPT !.wait = {}, !.todo = @ \ {tx.id}]
    /\ txq' = Tail(txq)
    /\ UNCHANGED <<prev, page, launching, trying, retry, hold, reach, upset>>

AuditStrike(id) ==
    /\ Visit(id) /\ ~Skipped(id)
    /\ page[id].active /\ ~Ours(page[id]) /\ ~Reacquirable(id)
    /\ rec' = [rec EXCEPT ![id] = Struck(id)]
    /\ UNCHANGED <<ledgerVars, prev, page, launching, trying, txq, late, retry,
                   hold, reach, faults, upset>>

\* sweepPartition: our own live leases that nothing here serves come first.
OwnUnserved == {id \in Ids : /\ page[id].active /\ Ours(page[id])
                             /\ rec[id].st \in Terminal}

SweepStart ==
    /\ pass.at = "audit" /\ pass.todo = {} /\ pass.wait = {}
    /\ pass' = [at |-> "sweep", todo |-> Ids \ OwnUnserved, own |-> OwnUnserved,
                held |-> FALSE, wait |-> {}]
    /\ UNCHANGED <<ledgerVars, prev, page, BoxVars>>

Consider(id) == trying' = IF Eligible(id, page[id], FALSE)
                            THEN trying \union {Call(id, page[id])} ELSE trying

\* A resume is awaited; one that is refused holds all new work this pass.
SweepOwn(id) ==
    /\ pass.at = "sweep" /\ id \in pass.own /\ pass.wait = {} /\ CallRoom(id)
    /\ Consider(id)
    /\ pass' = [pass EXCEPT !.own = @ \ {id},
                            !.held = @ \/ ~Eligible(id, page[id], FALSE),
                            !.wait = IF Call(id, page[id]) \in trying' THEN {id} ELSE {}]
    /\ page' = [page EXCEPT ![id] = NoRow]          \* the row is used up
    /\ UNCHANGED <<ledgerVars, prev, rec, launching, txq, late, retry, hold,
                   reach, faults, upset>>

\* Mutant: records that no longer run hold up the queue.
PressedByAny == \E id \in Ids : 2 * rec[id].left < Margin

\* A running lease inside half the margin: the queue belongs to renewals.
Pressed == \E id \in Ids : Serving(id) /\ 2 * rec[id].left < Margin

SweepRest(id) ==
    /\ pass.at = "sweep" /\ pass.own = {} /\ pass.wait = {}
    /\ ~pass.held /\ ~Pressed
    /\ id \in pass.todo /\ CallRoom(id)
    /\ Consider(id)
    /\ pass' = [pass EXCEPT !.todo = @ \ {id}]
    /\ page' = [page EXCEPT ![id] = NoRow]          \* the row is used up
    /\ UNCHANGED <<ledgerVars, prev, rec, launching, txq, late, retry, hold,
                   reach, faults, upset>>

SweepEnds ==
    /\ pass.at = "sweep" /\ pass.own = {} /\ pass.wait = {}
    /\ pass.held \/ Pressed \/ pass.todo = {}
    /\ pass' = Idle
    /\ page' = NoPage
    /\ UNCHANGED <<ledgerVars, prev, BoxVars>>

-----------------------------------------------------------------------------
(* The box restarts                                                          *)

\* Mutant: a record caught mid-launch is kept as it was.
RestoredAsIs(r) == [r EXCEPT !.renewing = FALSE, !.reaped = FALSE]

\* loadState: a record caught mid-launch holds nothing any more.
Restored(r) == [r EXCEPT !.st = IF @ = "claimed" THEN "expired" ELSE @,
                         !.renewing = FALSE, !.reaped = FALSE]

\* What the box had sent when it died lands at any later time (where "lost" is
\* among the disturbances), or else at once or never.
Afloat(txs) ==
    IF "lost" \in upset
      THEN late' = late \union txs /\ UNCHANGED ledgerVars
      ELSE /\ late' = late
           /\ \/ UNCHANGED ledgerVars
              \/ \E tx \in txs : Land(tx)

Restart(records, afloat) ==
    /\ "restart" \in upset
    /\ faults > 0
    /\ faults' = faults - 1
    /\ rec' = records
    /\ Afloat(afloat)
    /\ pass' = Idle
    /\ launching' = [id \in Ids |-> {}]
    /\ trying' = {} /\ txq' = <<>> /\ retry' = {}
    /\ hold' = [id \in Ids |-> {}]
    /\ reach' = [strikes |-> 0, tripped |-> FALSE]
    /\ page' = NoPage
    /\ UNCHANGED <<prev, upset>>

InFlight == IF txq = <<>> THEN {} ELSE {Head(txq)}

Crash == Restart([id \in Ids |-> Restored(rec[id])], InFlight)

\* An update reboot wipes the state file.
Wipe == Restart([id \in Ids |-> NoRec], InFlight)

\* releaseClaimsOnShutdown: everything held is handed back, as far as the ten
\* seconds go.
Shutdown ==
    \E S \in SUBSET {id \in Ids : Held(id)} :
        Restart([id \in Ids |-> IF Held(id) THEN Teardown(id, "terminated")
                                          ELSE rec[id]],
                InFlight \union ReleaseJobs(S))

-----------------------------------------------------------------------------
Receipts == RenewReceipt \/ AuditReceipt \/ ClaimReceipt \/ ReleaseReceipt

Environment ==
    \/ Tick \/ LateLands \/ Crash \/ Wipe \/ Shutdown
    \/ \E id \in Ids : \/ SetActive(id) \/ Fund(id)
                       \/ OtherClaims(id) \/ OtherReleases(id)
                       \/ OperatorRelease(id)
                       \/ \E evacuate \in BOOLEAN : OwnerDelete(id, evacuate)
                       \/ \E forced \in BOOLEAN : ClaimHint(id, forced)

Box(id) ==
    \/ RenewLease(id) \/ RestOver(id) \/ HoldOver(id)
    \/ ReapStart(id) \/ ReapEnd(id)
    \/ \E ok \in BOOLEAN : LaunchEnds(id, ok)
    \/ OldLaunchFails(id) \/ OldLaunchSucceeds(id)

Audit(id) == \/ AuditSkip(id) \/ AuditHealthy(id) \/ AuditStopped(id)
             \/ AuditReacquire(id) \/ AuditStrike(id)

Pass ==
    \/ \E verdict \in {"resolves", "gone", "error"} : ReachTick(verdict)
    \/ FetchLedger \/ FetchFails \/ SweepStart \/ SweepEnds
    \/ \E id \in Ids : Audit(id) \/ SweepOwn(id) \/ SweepRest(id)

Calls == TryResume \/ TryClaim \/ PrefetchFails \/ ReleaseRetry

Next ==
    \/ Environment
    \/ \E id \in Ids : Box(id)
    \/ Pass \/ Calls \/ Receipts

Spec == Init /\ [][Next]_vars

\* What the code schedules: both clocks, the queue, the calls in flight and
\* the passing of time; nothing is assumed of owners, rivals or faults.
Fairness ==
    /\ SF_vars(Pass /\ ~FetchFails)
    /\ WF_vars(Receipts)
    /\ SF_vars(TryResume \/ TryClaim \/ ReleaseRetry)
    /\ \A id \in Ids :
        /\ WF_vars(RestOver(id) \/ HoldOver(id))
        /\ WF_vars(LaunchEnds(id, TRUE) \/ OldLaunchFails(id) \/ OldLaunchSucceeds(id))

FairSpec == Spec /\ Fairness

-----------------------------------------------------------------------------
(* What the claim loop promises.                                             *)

\* Type invariant: what the ledger and the box keep about a deployment.
TypeOK ==
    /\ lease \in [Ids -> [runner : Parties, left : Int]]
    /\ rec \in [Ids -> [st : Statuses, left : Int, strikes : 0 .. 1,
                       renewing : BOOLEAN, resting : BOOLEAN, reaped : BOOLEAN]]
    /\ funds \in [Ids -> 0 .. MaxFunds]
    /\ Len(txq) <= MaxQueue + 1

\* A box never buys time far ahead: unless receipts were lost or renewals
\* waited in the queue behind others, our lease holds at most the margin, the
\* quantum a renewal adds, and two more: a claim landing behind a record that is
\* still served, and a renewal landing between a resume's read and its adoption
\* (both leave the record with an older expiry).  The renewing mark and the expiry
\* written back from the receipt keep renewLeases from paying again and again.
LeaseStack ==
    \A id \in Ids : lease[id].runner = "us" /\ upset \intersect {"queue", "lost"} = {} =>
        lease[id].left <= Margin + 3 * Quantum

\* Funded work without a live lease is claimed (by us or by another box), or
\* stops being claimable, unless the DNS watchdog holds this box: no refused
\* call, failed read, restart or held-up pass leaves the loop stuck
\* (startClaimLoop, claimPass, claimSweep, considerClaim).
Taken == \A id \in Ids :
    Claimable(id) ~> (~Claimable(id) \/ reach.tripped)

\* A tenant served without a lease of ours is torn down or re-leased: the
\* audit's strikes and the reaper end every free ride (auditClaims,
\* startBillingTicker).
NoFreeRide == \A id \in Ids :
    (Serving(id) /\ lease[id].runner # "us") ~> (~Serving(id) \/ lease[id].runner = "us")

\* A live lease in our name is served again, or it ends: after a crash, an
\* update reboot that wiped the state, or a teardown, the sweep resumes it
\* first (sweepPartition, considerClaim, tryClaim).
Resumed == \A id \in Ids :
    (Ours(lease[id]) /\ active[id]) ~>
        (Serving(id) \/ ~Ours(lease[id]) \/ ~active[id] \/ reach.tripped)
=============================================================================
