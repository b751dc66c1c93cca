---------------------------- MODULE LedgerMove ----------------------------
(***************************************************************************)
(* The admin console's migration of the deployments ledger                 *)
(* (src/site/components/admin-console/migrate.js and the mig- actions of   *)
(* admin-console.js): sweep the source, read it, import what the target    *)
(* lacks, back the escrow, verify, seal.  The source lives on meanwhile,   *)
(* transactions are dropped or land late, the operator changes the target  *)
(* and clicks again, and the seal is for good.                             *)
(***************************************************************************)
EXTENDS Integers, Sequences, FiniteSets

CONSTANTS
    Start,       \* the source's records when the console is opened
    Targets,     \* freshly deployed ledgers
    Grants,      \* BOOLEAN: the box that grants a runner rate to those without one
    MaxMoves,    \* bound: what happens on the source meanwhile
    MaxClicks,   \* bound: runs of the operator
    MaxFaults    \* bound: failing reads, dropped and late transactions

VARIABLES
    src,     \* [rec, retired, seq]: the live ledger
    tgt,     \* per target [rec, sealed, owner]
    con,     \* the console: [data, read, target, ran, verified, clean, armed, sweep], and, of its
             \* history, when the data was read and whether a clean verdict or the seal's arming still stand
    work,    \* the run under way: [step, at, by, size, calls]
    late,    \* transactions given up on that may still land
    budget

vars == <<src, tgt, con, work, late, budget>>

Records == DOMAIN Start
Rate == 1        \* what every record pays; a cap of its own is another number
NoEntry == [there |-> FALSE, bal |-> 0, fee |-> 0, earn |-> 0, cap |-> 0, on |-> FALSE, escrow |-> 0]
NoWork == [step |-> "idle", at |-> 0, by |-> "wallet", size |-> "big", calls |-> <<>>]

Init ==
    /\ src = [rec |-> Start, retired |-> FALSE, seq |-> 0]
    /\ tgt = [t \in Targets |-> [rec |-> [r \in Records |-> NoEntry], sealed |-> FALSE, owner |-> "wallet"]]
    /\ con = [data |-> [r \in Records |-> NoEntry], read |-> FALSE, target |-> 1, ran |-> FALSE, verified |-> FALSE,
              clean |-> FALSE, armed |-> "no", sweep |-> [stop |-> {}, refund |-> {}], since |-> 0, stands |-> "none"]
    /\ work = NoWork /\ late = <<>>
    /\ budget = [moves |-> MaxMoves, clicks |-> MaxClicks, faults |-> MaxFaults]

Idle == work.step = "idle"
Fault == budget.faults > 0 /\ budget' = [budget EXCEPT !.faults = @ - 1]
Click == budget.clicks > 0 /\ budget' = [budget EXCEPT !.clicks = @ - 1]

-----------------------------------------------------------------------------
(* The source, and its sweep                                                 *)

Alter(r, e) == src' = [src EXCEPT !.rec[r] = e, !.seq = @ + 1]
\* An owner creates a record, spends it down, changes its cap.
Moves ==
    /\ budget.moves > 0 /\ budget' = [budget EXCEPT !.moves = @ - 1]
    /\ \E r \in Records : LET e == src.rec[r] IN
         \/ ~e.there /\ ~src.retired /\ Alter(r, [e EXCEPT !.there = TRUE, !.bal = 1, !.earn = 1, !.cap = Rate, !.on = TRUE])
         \/ e.bal > 0 /\ Alter(r, [e EXCEPT !.bal = 0])
         \/ e.there /\ e.cap = Rate /\ Alter(r, [e EXCEPT !.cap = Rate + 1])
    /\ UNCHANGED <<tgt, con, work, late>>

\* refundSweepPlan: the wallet's records to suspend and to send home, everyone's on a
\* retired ledger; record 1 is the wallet's own.
Mine(r) == r = 1 \/ src.retired
Funded(r) == src.rec[r].there /\ src.rec[r].bal > 0
NoSweep == [stop |-> {}, refund |-> {}]
SweepScan ==
    /\ Idle /\ Click
    /\ con' = [con EXCEPT !.sweep = [stop |-> {r \in Records : Mine(r) /\ Funded(r) /\ src.rec[r].on /\ ~src.retired},
                                    refund |-> {r \in Records : Mine(r) /\ Funded(r)}]]
    /\ UNCHANGED <<src, tgt, work, late>>
\* A batch that lands makes the plan stale; one with a record already spent reverts whole.
SweepSend(what) ==
    /\ Idle /\ con.sweep[what] # {}
    /\ IF what = "refund" /\ \E r \in con.sweep[what] : ~Funded(r) THEN UNCHANGED <<src, con>>
       ELSE /\ src' = [src EXCEPT !.rec = [r \in Records |-> IF r \notin con.sweep[what] THEN @[r]
                         ELSE IF what = "stop" THEN [@[r] EXCEPT !.on = FALSE] ELSE [@[r] EXCEPT !.bal = 0]], !.seq = @ + 1]
            /\ con' = [con EXCEPT !.sweep = NoSweep]
    /\ UNCHANGED <<tgt, work, late, budget>>
Retire == Idle /\ ~src.retired /\ Click /\ src' = [src EXCEPT !.retired = TRUE, !.seq = @ + 1]
          /\ con' = [con EXCEPT !.sweep = NoSweep] /\ UNCHANGED <<tgt, work, late>>

-----------------------------------------------------------------------------
(* Reading                                                                   *)

Unread == [NoEntry EXCEPT !.cap = 9]
\* Mutant: an empty answer counts as zero.
ZeroFor(e) == [e EXCEPT !.fee = 0]
\* call: an answer that comes back empty, all retries over, fails the read.
Lagging(e) == Unread

\* readDeployments: the records page by page, then fee, earnings and cap of each.
ReadRows ==
    /\ Idle /\ Click
    /\ work' = [NoWork EXCEPT !.step = "sides", !.calls = <<src.rec, src.seq>>]
    /\ UNCHANGED <<src, tgt, con, late>>
ReadSides(ok) ==
    /\ work.step = "sides" /\ (~ok => budget.faults > 0)
    /\ budget' = [budget EXCEPT !.faults = @ - IF ok THEN 0 ELSE 1]
    /\ LET rows == work.calls[1]
           side(r) == IF rows[r].there THEN [rows[r] EXCEPT !.fee = src.rec[r].fee, !.earn = src.rec[r].earn, !.cap = src.rec[r].cap]
                      ELSE NoEntry
           answered(r) == IF ok THEN side(r) ELSE Lagging(side(r))
       IN  con' = IF \E r \in Records : answered(r) = Unread THEN con
                  ELSE [con EXCEPT !.data = [r \in Records |-> [answered(r) EXCEPT !.escrow = 0]], !.read = TRUE,
                                   !.since = work.calls[2], !.stands = "none"]
    /\ work' = NoWork /\ UNCHANGED <<src, tgt, late>>

\* The target's field is typed over; a repaint puts the seal's button back.
PickTarget(t) == t # con.target /\ con' = [con EXCEPT !.target = t, !.stands = "none"]
                 /\ UNCHANGED <<src, tgt, work, late, budget>>
Repaint == con.armed # "no" /\ con' = [con EXCEPT !.armed = "no", !.stands = "none"]
          /\ UNCHANGED <<src, tgt, work, late, budget>>

-----------------------------------------------------------------------------
(* Importing                                                                 *)

\* grantedRate6: a rate for a record that has none.
Granted(e) == IF e.earn = 0 /\ Grants THEN 1 ELSE e.earn

\* MIG_KINDS.deployments.plan: what the target, as read now, lacks of the data.
Plan(t) ==
    LET has == tgt[t].rec
        all == {r \in Records : con.data[r].there}
        calls == <<[do |-> "import", ids |-> {r \in all : ~has[r].there}],
                   [do |-> "fees", ids |-> {r \in all : con.data[r].fee # 0 /\ has[r].fee = 0}],
                   [do |-> "earn", ids |-> {r \in all : Granted(con.data[r]) # 0 /\ has[r].earn = 0}],
                   [do |-> "caps", ids |-> {r \in all : con.data[r].cap # Rate /\ con.data[r].cap # has[r].cap}]>>
    IN  SelectSeq(calls, LAMBDA c : c.ids # {})

\* packPlan: as many calls in one transaction as the gas budget lets; each carries the data.
Pack(calls, size) ==
    LET with == [i \in DOMAIN calls |-> [do |-> calls[i].do, ids |-> calls[i].ids, data |-> con.data]]
    IN  IF calls = <<>> THEN <<>> ELSE IF size = "big" THEN <<with>> ELSE [i \in DOMAIN with |-> <<with[i]>>]

\* What the target does with a call: importDeployments refuses a record it has.
Written(c, e, r) ==
    CASE c.do = "import" -> [NoEntry EXCEPT !.there = TRUE, !.bal = c.data[r].bal, !.cap = Rate, !.on = c.data[r].on]
      [] c.do = "fees" -> [e EXCEPT !.fee = c.data[r].fee]
      [] c.do = "earn" -> [e EXCEPT !.earn = Granted(c.data[r])]
      [] c.do = "caps" -> [e EXCEPT !.cap = c.data[r].cap]
      [] c.do = "fund" -> [e EXCEPT !.escrow = @ + 1]
Fails(c, rec) == \E r \in c.ids : rec[r].there = (c.do = "import")
After(rec, c) == [r \in Records |-> IF r \in c.ids THEN Written(c, rec[r], r) ELSE rec[r]]

Tables(rec, calls) ==
    LET run[i \in 0 .. Len(calls)] == IF i = 0 THEN rec ELSE After(run[i - 1], calls[i]) IN run
Reverts(t, by, calls) ==
    LET run == Tables(tgt[t].rec, calls)
    IN  \/ \E i \in DOMAIN calls : Fails(calls[i], run[i - 1])
        \/ calls[1].do # "fund" /\ (tgt[t].sealed \/ tgt[t].owner # by)
Landed(t, calls) == [tgt EXCEPT ![t].rec = Tables(@, calls)[Len(calls)]]

\* mig-run: checked against the target, planned, sent batch by batch.
Runnable == Idle /\ con.read
Migrate ==
    /\ Runnable /\ Click /\ ~tgt[con.target].sealed
    /\ work' = [NoWork EXCEPT !.step = "plan", !.at = con.target]
    /\ UNCHANGED <<src, tgt, con, late>>

\* mig-run1: the target goes to the migrator, who imports, and comes back verified.
MigrateUnattended ==
    /\ Runnable /\ Click /\ ~tgt[con.target].sealed
    /\ LET t == con.target IN
       /\ work' = [NoWork EXCEPT !.step = "plan", !.at = t, !.by = "migrator"]
       /\ tgt' = [tgt EXCEPT ![t].owner = "migrator"]
    /\ UNCHANGED <<src, con, late>>

\* Every pass reads the target again; nothing left to send ends the run.
PlanPass ==
    /\ work.step = "plan"
    /\ LET txs == Pack(Plan(work.at), work.size)
       IN  IF txs # <<>> THEN work' = [work EXCEPT !.step = "send", !.calls = txs] /\ UNCHANGED con
           ELSE /\ work' = IF work.by = "migrator" THEN [work EXCEPT !.step = "check"] ELSE NoWork
                /\ con' = [con EXCEPT !.ran = TRUE]
    /\ UNCHANGED <<src, tgt, late, budget>>

Stop == work' = NoWork
Send(how) ==
    /\ work.step = "send"
    /\ LET tx == Head(work.calls)  rest == Tail(work.calls)
       IN  CASE how = "lands" /\ Reverts(work.at, work.by, tx) -> Stop /\ UNCHANGED <<tgt, con, late, budget>>
             [] how = "lands" /\ ~Reverts(work.at, work.by, tx) ->
                  /\ tgt' = Landed(work.at, tx)
                  /\ con' = [con EXCEPT !.stands = "none", !.ran = @ \/ rest = <<>>]
                  /\ work' = CASE rest # <<>> -> [work EXCEPT !.calls = rest]
                               [] rest = <<>> /\ work.by = "migrator" -> [work EXCEPT !.step = "check", !.calls = <<>>]
                               [] OTHER -> NoWork
                  /\ UNCHANGED <<late, budget>>
             \* never relayed: half the budget, and the plan anew
             [] how = "dropped" ->
                  /\ Fault /\ UNCHANGED <<tgt, con, late>>
                  /\ work' = IF work.size = "big" /\ work.by = "wallet" THEN [work EXCEPT !.step = "plan", !.size = "small", !.calls = <<>>]
                             ELSE NoWork
             \* the wait ends first; the transaction does not
             [] how = "late" ->
                  Fault /\ Stop /\ late' = Append(late, [at |-> work.at, by |-> work.by, calls |-> tx]) /\ UNCHANGED <<tgt, con>>
    /\ UNCHANGED src
LandsLate ==
    /\ late # <<>> /\ late' = Tail(late)
    /\ LET x == Head(late)
       IN  IF Reverts(x.at, x.by, x.calls) THEN UNCHANGED <<tgt, con>>
           ELSE tgt' = Landed(x.at, x.calls) /\ con' = [con EXCEPT !.stands = "none"]
    /\ UNCHANGED <<src, work, budget>>

-----------------------------------------------------------------------------
(* Backing, verifying, sealing                                               *)

\* escrowPlan: what runner and owner would be owed of the balance the target carries.
Unbacked(t) == {r \in Records : LET e == tgt[t].rec[r] IN e.there /\ e.earn # 0 /\ e.on /\ e.bal > e.escrow}
BackEscrow ==
    /\ Runnable /\ con.ran /\ Click
    /\ IF Unbacked(con.target) = {} THEN UNCHANGED work
       ELSE work' = [NoWork EXCEPT !.step = "send", !.at = con.target, !.size = "small",
                        !.calls = << <<[do |-> "fund", ids |-> Unbacked(con.target), data |-> con.data]>> >>]
    /\ UNCHANGED <<src, tgt, con, late>>

\* Mutant: the side mappings are not compared.
MatchesTuple(d, e, grants) == d.there => (e.there /\ e.bal = d.bal /\ e.on = d.on)
\* verify: every record read is there, with its economics; a granted rate is expected.
Matches(d, e, grants) ==
    d.there => /\ e.there /\ e.bal = d.bal /\ e.on = d.on /\ e.fee = d.fee /\ e.cap = d.cap
               /\ e.earn = IF grants THEN Granted(d) ELSE d.earn
Clean(t, grants) == \A r \in Records : Matches(con.data[r], tgt[t].rec[r], grants)

Verify ==
    /\ con.read /\ Click
    /\ con' = [con EXCEPT !.verified = TRUE, !.clean = Clean(con.target, Grants),
                            !.stands = IF Clean(con.target, Grants) THEN "verdict" ELSE "none"]
    /\ UNCHANGED <<src, tgt, work, late>>

\* The unattended run verifies without the grants, offers the target back when clean,
\* and the wallet accepts; the verdict is not kept for the seal.
HandBack ==
    /\ work.step = "check"
    /\ IF Clean(work.at, FALSE) /\ tgt[work.at].owner = "migrator"
       THEN /\ tgt' = [tgt EXCEPT ![work.at].owner = "wallet"] /\ con' = [con EXCEPT !.ran = TRUE, !.verified = TRUE]
       ELSE UNCHANGED <<tgt, con>>
    /\ Stop /\ UNCHANGED <<src, late, budget>>

\* mig-seal: the first click warns of missing backing, else of a verdict that is not
\* clean, else asks once more; the next one seals, whatever it was armed for.
Arm == CASE Unbacked(con.target) # {} -> "warned"
         [] Unbacked(con.target) = {} /\ ~con.clean -> "warned"
         [] OTHER -> "asked"
ClickSeal ==
    /\ con.read /\ con.verified /\ con.armed = "no"
    /\ con' = [con EXCEPT !.armed = Arm, !.stands = IF Arm = "asked" /\ @ = "verdict" THEN "arming" ELSE "none"]
    /\ UNCHANGED <<src, tgt, work, late, budget>>
Seal ==
    /\ con.read /\ con.verified /\ con.armed # "no"
    /\ con' = [con EXCEPT !.armed = "no", !.stands = "none"]
    /\ tgt' = IF tgt[con.target].owner = "wallet" THEN [tgt EXCEPT ![con.target].sealed = TRUE] ELSE tgt
    /\ UNCHANGED <<src, work, late, budget>>

Next ==
    \/ Moves \/ SweepScan \/ (\E what \in {"stop", "refund"} : SweepSend(what)) \/ Retire \/ ReadRows \/ (\E ok \in BOOLEAN : ReadSides(ok))
    \/ (\E t \in Targets : PickTarget(t)) \/ Repaint \/ Migrate \/ MigrateUnattended \/ PlanPass
    \/ (\E how \in {"lands", "dropped", "late"} : Send(how)) \/ LandsLate
    \/ BackEscrow \/ Verify \/ HandBack \/ ClickSeal \/ Seal

Spec == Init /\ [][Next]_vars

-----------------------------------------------------------------------------
(* What the seal rests on                                                    *)

\* A seal asked for after a clean verdict on this target, with nothing read, typed or landed
\* in between, makes permanent what the source holds if it stood still since it was read:
\* fees, caps and runner rates included, with every balance backed.
SealsTheSource ==
    \A t \in Targets :
       (~tgt[t].sealed /\ tgt'[t].sealed /\ con.stands = "arming" /\ con.since = src.seq)
          => \A r \in Records : LET s == src.rec[r]  e == tgt[t].rec[r] IN
                s.there => /\ e.there /\ e.bal = s.bal /\ e.fee = s.fee /\ e.cap = s.cap /\ e.earn = Granted(s)
                           /\ (e.on /\ e.earn # 0) => e.escrow >= e.bal
=============================================================================
