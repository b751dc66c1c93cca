-------------------------------- MODULE TopUps --------------------------------
(***************************************************************************)
(* Card top-ups of a customer's credit vault: the orders of billing.js     *)
(* that become a company USDC deposit through the serial wallet queue of   *)
(* vaultsvc.js, and the float sweep that shares this queue.  The card      *)
(* already paid; what must not happen is a deposit made twice.             *)
(***************************************************************************)
EXTENDS Integers, Sequences, FiniteSets

CONSTANTS
    Ids,        \* top-up orders, all of one account and of one unit each
    Cap,        \* VAULT_CAP_6, in units
    Target,     \* FLOAT_TARGET_6
    Ceiling,    \* FLOAT_CEILING_6
    Refills,    \* bound: units paid out to the wallet by the card processor
    MaxTxs,     \* bound: deposits ever sent
    MaxFaults   \* bound: crashes, lost answers, reverts

VARIABLES
    order,      \* [st, step, tx, flags] of each top-up, durable; a flag is a review not resolved
    settling,   \* settleTopup calls past their plan: [id -> stage]
    txs,        \* deposits sent: [n, id, st]
    float,      \* the wallet's USDC
    credit,     \* the vault's balance
    head,       \* the order whose deposit holds the serial queue, or 0
    silent,     \* orders with a broadcast whose hash never reached their record
    limits      \* [refills, faults]

vars == <<order, settling, txs, float, credit, head, silent, limits>>

Fresh == [st |-> "none", step |-> "none", tx |-> 0, flags |-> {}]
Terminal == {"complete", "expired", "rejected"}
\* The reviews a top-up may be under: a deposit nobody can vouch for, one held back (over
\* the cap, or no key to derive a vault from), and USDC sent to a card-only order.
Reasons == {"uncertain", "held", "usdc"}

Init ==
    /\ order = [o \in Ids |-> Fresh]
    /\ settling = [o \in Ids |-> "no"]
    /\ txs = {} /\ float = Ceiling /\ credit = 0
    /\ head = 0 /\ silent = {}
    /\ limits = [refills |-> Refills, faults |-> MaxFaults]

Fault == limits.faults > 0 /\ limits' = [limits EXCEPT !.faults = @ - 1]
Tx(n) == CHOOSE t \in txs : t.n = n

\* reservedTopup6: what open top-ups can still claim of the wallet.
Reserved == Cardinality({o \in Ids : order[o].st \notin Terminal \union {"none"}})

-----------------------------------------------------------------------------
(* The order                                                                 *)

\* /topup: under the cap, and never beyond what the wallet can deposit.
CreateTopup(o) ==
    /\ order[o].st = "none"
    /\ credit + 1 <= Cap
    /\ float - Reserved >= 1
    /\ order' = [order EXCEPT ![o].st = "awaiting_payment"]
    /\ UNCHANGED <<settling, txs, float, credit, head, silent, limits>>

\* Mutant: an attempt cut short before its hash is simply made again.
TopupPlanTrusting(v) ==
    CASE v.step \in {"none", "failed"} -> "settle"
      [] v.step = "depositing" -> IF v.tx # 0 THEN "verify" ELSE "settle"
      [] OTHER -> "wait"

TopupPlan(v) ==
    CASE v.step \in {"none", "failed"} -> "settle"
      [] v.step = "depositing" ->
            IF v.tx # 0 THEN "verify" ELSE IF "uncertain" \in v.flags THEN "wait" ELSE "review"
      [] OTHER -> "wait"

\* settleTopup up to its first await: one call per order at a time, planned from the record.
SettleTopup(o, v) ==
    LET plan == IF v.st = "crediting" /\ settling[o] = "no" THEN TopupPlan(v) ELSE "wait"
    IN  /\ order' = [order EXCEPT ![o] = IF plan = "review" THEN [v EXCEPT !.flags = @ \union {"uncertain"}]
                                          ELSE v]
        /\ settling' = CASE plan = "verify" -> [settling EXCEPT ![o] = "verify"]
                          [] plan = "settle" -> [settling EXCEPT ![o] = "balance"]
                          [] OTHER -> settling

\* setOrderState: a terminal order stays, an expired one may still go to a human.
Moved(v, to) == IF v.st \in Terminal /\ ~(v.st = "expired" /\ to = "under_review") THEN v
                ELSE [v EXCEPT !.st = to]

\* The webhook, even on an order a human is looking at.
StripeWebhook(o) ==
    /\ order[o].st \notin Terminal \union {"none"}
    /\ SettleTopup(o, Moved(order[o], "crediting"))
    /\ UNCHANGED <<txs, float, credit, head, silent, limits>>

\* USDC sent to a card-only order: nowhere to go but to a human.
UsdcArrives(o) ==
    /\ order[o].st # "none"
    /\ LET v == Moved(order[o], "under_review")
       IN  order' = [order EXCEPT ![o] = [v EXCEPT !.flags = @ \union {"usdc"}]]
    /\ UNCHANGED <<settling, txs, float, credit, head, silent, limits>>

ExpirySweep(o) ==
    /\ order[o].st = "awaiting_payment"
    /\ order' = [order EXCEPT ![o] = Moved(@, "expired")]
    /\ UNCHANGED <<settling, txs, float, credit, head, silent, limits>>

\* sweepCrediting, at boot and on its clock.
SweepCrediting(o) ==
    /\ order[o].st = "crediting"
    /\ SettleTopup(o, order[o])
    /\ UNCHANGED <<txs, float, credit, head, silent, limits>>

\* The reviewer, who has looked at the chain: a record without a hash is
\* cleared only when no deposit of it landed or is on its way.
Approve(o, reason) ==
    /\ reason \in order[o].flags
    /\ LET clears == order[o].step # "done" /\ order[o].tx = 0
           kept   == [order[o] EXCEPT !.flags = @ \ {reason}, !.step = IF clears THEN "none" ELSE @]
       IN  /\ clears => ~\E t \in txs : t.id = o /\ t.st # "reverted"
           /\ SettleTopup(o, IF kept.st = "under_review" THEN Moved(kept, "crediting") ELSE kept)
    /\ UNCHANGED <<txs, float, credit, head, silent, limits>>

Reject(o, reason) ==
    /\ reason \in order[o].flags
    /\ LET kept == [order[o] EXCEPT !.flags = @ \ {reason}]
       IN  order' = [order EXCEPT ![o] = IF kept.st \in {"under_review", "crediting"}
                                          THEN Moved(kept, "rejected") ELSE kept]
    /\ UNCHANGED <<settling, txs, float, credit, head, silent, limits>>

-----------------------------------------------------------------------------
(* Settlement                                                                *)

Ended(o) == settling' = [settling EXCEPT ![o] = "no"]

\* verifyDeposit: done, reverted and free to go again, or nothing a node would tell.
VerifyDeposit(o) ==
    /\ settling[o] = "verify"
    /\ \/ /\ Tx(order[o].tx).st = "success" /\ Ended(o)
          /\ order' = [order EXCEPT ![o] = Moved([@ EXCEPT !.step = "done"], "complete")]
       \/ /\ Tx(order[o].tx).st = "reverted"
          /\ settling' = [settling EXCEPT ![o] = "balance"]
          /\ order' = [order EXCEPT ![o].step = "none", ![o].tx = 0]
       \/ /\ Ended(o)
          /\ \E seen \in BOOLEAN : order' = IF seen THEN order
                                            ELSE [order EXCEPT ![o].flags = @ \union {"uncertain"}]
    /\ UNCHANGED <<txs, float, credit, head, silent, limits>>

\* No key or over the cap: held for review; a balance nobody tells: for the next sweep.
\* Otherwise the intent is written down.
CheckBalance(o) ==
    /\ settling[o] = "balance"
    /\ \/ credit + 1 > Cap /\ Ended(o) /\ limits' = limits
          /\ order' = [order EXCEPT ![o].flags = @ \union {"held"}]
       \/ Fault /\ Ended(o)
          /\ order' \in {order, [order EXCEPT ![o].flags = @ \union {"held"}]}
       \/ /\ credit + 1 <= Cap /\ limits' = limits
          /\ settling' = [settling EXCEPT ![o] = "queue"]
          /\ order' = [order EXCEPT ![o].step = "depositing", ![o].tx = 0]
    /\ UNCHANGED <<txs, float, credit, head, silent>>

\* serial: one user of the wallet at a time.
TakeWallet(o) ==
    /\ settling[o] = "queue" /\ head = 0
    /\ head' = o
    /\ settling' = [settling EXCEPT ![o] = "send"]
    /\ UNCHANGED <<order, txs, float, credit, silent, limits>>

\* The catch of settleTopup: the record fails, unless a reviewer cleared it meanwhile.
Failed(o) ==
    /\ Ended(o) /\ head' = 0
    /\ order' = IF order[o].step = "none" THEN order
                ELSE [order EXCEPT ![o].step = "failed", ![o].tx = 0]

\* depositToVault: the hash is durable the moment the transaction leaves.
Deposit(o) ==
    /\ settling[o] = "send"
    /\ IF float < 1 THEN Failed(o) /\ UNCHANGED <<txs, silent, limits>>
       ELSE /\ Cardinality(txs) < MaxTxs
            /\ LET n == Cardinality(txs) + 1
               IN  \/ /\ order[o].step = "depositing"
                      /\ txs' = txs \union {[n |-> n, id |-> o, st |-> "pending"]}
                      /\ order' = [order EXCEPT ![o].tx = n]
                      /\ settling' = [settling EXCEPT ![o] = "receipt"]
                      /\ UNCHANGED <<head, silent, limits>>
                   \/ /\ order[o].step # "depositing"   \* a reviewer cleared the record
                      /\ txs' = txs \union {[n |-> n, id |-> o, st |-> "pending"]}
                      /\ silent' = silent \union {o}
                      /\ Ended(o) /\ head' = 0 /\ UNCHANGED <<order, limits>>
                   \/ /\ Fault                       \* sent, and the answer lost
                      /\ txs' = txs \union {[n |-> n, id |-> o, st |-> "pending"]}
                      /\ silent' = silent \union {o}
                      /\ Failed(o)
                   \/ /\ Fault                       \* sent, and the process dies
                      /\ txs' = txs \union {[n |-> n, id |-> o, st |-> "pending"]}
                      /\ settling' = [p \in Ids |-> "no"] /\ head' = 0
                      /\ silent' = IF order[o].step = "depositing" THEN silent ELSE silent \union {o}
                      /\ order' = order
                   \/ Fault /\ Failed(o) /\ UNCHANGED <<txs, silent>>
    /\ UNCHANGED <<float, credit>>

Deposited(o) ==
    /\ settling[o] = "receipt" /\ head = o
    /\ LET st == Tx(order[o].tx).st
       IN  \/ /\ st = "success" /\ limits' = limits
              /\ Ended(o) /\ head' = 0
              /\ order' = [order EXCEPT ![o] = Moved([@ EXCEPT !.step = "done"], "complete")]
           \/ st = "reverted" /\ Failed(o) /\ limits' = limits
           \/ Fault /\ Ended(o) /\ head' = 0 /\ order' = order     \* the receipt never came
    /\ UNCHANGED <<txs, float, credit, silent>>

-----------------------------------------------------------------------------
(* The float                                                                 *)

Greater(a, b) == IF a > b THEN a ELSE b
FloatSweepAmount ==
    LET keep == Greater(Reserved, Target)
    IN  IF float > Ceiling /\ float > keep THEN float - keep ELSE 0

\* floatPass: recomputed inside the queue, then sent.
FloatPass ==
    /\ head = 0 /\ FloatSweepAmount > 0
    /\ float' = float - FloatSweepAmount
    /\ UNCHANGED <<order, settling, txs, credit, head, silent, limits>>

Payout ==
    /\ limits.refills > 0
    /\ limits' = [limits EXCEPT !.refills = @ - 1]
    /\ float' = float + 1
    /\ UNCHANGED <<order, settling, txs, credit, head, silent>>

Mine ==
    /\ \E t \in txs :
        /\ t.st = "pending"
        /\ \/ /\ float >= 1
              /\ txs' = (txs \ {t}) \union {[t EXCEPT !.st = "success"]}
              /\ float' = float - 1 /\ credit' = credit + 1 /\ limits' = limits
           \/ /\ txs' = (txs \ {t}) \union {[t EXCEPT !.st = "reverted"]}
              /\ Fault /\ UNCHANGED <<float, credit>>
    /\ UNCHANGED <<order, settling, head, silent>>

\* The customer spends credit.
Spend ==
    /\ credit > 0 /\ credit' = credit - 1
    /\ UNCHANGED <<order, settling, txs, float, head, silent, limits>>

Crash ==
    /\ Fault
    /\ settling' = [o \in Ids |-> "no"] /\ head' = 0
    /\ UNCHANGED <<order, txs, float, credit, silent>>

-----------------------------------------------------------------------------
Next ==
    \/ \E o \in Ids :
        \/ CreateTopup(o) \/ StripeWebhook(o) \/ UsdcArrives(o) \/ ExpirySweep(o)
        \/ SweepCrediting(o) \/ \E reason \in Reasons : Approve(o, reason) \/ Reject(o, reason)
        \/ VerifyDeposit(o) \/ CheckBalance(o) \/ TakeWallet(o)
        \/ Deposit(o) \/ Deposited(o)
    \/ FloatPass \/ Payout \/ Mine \/ Spend \/ Crash

Spec == Init /\ [][Next]_vars

\* A top-up is deposited at most once, through crashes at every step, receipt
\* timeouts, reverts, webhook retries and reviews, as long as the hash of every
\* broadcast reached its record (settleTopup, topupPlan, depositToVault).
CreditedOnce ==
    \A o \in Ids \ silent :
        Cardinality({t \in txs : t.id = o /\ t.st # "reverted"}) <= 1
===============================================================================
