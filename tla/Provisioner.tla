----------------------------- MODULE Provisioner -----------------------------
(***************************************************************************)
(* The company wallet that turns a paid order into a funded deployment     *)
(* (src/relay/provisioner.js): a serial queue whose steps are written down *)
(* before each transaction and replanned from the receipts after a crash.  *)
(***************************************************************************)
EXTENDS Integers, Sequences, FiniteSets

CONSTANTS
    Orders,     \* paid orders
    MaxTxs,     \* bound: transactions ever sent
    MaxFaults   \* bound: crashes, reverts, timeouts, lost answers, blind nodes

VARIABLES
    prov,       \* order.provision and whether the order is complete, as on disk
    queue,      \* orders waiting, in memory
    run,        \* the order in hand: [id, at]
    txs,        \* the wallet's transactions: [n, id, kind, dep, st]
    torn,       \* orders whose transaction left no hash on disk, or whose mined
                \* transaction a node denied
    faults

vars == <<prov, queue, run, txs, torn, faults>>

Nobody == [id |-> 0, at |-> "idle"]
Unplanned == [step |-> "none", create |-> 0, dep |-> 0, fund |-> 0]

Init ==
    /\ prov = [o \in Orders |-> Unplanned]
    /\ queue = <<>>
    /\ run = Nobody
    /\ txs = {}
    /\ torn = {}
    /\ faults = MaxFaults

Fault == faults > 0 /\ faults' = faults - 1
NewTx == Cardinality(txs) + 1
Tx(n) == CHOOSE t \in txs : t.n = n

-----------------------------------------------------------------------------
(* The queue                                                                 *)

\* recoverProvisioning, the webhook or the indexer: queued once, never while in hand.
EnqueueProvision(o) ==
    /\ prov[o].step # "complete" /\ run.id # o
    /\ \A i \in 1 .. Len(queue) : queue[i] # o
    /\ queue' = Append(queue, o)
    /\ UNCHANGED <<prov, run, txs, torn, faults>>

Drain ==
    /\ run = Nobody /\ queue # <<>>
    /\ queue' = Tail(queue)
    /\ run' = IF prov[Head(queue)].step = "complete" THEN Nobody
              ELSE [id |-> Head(queue), at |-> "plan"]
    /\ UNCHANGED <<prov, txs, torn, faults>>

-----------------------------------------------------------------------------
(* What the chain says of a hash                                             *)

\* txStatus; a node that lost its mind denies what it knows.
Status(n) == IF n = 0 THEN "null" ELSE Tx(n).st
SaidOf(n, said) ==
    \/ said = Status(n) /\ UNCHANGED <<torn, faults>>
    \/ n # 0 /\ said = "null" /\ Status(n) # "null" /\ Fault /\ torn' = torn \union {run.id}

\* Mutant: a transaction still in flight is sent again.
PlanSendsAgain(p, create, fund) ==
    CASE p.step = "none" -> "send_create"
      [] p.step = "creating" -> IF create = "success" THEN "fund" ELSE "send_create"
      [] p.step = "funding" -> IF fund = "success" THEN "complete" ELSE "send_fund"
      [] OTHER -> "complete"

PlanRecovery(p, create, fund) ==
    CASE p.step = "none" -> "send_create"
      [] p.step = "creating" ->
            IF p.create = 0 THEN "send_create"
            ELSE IF create = "pending" THEN "hold"
            ELSE IF create = "null" THEN "adopt_or_resend_create"
            ELSE IF create = "success" THEN "fund" ELSE "send_create"
      [] p.step = "funding" ->
            IF p.dep = 0 THEN "adopt_or_resend_create"
            ELSE IF p.fund = 0 THEN "send_fund"
            ELSE IF fund = "pending" THEN "hold"
            ELSE IF fund = "success" THEN "complete" ELSE "send_fund"
      [] OTHER -> "complete"

Stop == run' = Nobody

\* provisionOrder: the balance guard, then the plan from the receipts.
Plan ==
    /\ run.at = "plan"
    /\ \E create, fund \in {"null", "pending", "success", "reverted"} :
        LET p == prov[run.id]
            plan == PlanRecovery(p, create, fund)
        IN  /\ \/ SaidOf(p.create, create) /\ fund = Status(p.fund)
               \/ SaidOf(p.fund, fund) /\ create = Status(p.create)
            /\ CASE plan = "hold" -> Stop
                 [] plan = "send_create" -> run' = [run EXCEPT !.at = "create"]
                 [] plan = "adopt_or_resend_create" -> run' = [run EXCEPT !.at = "scan"]
                 [] OTHER -> run' = [run EXCEPT !.at = "fund"]
    /\ UNCHANGED <<prov, queue, txs>>

\* Not enough in the wallet, no ledger address yet, or a schema read that failed.
Underfunded ==
    /\ run.at \in {"plan", "create"} /\ Fault /\ Stop
    /\ UNCHANGED <<prov, queue, txs, torn>>

-----------------------------------------------------------------------------
(* create                                                                    *)

Created == {t \in txs : t.kind = "create" /\ t.st = "success"}
Mapped == {prov[o].dep : o \in Orders}
Orphans == {t \in Created : t.n \notin Mapped}

\* adoptOrphanCreate: one unmapped deployment of ours is this order's; two
\* are for a human; a scan that fails falls through to a fresh create.
AdoptOrphanCreate ==
    /\ run.at = "scan"
    /\ \/ /\ Cardinality(Orphans) = 1
          /\ LET t == CHOOSE t \in Orphans : TRUE
             IN  prov' = [prov EXCEPT ![run.id] = [@ EXCEPT !.step = "funding", !.create = t.n,
                                                              !.dep = t.n]]
          /\ run' = [run EXCEPT !.at = "plan"] /\ faults' = faults
       \/ Cardinality(Orphans) > 1 /\ Stop /\ UNCHANGED <<prov, faults>>
       \/ Orphans = {} /\ run' = [run EXCEPT !.at = "create"] /\ UNCHANGED <<prov, faults>>
       \/ Fault /\ run' = [run EXCEPT !.at = "create"] /\ prov' = prov
    /\ torn' = IF faults' # faults THEN torn \union {run.id} ELSE torn
    /\ UNCHANGED <<queue, txs>>

\* The step is durable before the transaction, the hash before the receipt.
WriteAheadCreate ==
    /\ run.at = "create"
    /\ prov' = [prov EXCEPT ![run.id] = [Unplanned EXCEPT !.step = "creating"]]
    /\ run' = [run EXCEPT !.at = "send_create"]
    /\ UNCHANGED <<queue, txs, torn, faults>>

\* A broadcast: its hash is written down at once, or it is not (a crash in
\* between, an answer that is lost), or nothing left the wallet.
Send(kind) ==
    /\ Cardinality(txs) < MaxTxs
    /\ \/ /\ txs' = txs \union {[n |-> NewTx, id |-> run.id, kind |-> kind,
                                  dep |-> prov[run.id].dep, st |-> "pending"]}
          /\ prov' = IF kind = "create" THEN [prov EXCEPT ![run.id].create = NewTx]
                                         ELSE [prov EXCEPT ![run.id].fund = NewTx]
          /\ run' = [run EXCEPT !.at = IF kind = "create" THEN "create_sent" ELSE "fund_sent"]
          /\ UNCHANGED <<queue, torn, faults>>
       \/ /\ Fault
          /\ \/ /\ txs' = txs \union {[n |-> NewTx, id |-> run.id, kind |-> kind,
                                        dep |-> prov[run.id].dep, st |-> "pending"]}
                /\ torn' = torn \union {run.id}
             \/ UNCHANGED <<txs, torn>>
          /\ Stop
          /\ UNCHANGED <<prov, queue>>

SendCreate == run.at = "send_create" /\ Send("create")

CreateMined ==
    /\ run.at = "create_sent"
    /\ CASE Status(prov[run.id].create) = "success" ->
              /\ prov' = [prov EXCEPT ![run.id] = [@ EXCEPT !.step = "funding", !.dep = prov[run.id].create]]
              /\ run' = [run EXCEPT !.at = "fund"]
         [] Status(prov[run.id].create) = "reverted" -> Stop /\ prov' = prov
         [] OTHER -> FALSE
    /\ UNCHANGED <<queue, txs, torn, faults>>

-----------------------------------------------------------------------------
(* fund                                                                      *)

\* No deployment yet, or a fund still in flight: hold for the next sweep.
PlanFund ==
    /\ run.at = "fund"
    /\ \E fund \in {"null", "pending", "success", "reverted"} :
        LET p == prov[run.id]
        IN  /\ SaidOf(p.fund, fund)
            /\ IF p.dep = 0 \/ fund = "pending" THEN Stop
               ELSE run' = [run EXCEPT !.at = IF PlanRecovery(p, "null", fund) = "complete"
                                                THEN "done" ELSE "send_fund"]
    /\ UNCHANGED <<prov, queue, txs>>

SendFund == run.at = "send_fund" /\ Send("fund")

FundMined ==
    /\ run.at = "fund_sent"
    /\ CASE Status(prov[run.id].fund) = "success" -> run' = [run EXCEPT !.at = "done"]
         [] Status(prov[run.id].fund) = "reverted" -> Stop
         [] OTHER -> FALSE
    /\ UNCHANGED <<prov, queue, txs, torn, faults>>

\* waitForTransactionReceipt gives up after two minutes; the sweep comes back.
ReceiptTimeout ==
    /\ run.at \in {"create_sent", "fund_sent"} /\ Fault /\ Stop
    /\ UNCHANGED <<prov, queue, txs, torn>>

Complete ==
    /\ run.at = "done"
    /\ prov' = [prov EXCEPT ![run.id].step = "complete"]
    /\ Stop
    /\ UNCHANGED <<queue, txs, torn, faults>>

-----------------------------------------------------------------------------
Mine ==
    /\ \E t \in txs : /\ t.st = "pending"
                      /\ \/ txs' = (txs \ {t}) \union {[t EXCEPT !.st = "success"]} /\ faults' = faults
                         \/ txs' = (txs \ {t}) \union {[t EXCEPT !.st = "reverted"]} /\ Fault
    /\ UNCHANGED <<prov, queue, run, torn>>

Crash ==
    /\ Fault
    /\ run' = Nobody /\ queue' = <<>>
    /\ UNCHANGED <<prov, txs, torn>>

Next ==
    \/ \E o \in Orders : EnqueueProvision(o)
    \/ Drain \/ Plan \/ Underfunded \/ AdoptOrphanCreate
    \/ WriteAheadCreate \/ SendCreate \/ CreateMined
    \/ PlanFund \/ SendFund \/ FundMined \/ ReceiptTimeout \/ Complete
    \/ Mine \/ Crash

Spec == Init /\ [][Next]_vars

\* An order is converted once: through crashes, reverts and receipt timeouts
\* it gets one deployment, and that deployment is funded once, as long as
\* every broadcast left its hash on disk and no node denied a known
\* transaction (planRecovery's promise, provisioner.js:12).
ConvertedOnce ==
    \A o \in Orders \ torn :
        \A kind \in {"create", "fund"} :
            Cardinality({t \in txs : t.id = o /\ t.kind = kind /\ t.st \in {"pending", "success"}}) <= 1
===============================================================================
