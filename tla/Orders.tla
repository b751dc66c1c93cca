-------------------------------- MODULE Orders --------------------------------
(***************************************************************************)
(* The relay's order book (src/relay/billing.js) fed by the log scanner of *)
(* src/relay/indexer.js and by the card processor's webhook.  The chain is *)
(* a list of router payments, one block each; the nodes that answer may    *)
(* lag behind one another.  orders.json and review-queue.json are written  *)
(* at once, the cursor by a timer; the disk may refuse any write a payment *)
(* makes, which leaves the process ahead of its files (store.js flush).    *)
(***************************************************************************)
EXTENDS Integers, Sequences, FiniteSets, FiniteSetsExt

CONSTANTS
    Quote,          \* the order's price, in units of payment
    Confirmations,  \* INDEXER_CONFIRMATIONS
    Rescan,         \* INDEXER_RESCAN_BLOCKS
    Chunk,          \* INDEXER_CHUNK_BLOCKS
    Catchup,        \* INDEXER_MAX_CATCHUP_BLOCKS
    Lag,            \* how far a node may trail the tip it was asked about
    MaxBlocks,      \* bound: blocks
    MaxPays,        \* bound: blocks that hold a payment
    MaxFaults       \* bound: restarts, failed reads and refused writes

VARIABLES
    chain,      \* per block: the payment it holds, or NoPay
    order,      \* the order: [st, flags, due]; due says its TTL has passed
    booked,     \* blocks whose payment is in usdc.payments
    strays,     \* blocks with an unmatched payment that got a review item
    reviews,    \* reasons of the open review items
    disk,       \* the two files: [order, booked] and [reviews, strays]
    refused,    \* blocks whose first write the disk refused
    torn,       \* blocks whose handler threw at a write, the first or a later one
    inHand,     \* the provisioner works on the order
    cursor,     \* fromBlock, in memory
    over,       \* blocks the catch-up clamp passed over
    seen,       \* _seen, in memory
    job,        \* the poll in flight: [to, safe, logs] or Idle
    faults

history == <<refused, torn>>
scanner == <<cursor, over, seen, job>>
vars == <<chain, order, booked, strays, reviews, disk, history, inHand, scanner, faults>>

NoPay == [amt |-> 0, who |-> "none", ours |-> FALSE]
Idle == [to |-> -1, safe |-> -1, logs |-> {}]
Tip == Len(chain)
\* "ofac_hit" stands for a hit and for screening data too old to tell.
HumanOnly == {"ofac_hit", "payment_after_expiry", "partial_payment_expired"}
Terminal == {"complete", "expired", "rejected"}

Paid(S) == MapThenSumSet(LAMBDA n : chain[n].amt, S)

Init ==
    /\ chain = <<>>
    /\ order = [st |-> "awaiting_payment", flags |-> {}, due |-> FALSE]
    /\ booked = {} /\ strays = {} /\ reviews = {}
    /\ disk = [order |-> order, booked |-> {}, reviews |-> {}, strays |-> {}]
    /\ refused = {} /\ torn = {}
    /\ inHand = FALSE
    /\ cursor = 1
    /\ over = {}
    /\ seen = {}
    /\ job = Idle
    /\ faults = MaxFaults

Fault == faults > 0 /\ faults' = faults - 1

-----------------------------------------------------------------------------
(* The chain                                                                 *)

Block ==
    /\ Tip < MaxBlocks
    /\ \E p \in {NoPay} \union [amt : 1 .. Quote, who : {"clean"}, ours : {TRUE}]
                 \union [amt : {1}, who : {"tainted"}, ours : {TRUE}]
                 \union [amt : {1}, who : {"clean"}, ours : {FALSE}] :
        /\ p = NoPay \/ Cardinality({n \in 1 .. Tip : chain[n] # NoPay}) < MaxPays
        /\ chain' = Append(chain, p)
    /\ UNCHANGED <<order, booked, strays, reviews, disk, history, inHand, scanner, faults>>

-----------------------------------------------------------------------------
(* The order's states                                                        *)

\* setOrderState: a terminal order never moves, except expired to review.
Moved(o, to) ==
    IF o.st \in Terminal /\ ~(o.st = "expired" /\ to = "under_review") THEN o
    ELSE [o EXCEPT !.st = to]

Flagged(o, reason) == [o EXCEPT !.flags = @ \union {reason}]

\* evaluatePayment on what has arrived in all, tolerances aside.
Enough(total) == total >= Quote
TooMuch(total) == total > Quote

\* What is in memory when a handler writes: the order, the review items and whether the
\* queue was written by then.  A handler's decision is the list of its writes.
Held(o, r, filed) == [order |-> o, reviews |-> r, filed |-> filed]
Screened == Held(order, reviews, FALSE)

\* openReview: the item, then the order that carries its flag.
Opens(reason) ==
    LET r == reviews \union {reason}
    IN  <<Held(order, r, TRUE), Held(Flagged(order, reason), r, TRUE)>>
ToReview(reason) ==
    LET o == Moved(order, "under_review")
        r == reviews \union {reason}
    IN  <<Screened, Held(o, reviews, FALSE), Held(o, r, TRUE), Held(Flagged(o, reason), r, TRUE)>>

Provision(total) ==
    LET o == Moved(order, "confirmed_provisioning")
        r == reviews \union {"large_overpayment"}
    IN  IF TooMuch(total) THEN <<Screened, Held(order, r, TRUE), Held(o, r, TRUE)>>
        ELSE <<Screened, Held(o, reviews, FALSE)>>
Underpaid == IF order.st = "under_review" THEN <<Screened>> ELSE ToReview("underpayment")

\* Mutant: a clean payment heals whatever the review was about.
VerdictHealsAll(total) == IF Enough(total) THEN Provision(total) ELSE Underpaid

\* The tolerance verdict on a screened payment; only underpayment heals by itself.
Verdict(total) ==
    IF ~Enough(total) THEN Underpaid
    ELSE IF order.st = "under_review" /\ order.flags \intersect HumanOnly # {} THEN <<Screened>>
    ELSE Provision(total)

\* handleConfirmedPayment on a payment just booked: screen, then decide.
Decision(n) ==
    IF order.st \in {"complete", "rejected"} THEN Opens("payment_after_settlement")
    ELSE IF chain[n].who = "tainted" THEN ToReview("ofac_hit")
    ELSE IF order.st = "expired" \/ order.due THEN ToReview("payment_after_expiry")
    ELSE Verdict(Paid(booked \union {n}))

\* The files once everything up to h was written.
Kept(h) ==
    [order |-> h.order, booked |-> booked',
     reviews |-> IF h.filed THEN h.reviews ELSE disk.reviews,
     strays |-> IF h.filed THEN strays ELSE disk.strays]
OrderSaved == disk' = [disk EXCEPT !.order = order', !.booked = booked]
AllSaved == disk' = [order |-> order', booked |-> booked, reviews |-> reviews', strays |-> strays]

-----------------------------------------------------------------------------
(* The scanner                                                               *)

\* Mutant: the scan starts where the last one ended.
ScanFromCursor(from) == from

\* Every chunk looks back over the overlap.
ScanFrom(from) == IF from > Rescan THEN from - Rescan ELSE 0

\* One chunk of the confirmed range, measured from the overlap and never behind the cursor,
\* answered by a node that may not have it all; what lies below is forgotten.
GetLogs(from, safe) ==
    LET scan == ScanFrom(from)
        end  == IF safe - scan > Chunk THEN scan + Chunk ELSE safe
        to   == IF end < from THEN from ELSE end
    IN  /\ seen' = {n \in seen : n >= scan}
        /\ \E height \in (Tip - Lag) .. Tip :
              job' = [to |-> to, safe |-> safe,
                      logs |-> {n \in 1 .. Tip : /\ n >= scan /\ n <= to /\ n <= height
                                                 /\ chain[n] # NoPay /\ n \notin seen'}]

\* poll: up to the confirmed tip, from the cursor or, too far behind, from the clamp.
Poll ==
    /\ job = Idle
    /\ LET safe  == Tip - Confirmations
           start == IF safe - cursor > Catchup THEN safe - Catchup ELSE cursor
       IN  /\ safe >= start
           /\ GetLogs(start, safe)
           /\ over' = over \union {n \in 1 .. Tip : n >= ScanFrom(cursor) /\ n < ScanFrom(start)}
    /\ UNCHANGED <<chain, order, booked, strays, reviews, disk, history, inHand, cursor, faults>>

\* Every write of the handler lands.
HandleConfirmedPayment(n) ==
    /\ job' = [job EXCEPT !.logs = @ \ {n}]
    /\ \/ ~chain[n].ours /\ strays' = strays \union {n}
          /\ disk' = [disk EXCEPT !.strays = strays', !.reviews = reviews]
          /\ UNCHANGED <<order, booked, reviews>>
       \/ n \in booked /\ UNCHANGED <<order, booked, strays, reviews, disk>>
       \/ /\ chain[n].ours /\ n \notin booked /\ strays' = strays
          /\ booked' = booked \union {n}
          /\ LET end == Decision(n)[Len(Decision(n))]
             IN  order' = end.order /\ reviews' = end.reviews /\ disk' = Kept(end)
    /\ UNCHANGED <<history, faults>>

\* The disk refuses a write: the handler throws there, with the change in memory, and the
\* poll ends.  The first write books the payment, or opens the item of an unmatched one.
FirstWriteRefused(n) ==
    /\ Fault /\ job' = Idle
    /\ IF chain[n].ours THEN n \notin booked /\ booked' = booked \union {n} /\ strays' = strays
       ELSE strays' = strays \union {n} /\ booked' = booked
    /\ refused' = refused \union {n} /\ torn' = torn \union {n}
    /\ UNCHANGED <<order, reviews, disk>>
LaterWriteRefused(n) ==
    /\ Fault /\ job' = Idle
    /\ chain[n].ours /\ n \notin booked /\ booked' = booked \union {n}
    /\ \E w \in 1 .. Len(Decision(n)) :
          /\ order' = Decision(n)[w].order /\ reviews' = Decision(n)[w].reviews
          /\ disk' = Kept(IF w = 1 THEN Screened ELSE Decision(n)[w - 1])
    /\ torn' = torn \union {n}
    /\ UNCHANGED <<strays, refused>>

\* One log: marked seen, then handled.
PollLog ==
    /\ \E n \in job.logs :
          /\ \A m \in job.logs : n <= m
          /\ seen' = seen \union {n}
          /\ HandleConfirmedPayment(n) \/ FirstWriteRefused(n) \/ LaterWriteRefused(n)
    /\ UNCHANGED <<chain, inHand, cursor, over>>

\* A chunk is handled: the cursor moves past it, and the next one is asked for.
PollDone ==
    /\ job # Idle /\ job.logs = {}
    /\ cursor' = job.to + 1
    /\ IF job.to < job.safe THEN GetLogs(job.to + 1, job.safe) ELSE job' = Idle /\ seen' = seen
    /\ UNCHANGED <<chain, order, booked, strays, reviews, disk, history, inHand, over, faults>>

\* The display-only pass over the unconfirmed window.
HandlePendingPayment ==
    /\ order.st = "awaiting_payment"
    /\ \E n \in 1 .. Tip : n > Tip - Confirmations /\ chain[n].ours
    /\ order' = Moved(order, "pending_confirmations") /\ OrderSaved
    /\ UNCHANGED <<chain, booked, strays, reviews, history, inHand, scanner, faults>>

\* A getLogs that fails ends the poll.
PollFails ==
    /\ Fault /\ job' = Idle
    /\ UNCHANGED <<chain, order, booked, strays, reviews, disk, history, inHand, cursor, over, seen>>

\* A restart forgets what was seen and resumes from a cursor some timer wrote: the last one,
\* or an earlier one.  Stopped in order, the process writes its files; killed, it reads them.
Restart ==
    /\ Fault
    /\ seen' = {} /\ job' = Idle /\ cursor' \in 1 .. cursor
    /\ inHand' = FALSE
    /\ \/ UNCHANGED <<order, booked, strays, reviews>> /\ AllSaved
       \/ /\ order' = [disk.order EXCEPT !.due = order.due]
          /\ booked' = disk.booked /\ strays' = disk.strays /\ reviews' = disk.reviews
          /\ disk' = disk
    /\ UNCHANGED <<chain, history, over>>

-----------------------------------------------------------------------------
(* The other hands on an order                                               *)

\* The card settled: the webhook moves any order that is not terminal.
StripeWebhook ==
    /\ order.st \notin Terminal
    /\ order' = Moved(order, "confirmed_provisioning") /\ OrderSaved
    /\ UNCHANGED <<chain, booked, strays, reviews, history, inHand, scanner, faults>>

Falls ==
    /\ ~order.due /\ order' = [order EXCEPT !.due = TRUE]
    /\ UNCHANGED <<chain, booked, strays, reviews, disk, history, inHand, scanner, faults>>

\* expirySweep: an order that holds money goes to a human, another one expires.
ExpirySweep ==
    /\ order.due /\ order.st \in {"awaiting_payment", "pending_confirmations"}
    /\ IF booked # {}
         THEN /\ order' = Flagged(Moved(order, "under_review"), "partial_payment_expired")
              /\ reviews' = reviews \union {"partial_payment_expired"} /\ AllSaved
         ELSE order' = Moved(order, "expired") /\ reviews' = reviews /\ OrderSaved
    /\ UNCHANGED <<chain, booked, strays, history, inHand, scanner, faults>>

\* The operator resolves one item; it decides the order only while under review.
ResolveReview ==
    /\ \E reason \in reviews, approve \in BOOLEAN :
          /\ reviews' = reviews \ {reason}
          /\ order' = IF order.st # "under_review" THEN order
                      ELSE Moved(order, IF approve THEN "confirmed_provisioning" ELSE "rejected")
    /\ AllSaved
    /\ UNCHANGED <<chain, booked, strays, history, inHand, scanner, faults>>

\* The provisioner takes a paid order up, and completes it or leaves it to the next sweep: it
\* does not look again at what became of the order meanwhile.
TakeUp ==
    /\ ~inHand /\ order.st = "confirmed_provisioning"
    /\ inHand' = TRUE
    /\ UNCHANGED <<chain, order, booked, strays, reviews, disk, history, scanner, faults>>
Provisioned ==
    /\ inHand /\ inHand' = FALSE
    /\ order' \in {order, Moved(order, "complete")} /\ OrderSaved
    /\ UNCHANGED <<chain, booked, strays, reviews, history, scanner, faults>>

-----------------------------------------------------------------------------
Next ==
    \/ Block \/ Poll \/ PollLog \/ PollDone
    \/ PollFails \/ HandlePendingPayment \/ Restart
    \/ StripeWebhook \/ Falls \/ ExpirySweep \/ ResolveReview \/ TakeUp \/ Provisioned

Spec == Init /\ [][Next]_vars

\* No payment is lost between nodes of different heights, an overlap, chunks, handlers that
\* throw, kills and restarts: a block the scanner will never look at again is in the files,
\* booked on its order or as an unmatched payment, unless the disk refused that payment's
\* very first write or the catch-up clamp jumped it (poll, handleConfirmedPayment, flush).
EveryPaymentBooked ==
    \A n \in (1 .. Tip) \ over :
        chain[n] # NoPay /\ job = Idle /\ n < ScanFrom(cursor)
            => n \in disk.booked \union disk.strays \union refused

\* Only a human clears a tainted order: when a payment alone moves an order to
\* provisioning, the TTL has not passed and the quote is paid, by payers each screened
\* clean unless the handler of their payment threw, however the payments were split,
\* refused, replayed or reviewed in between (handleConfirmedPayment).
AutoProvisionsClean ==
    PollLog /\ order.st # "confirmed_provisioning" /\ order'.st = "confirmed_provisioning" =>
        /\ \A n \in booked' \ torn : chain[n].who = "clean"
        /\ Enough(Paid(booked')) /\ ~order.due
===============================================================================
