--------------------------------- MODULE Certs ---------------------------------
(***************************************************************************)
(* Certificates of one app name. A box makes a key and asks the relay      *)
(* (src/supervisor.js acmeIssueViaPlatform, acmeWalkSlots); the relay      *)
(* orders at its CAs, notes the finalized order and resumes it when asked  *)
(* again (src/relay/certs.js); a box whose platform slot fails orders at   *)
(* a CA of its own.                                                        *)
(***************************************************************************)
EXTENDS Integers, Sequences, FiniteSets, SequencesExt

CONSTANTS
    CAs,        \* the relay's CAs, in order of preference: 1 .. n
    MaxKeys,    \* bound: keys ever made
    MaxOrders,  \* bound: orders ever placed
    MaxFaults   \* bound: restarts, timeouts, refusals, expiries

VARIABLES
    box,      \* the box: [cert, kept, pend, at, failures]; kept is ACME_STORE_DIR
    keys,     \* keys made so far
    lease,    \* the box holds the deployment's live lease
    issue,    \* the relay's running issuance per key
    held,     \* certs.json: key -> finalized order kept for a resume, 0 when none
    cached,   \* certs.json: keys with a certificate
    cao,      \* the orders at the CAs: [ca, key, st]
    down,     \* the relay's CAs cooling off
    acct,     \* CAs with a registered account
    given,    \* orders given up: a call about them failed, a restart, an hour passed, or
              \* the account they were placed with is gone
    faults

vars == <<box, keys, lease, issue, held, cached, cao, down, acct, given, faults>>

NoIssue == [at |-> "none", ca |-> 0, n |-> 0, left |-> <<>>, cooled |-> <<>>, proven |-> FALSE,
            again |-> FALSE, retried |-> FALSE, resumed |-> FALSE]
Walk == [i \in 1 .. Cardinality(CAs) |-> i]
Keys == 1 .. MaxKeys

Init ==
    /\ box = [cert |-> 0, kept |-> 0, pend |-> 0, at |-> "idle", failures |-> 0]
    /\ keys = 0 /\ lease = TRUE
    /\ issue = [k \in Keys |-> NoIssue]
    /\ held = [k \in Keys |-> 0]
    /\ cached = {} /\ cao = <<>> /\ down = {} /\ given = {}
    /\ acct = CAs               \* registered in an earlier life of the relay
    /\ faults = MaxFaults

Fault == faults > 0 /\ faults' = faults - 1
Relay == <<issue, held, cached, cao, down, acct, given>>

-----------------------------------------------------------------------------
(* The box                                                                   *)

\* acmeStore: the certificate is held in memory and in the ramdisk, never on a disk.
Keep(b, k) == [b EXCEPT !.cert = k, !.kept = k, !.at = "idle", !.failures = 0]

\* buildCsr: a P-256 key and a request for exactly this name.
FreshKey == keys + 1

\* acmeRetryPlan and the rate-limit dates: a failure counts, a deferral does not.
Backoff(b) == [b EXCEPT !.at = "idle", !.failures = IF @ = 0 THEN 1 ELSE @]

\* acmeReconcile queues the name while its deployment is here and the held
\* certificate is due; acmePump takes one name at a time.
Pump ==
    /\ box.at = "idle" /\ lease /\ box.cert = 0
    /\ \/ box.pend # 0 /\ box' = [box EXCEPT !.at = "asking"] /\ keys' = keys
       \/ /\ box.pend = 0 /\ keys < MaxKeys          \* buildCsr: a fresh key
          /\ keys' = keys + 1
          /\ box' = [box EXCEPT !.at = "asking", !.pend = FreshKey]
    /\ UNCHANGED <<lease, Relay, faults>>

RenewalDue ==
    /\ box.cert # 0 /\ box.at = "idle" /\ Fault
    /\ box' = [box EXCEPT !.cert = 0]
    /\ UNCHANGED <<keys, lease, Relay>>

\* PLATFORM_PENDING_MS: an unanswered key is not carried on for ever.
PendingKeyExpires ==
    /\ box.at = "idle" /\ box.pend # 0 /\ Fault
    /\ box' = [box EXCEPT !.pend = 0]
    /\ UNCHANGED <<keys, lease, Relay>>

\* The request times out at the box; the relay's work goes on, the key is kept.
BoxTimeout ==
    /\ box.at = "waiting" /\ Fault
    /\ box' = [box EXCEPT !.at = "own"]
    /\ UNCHANGED <<keys, lease, Relay>>

\* The answer: a certificate for the key we hold, 202, or a refusal.
Answer ==
    /\ box.at = "waiting" /\ issue[box.pend].at \in {"none", "refused", "pending"}
    /\ box' = IF box.pend \in cached THEN Keep([box EXCEPT !.pend = 0], box.pend)
              ELSE [box EXCEPT !.at = IF issue[box.pend].at = "refused" THEN "own" ELSE "idle"]
    /\ issue' = [issue EXCEPT ![box.pend] = NoIssue]
    /\ UNCHANGED <<keys, lease, acct, held, cached, cao, down, given, faults>>

\* SYNC_WAIT: the order is still running, 202 and ask again.
AnswerLater ==
    /\ box.at = "waiting" /\ issue[box.pend].at \notin {"none", "refused", "pending"}
    /\ box' = [box EXCEPT !.at = "idle"]
    /\ UNCHANGED <<keys, lease, Relay, faults>>

\* The next slots of the walk: the box's own CA, with a key of its own, or the
\* backoff of acmeRetryPlan.
OwnCa ==
    /\ box.at = "own"
    /\ \/ /\ keys < MaxKeys /\ keys' = keys + 1
          /\ box' = Keep(box, FreshKey)
       \/ /\ keys' = keys
          /\ box' = Backoff(box)
    /\ UNCHANGED <<lease, Relay, faults>>

\* acmeRestore: certificates survive a container in the ramdisk, pending keys do not.
BoxRestart ==
    /\ Fault
    /\ box' = [box EXCEPT !.cert = box.kept, !.pend = 0, !.at = "idle", !.failures = 0]
    /\ UNCHANGED <<keys, lease, Relay>>

LeaseMoves ==
    /\ Fault /\ lease' = ~lease
    /\ UNCHANGED <<box, keys, Relay>>

-----------------------------------------------------------------------------
(* POST /v1/certs/issue                                                      *)

\* authorizeName: one label under a platform zone, or a custom domain a live
\* deployment answers for. parseCsr: that name, alone, as CN and SAN, signed by
\* the key it carries. holdsLease: by the row the label names.
Zones == {"app", "custom", "foreign"}
Authorized(q) == q.zone \in {"app", "custom"}
CsrOk(q) == q.names = {"this"} /\ q.signed
Admitted(q) == Authorized(q) /\ CsrOk(q) /\ lease

\* CAs that do not cool off; none of them left is a 202, not a refusal.
Usable == SelectSeq(Walk, LAMBDA ca : ca \notin down)
Start == IF Usable = <<>> THEN "pending" ELSE "walk"

\* The operator's signature, the fresh ledger's lease holder, the cache, the
\* running issuance, the order that may be resumed: in that order.
Issue ==
    /\ box.at = "asking"
    /\ \E q \in [zone : Zones, names : {{"this"}}, signed : {TRUE}] :
       /\ IF Authorized(q) THEN faults' = faults ELSE Fault     \* a detached domain
       /\ box' = [box EXCEPT !.at = IF Admitted(q) THEN "waiting" ELSE "own",
                             !.pend = IF Admitted(q) THEN @ ELSE 0]
       /\ issue' = IF Admitted(q) /\ box.pend \notin cached /\ issue[box.pend].at = "none"
                   THEN [issue EXCEPT ![box.pend] =
                           [NoIssue EXCEPT !.at = IF held[box.pend] # 0 THEN "resume" ELSE Start,
                                           !.n = held[box.pend], !.left = Usable,
                                           !.resumed = held[box.pend] # 0,
                                           !.ca = IF held[box.pend] # 0 THEN cao[held[box.pend]].ca ELSE 0]]
                   ELSE issue
    /\ UNCHANGED <<keys, lease, acct, held, cached, cao, down, given>>

At(k, stage) == issue[k].at = stage
Asks(k) == issue[k].at \in {"order", "authz", "collect", "resume"}
Cao(k) == cao[issue[k].n]
Drop(k) == held' = [held EXCEPT ![k] = 0]

\* The next CA of the walk; when all are done, those that cooled this round get
\* a second chance if a later one proved the network.
NextCa(k) ==
    /\ At(k, "walk")
    /\ LET i == [issue[k] EXCEPT !.retried = FALSE, !.resumed = FALSE]
       IN  issue' = [issue EXCEPT ![k] =
              IF i.left # <<>> THEN [i EXCEPT !.at = "order", !.ca = Head(i.left), !.left = Tail(@)]
              ELSE IF i.proven /\ i.cooled # <<>> /\ ~i.again
                   THEN [i EXCEPT !.at = "order", !.ca = Head(i.cooled), !.left = Tail(i.cooled),
                                  !.cooled = <<>>, !.again = TRUE]
              ELSE [i EXCEPT !.at = "refused", !.n = 0]]
    /\ UNCHANGED <<box, keys, lease, acct, held, cached, cao, down, given, faults>>

\* The attempt is over and its order forgotten, at the CA as it may stand there.
Forsaken(k) == IF issue[k].n = 0 THEN given ELSE given \union {issue[k].n}

\* A CA-level failure (a timeout, a 5xx) cools the CA off.
CaFails(k) ==
    /\ Asks(k) /\ Fault
    /\ issue' = [issue EXCEPT ![k] = [@ EXCEPT !.at = "walk", !.n = 0,
                                        !.left = SelectSeq(@, LAMBDA ca : ca # issue[k].ca),
                                        !.cooled = Append(@, issue[k].ca)]]
    /\ Drop(k) /\ down' = down \union {issue[k].ca} /\ given' = Forsaken(k)
    /\ UNCHANGED <<box, keys, lease, acct, cached, cao>>

\* Any other failure counts against the name: the walk moves on, and the network is proven.
\* The CA has settled the order as invalid; or it answers one call with an error of its own
\* (a 429, a 403), or the DNS API fails, with the order as good as before.
NameRefused(k) ==
    /\ Asks(k)
    /\ IF issue[k].n # 0 /\ Cao(k).st = "invalid" THEN given' = given /\ faults' = faults
       ELSE IF issue[k].n \in given THEN given' = given /\ faults' = faults
       ELSE given' = Forsaken(k) /\ Fault
    /\ issue' = [issue EXCEPT ![k] = [@ EXCEPT !.at = "walk", !.n = 0, !.proven = TRUE]]
    /\ Drop(k)
    /\ UNCHANGED <<box, keys, lease, acct, cached, cao, down>>

\* acmeAccount: loaded from its sealed blob or registered, once for all issuances.
RegisterAccount(k) ==
    /\ At(k, "order") \/ At(k, "resume")
    /\ issue[k].ca \notin acct
    /\ acct' = acct \union {issue[k].ca}
    /\ UNCHANGED <<box, keys, lease, issue, held, cached, cao, down, given, faults>>

\* The CA no longer knows the account, whichever call says so: the account is dropped, unless a
\* sibling has replaced it already, and the attempt is run once more with a fresh one.  The
\* orders of the old account are out of reach.
AccountLost(k) ==
    /\ Asks(k) /\ ~issue[k].retried
    /\ \/ issue[k].n \in given /\ UNCHANGED <<acct, given, faults>>
       \/ /\ issue[k].n \notin given /\ issue[k].ca \in acct /\ Fault
          /\ acct' = acct \ {issue[k].ca}
          /\ given' = given \union {n \in 1 .. Len(cao) : cao[n].ca = issue[k].ca}
    /\ issue' = [issue EXCEPT ![k] =
          IF @.resumed THEN [@ EXCEPT !.at = "resume", !.retried = TRUE]
          ELSE [@ EXCEPT !.at = "order", !.n = 0, !.retried = TRUE]]
    /\ Drop(k)
    /\ UNCHANGED <<box, keys, lease, cached, cao, down>>

NewOrder(k) ==
    /\ At(k, "order") /\ issue[k].ca \in acct /\ Len(cao) < MaxOrders
    /\ cao' = Append(cao, [ca |-> issue[k].ca, key |-> k, st |-> "pending"])
    /\ issue' = [issue EXCEPT ![k] = [@ EXCEPT !.at = "authz", !.n = Len(cao) + 1]]
    /\ UNCHANGED <<box, keys, lease, acct, held, cached, down, given, faults>>

\* The TXT answer stands and the CA validated: finalize, then note the order.
Finalize(k) ==
    /\ At(k, "authz") /\ Cao(k).st = "ready" /\ issue[k].n \notin given
    /\ cao' = [cao EXCEPT ![issue[k].n].st = "processing"]
    /\ held' = [held EXCEPT ![k] = issue[k].n]
    /\ issue' = [issue EXCEPT ![k].at = "collect"]
    /\ UNCHANGED <<box, keys, lease, acct, cached, down, given, faults>>

\* A kept order is looked up at its own CA first.
Resume(k) ==
    /\ At(k, "resume") /\ issue[k].ca \in acct /\ issue[k].n \notin given
    /\ issue' = [issue EXCEPT ![k].at = "collect"]
    /\ UNCHANGED <<box, keys, lease, acct, held, cached, cao, down, given, faults>>

\* Issued: this key's certificate replaces whatever the name had.
Collect(k) ==
    /\ At(k, "collect") /\ Cao(k).st = "valid" /\ issue[k].n \notin given
    /\ cao' = [cao EXCEPT ![issue[k].n].st = "collected"]
    /\ cached' = {k} /\ Drop(k) /\ down' = down \ {issue[k].ca}
    /\ issue' = [issue EXCEPT ![k] = NoIssue]
    /\ UNCHANGED <<box, keys, lease, acct, given, faults>>

CoolOffEnds ==
    /\ down # {} /\ down' = {}
    /\ UNCHANGED <<box, keys, lease, acct, issue, held, cached, cao, given, faults>>

\* Mutant: an order the CA still works on is dropped with the others.
KeptNot(k) == Drop(k)

Kept(k) == held' = held

\* The CA is still at it: the order is kept for the next ask.
StillProcessing(k) ==
    /\ At(k, "collect") /\ Cao(k).st \in {"processing", "valid"} /\ issue[k].n \notin given
    /\ issue' = [issue EXCEPT ![k].at = "pending"]
    /\ Kept(k)
    /\ UNCHANGED <<box, keys, lease, acct, cached, cao, down, given, faults>>

\* Nobody waited for the answer: the promise settles on its own.
Settled(k) ==
    /\ issue[k].at \in {"pending", "refused"} /\ (box.pend # k \/ box.at # "waiting")
    /\ issue' = [issue EXCEPT ![k] = NoIssue]
    /\ UNCHANGED <<box, keys, lease, acct, held, cached, cao, down, given, faults>>

\* sweep: an order older than an hour is not resumed, an expired certificate not served.
Sweep ==
    /\ Fault
    /\ \/ /\ \E k \in Keys : held[k] # 0 /\ At(k, "none") /\ Drop(k) /\ given' = given \union {held[k]}
          /\ cached' = cached
       \/ cached # {} /\ cached' = {} /\ UNCHANGED <<held, given>>
    /\ UNCHANGED <<box, keys, lease, acct, issue, cao, down>>

\* The relay stops: what it had not noted yet is lost to it.
RelayRestart ==
    /\ Fault
    /\ issue' = [k \in Keys |-> NoIssue] /\ down' = {}
    /\ given' = given \union {issue[k].n : k \in {k \in Keys : issue[k].n # 0 /\ held[k] = 0}}
    /\ UNCHANGED <<box, keys, lease, acct, held, cached, cao>>

-----------------------------------------------------------------------------
Validated == [pending |-> {"ready", "invalid"}, processing |-> {"valid", "invalid"}]

\* The CA moves on by itself.
CaWorks ==
    /\ \E n \in 1 .. Len(cao) :
          /\ cao[n].st \in {"pending", "processing"}
          /\ \E st \in Validated[cao[n].st] :
                /\ cao' = [cao EXCEPT ![n].st = st]
                /\ IF st = "invalid" THEN Fault ELSE faults' = faults
    /\ UNCHANGED <<box, keys, lease, acct, issue, held, cached, down, given>>

Next ==
    \/ Pump \/ RenewalDue \/ PendingKeyExpires \/ BoxTimeout \/ Answer \/ AnswerLater
    \/ OwnCa \/ BoxRestart \/ LeaseMoves \/ Issue \/ Sweep \/ RelayRestart \/ CaWorks \/ CoolOffEnds
    \/ \E k \in Keys : \/ NextCa(k) \/ CaFails(k) \/ NameRefused(k) \/ NewOrder(k) \/ RegisterAccount(k) \/ AccountLost(k)
                       \/ Finalize(k) \/ Resume(k) \/ Collect(k) \/ StillProcessing(k) \/ Settled(k)

Spec == Init /\ [][Next]_vars

-----------------------------------------------------------------------------
\* An order a CA still works on is not doubled by another for the same key: a slow CA, its
\* deadline, a 202, a box that asks again or restarts, a relay that restarts resume it.  What
\* gives an order up is a call about it that failed (a CA that is down, an error answer,
\* the DNS API), an account the CA lost, a relay stopped before it noted the order, or an
\* hour; after the first of these the relay orders afresh while the old order may still be
\* good at its CA (acmeIssue, acmeIssueViaOnce, acmeResume, pendingErr).
NoOrderOrphaned ==
    \A k \in Keys :
        Cardinality({n \in 1 .. Len(cao) : /\ cao[n].key = k /\ n \notin given
                                           /\ cao[n].st \notin {"invalid", "collected"}}) <= 1
===============================================================================
