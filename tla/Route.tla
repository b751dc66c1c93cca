--------------------------------- MODULE Route ---------------------------------
(***************************************************************************)
(* Which box a request for one deployment is sent to: the API relay        *)
(* (src/relay/api-relay.js).  It keeps the rows it may dial, the ones that *)
(* answered, a page of the ledger, the owner it last learned under each    *)
(* spelling of the id, and a count of fan-outs under way.  Every await is  *)
(* a step of its own: leases, boxes, tunnels and other requests move in    *)
(* between.  Time is counted in ledger page ages and a stamp is kept as    *)
(* its age.                                                                *)
(***************************************************************************)
EXTENDS Integers, FiniteSets, FiniteSetsExt

CONSTANTS
    Entries,    \* by box: [vetted, https, global, claims, empty]
    Reqs,       \* requests the relay handles at once
    Lease,      \* a lease's length
    Ttl,        \* LEDGER_TTL_MS, and OWNER_NEG_TTL_MS
    OwnerTtl,   \* OWNER_TTL_MS
    Probe,      \* how long a probe may take
    FanoutMax,  \* FANOUT_MAX
    MaxAsks,    \* bound: requests
    MaxFaults   \* bound: leases and boxes that move, reads that fail

VARIABLES
    chain,     \* the ledger: [runner, left of its lease, twins: a second record
               \* has the same label, since the records changed]
    attached,  \* boxes attached to the tunnel hub
    registry,  \* the rows the relay may use: [box, via]
    asking,    \* earlier rows that a poll under way still asks
    live,      \* the rows that answered the last poll
    ledger,    \* _ledger: [runner, left, twins, age]
    reading,   \* _ledger.inflight, the same, or NoRead
    owner,     \* OWNER, by spelling: [to, age, blind: past a failed ledger read]
    neg,       \* OWNER_NEG, by spelling: the age of the last miss
    inflight,  \* fanoutInflight
    reqs,      \* the requests in hand
    budget     \* [asks, faults]

vars == <<chain, attached, registry, asking, live, ledger, reading, owner, neg,
          inflight, reqs, budget>>
world == <<chain, attached>>
fleet == <<registry, asking, live>>
book == <<ledger, reading>>
caches == <<owner, neg>>

Boxes == DOMAIN Entries
\* An app's host spells a prefix of the id, most other paths all of it.
Spellings == {"label", "id"}
Nowhere == [box |-> 0, via |-> "none"]
NoRead == [runner |-> 0, left |-> 0, twins |-> FALSE, age |-> -1]
\* A page or an owner that is too old is never looked at again, and is forgotten.
NoPage == [NoRead EXCEPT !.age = Ttl]
NoOwner == [to |-> Nowhere, age |-> OwnerTtl, blind |-> FALSE]
Idle == [kind |-> "none", spell |-> "id", path |-> "x", at |-> "idle", err |-> FALSE,
         cand |-> {}, to |-> Nowhere, blind |-> FALSE, age |-> 0]

Fault == budget.faults > 0 /\ budget' = [budget EXCEPT !.faults = @ - 1]

-----------------------------------------------------------------------------
(* The fleet                                                                 *)

\* discoverRegistry: of the active rows seen lately, those of vetted operators, on
\* https, at an address the relay may dial.
Discovered(seen) == {b \in seen : Entries[b].vetted /\ Entries[b].https /\ Entries[b].global}

\* readRegistry: the attached boxes come last and stand in for their dialled
\* twins; without a discovery they stand alone, and without either it throws.
Rows(base) == {[box |-> b, via |-> "dial"] : b \in base \ attached}
              \union {[box |-> b, via |-> "tunnel"] : b \in attached}

\* A box may not have been seen lately, and the read may fail.
PollRegistry(seen, ok) ==
    /\ IF ok /\ seen = Boxes THEN UNCHANGED budget ELSE Fault
    /\ registry' = IF ok THEN Rows(Discovered(seen))
                   ELSE IF attached = {} THEN registry ELSE Rows({})
    /\ registry' # registry /\ asking' = asking \union {registry}
    /\ UNCHANGED <<world, live, book, caches, inflight, reqs>>

\* A tunnel that is gone does not answer.
Reachable(rows) == {r \in rows : r.via = "tunnel" => r.box \in attached}

\* pollAvailability: every row is asked, and the ones that answer are live.  A poll
\* begun before the rows changed may end after a newer one (onChange starts one too).
PollAvailability(src, answered) ==
    /\ src \in asking \union {registry} /\ answered # live
    /\ IF answered = Reachable(src) THEN UNCHANGED budget ELSE Fault
    /\ asking' = asking \ {src} /\ live' = answered
    /\ UNCHANGED <<world, registry, book, caches, inflight, reqs>>

\* servingEnclaves: a box with resources that says it claims, or is dialled and
\* does not say.
Serving == {r \in live : /\ ~Entries[r.box].empty
                         /\ \/ Entries[r.box].claims = "yes"
                            \/ Entries[r.box].claims = "unsaid" /\ r.via = "dial"}

-----------------------------------------------------------------------------
(* The ledger                                                                *)

Fresh == ledger.age < Ttl
Awaits(q) == q.at \in {"full", "runner", "ambiguous", "record", "merge"}
Sample(age) == [runner |-> chain.runner, left |-> chain.left, twins |-> chain.twins, age |-> age]

\* ledgerRows: a page that is too old is read again, by one reader for everyone
\* who waits.
StartRead ==
    /\ ~Fresh /\ reading = NoRead /\ \E i \in Reqs : Awaits(reqs[i]) /\ ~reqs[i].err
    /\ reading' = Sample(0)
    /\ UNCHANGED <<world, fleet, ledger, caches, inflight, reqs, budget>>

\* The page that holds the record may be read later than the first one.
ReadPage ==
    /\ reading # NoRead
    /\ reading' = Sample(reading.age) /\ reading' # reading
    /\ UNCHANGED <<world, fleet, ledger, caches, inflight, reqs, budget>>

EndRead ==
    /\ reading # NoRead /\ reading' = NoRead
    /\ ledger' = [reading EXCEPT !.age = 0]
    /\ UNCHANGED <<world, fleet, caches, inflight, reqs, budget>>

\* The shared promise rejects for everyone who waits on it; the page stays.
FailRead ==
    /\ reading # NoRead /\ reading' = NoRead /\ Fault
    /\ reqs' = [i \in Reqs |-> IF Awaits(reqs[i]) THEN [reqs[i] EXCEPT !.err = TRUE] ELSE reqs[i]]
    /\ UNCHANGED <<world, fleet, ledger, caches, inflight>>

\* ledgerExpire: the secrets service needs a row newer than the page.
Expire ==
    /\ Fresh /\ ledger' = NoPage /\ Fault
    /\ UNCHANGED <<world, fleet, reading, caches, inflight, reqs>>

\* An await of ledgerRows is over for q: it has the page, or an error.
Resumed(q, at) == q.at = at /\ (q.err \/ Fresh)

-----------------------------------------------------------------------------
(* Resolving a request                                                       *)

\* How many of the page's records a spelling names.
Ambiguous(spell) == spell = "label" /\ ledger.twins

\* ownerCached, ownerNegRecent, ownerLearn: an owner that is no longer live is not
\* one, and what is learned ends a miss.
OwnerCached(spell) ==
    IF owner[spell].age < OwnerTtl /\ owner[spell].to \in live THEN owner[spell].to ELSE Nowhere
OwnerNegRecent(spell) == neg[spell] < Ttl
OwnerLearn(spell, to, blind) ==
    /\ owner' = [owner EXCEPT ![spell] = [to |-> to, age |-> 0, blind |-> blind]]
    /\ neg' = [neg EXCEPT ![spell] = Ttl]

RowOf(b) == IF \E r \in live : r.box = b THEN CHOOSE r \in live : r.box = b ELSE Nowhere

\* runnerEndpointOf: one record, a lease that runs, a box that is live.
RunnerEndpointOf(q) ==
    IF q.err \/ Ambiguous(q.spell) \/ ledger.left = 0 THEN Nowhere ELSE RowOf(ledger.runner)

\* Mutant: the cache outranks the ledger.
CacheFirst(q) ==
    IF OwnerCached(q.spell) # Nowhere THEN [to |-> OwnerCached(q.spell), learn |-> FALSE]
    ELSE [to |-> RunnerEndpointOf(q), learn |-> RunnerEndpointOf(q) # Nowhere]

\* xOwnerOf, v1OwnerOf: the ledger's runner, else the owner in the cache.
OwnerOf(q) ==
    IF RunnerEndpointOf(q) # Nowhere THEN [to |-> RunnerEndpointOf(q), learn |-> TRUE]
    ELSE [to |-> OwnerCached(q.spell), learn |-> FALSE]

\* A request is taken in hand, or a miss over the caller's rate is refused (rlMiss).
Asks(i, q) ==
    /\ reqs[i] = Idle /\ budget.asks > 0 /\ budget' = [budget EXCEPT !.asks = @ - 1]
    /\ reqs' = [reqs EXCEPT ![i] = q]
    /\ UNCHANGED <<world, fleet, book, caches, inflight>>
Limited(spell) ==
    /\ OwnerCached(spell) = Nowhere /\ budget.asks > 0
    /\ budget' = [budget EXCEPT !.asks = @ - 1]
    /\ UNCHANGED <<world, fleet, book, caches, inflight, reqs>>

\* handleRequest: an app's own host spells a label, a customer's leads to the whole
\* id; the question whether to issue a certificate takes the same way.
AskHost(i, spell) ==
    \/ Asks(i, [Idle EXCEPT !.kind = "serve", !.spell = spell, !.at = "runner"])
    \/ Limited(spell)

\* gateway: with no live box every path is answered 503; /x/<id> is the data path
\* and /v1/deployments/<id>/... the control path.
AskPath(i, path, spell) ==
    /\ live # {}
    /\ \/ Asks(i, [Idle EXCEPT !.kind = "serve", !.spell = spell, !.path = path, !.at = "runner"])
       \/ Limited(spell)

\* A box by its own name: nothing is looked up, it is attached or it is not.
AskBox(i, b) ==
    /\ b \in attached
    /\ Asks(i, [Idle EXCEPT !.kind = "box", !.at = "sent", !.to = [box |-> b, via |-> "tunnel"]])

\* An upgrade first spells the id out.
Upgrade(i, spell) == Asks(i, [Idle EXCEPT !.kind = "serve", !.spell = spell, !.at = "full"])

\* getDeployment: with a session the box is asked first, else the ledger is.
GetDeployment(i, spell, session) ==
    Asks(i, [Idle EXCEPT !.kind = "read", !.spell = spell, !.path = "v1",
                         !.at = IF session /\ live # {} THEN "runner" ELSE "record"])

\* fullDepId: an upgrade spells out a label that names one record.
FullDepId(i) ==
    /\ Resumed(reqs[i], "full")
    /\ reqs' = [reqs EXCEPT ![i] =
          [@ EXCEPT !.at = "runner", !.err = FALSE,
                    !.spell = IF reqs[i].err \/ Ambiguous(@) THEN @ ELSE "id",
                    !.blind = reqs[i].err]]
    /\ UNCHANGED <<world, fleet, book, caches, inflight, budget>>

\* The request is on its way to a box; without one it is answered 404, and a read
\* of the record turns to the ledger.
Routed(q, to, blind) ==
    IF to # Nowhere
    THEN [Idle EXCEPT !.kind = q.kind, !.spell = q.spell, !.at = "sent", !.to = to, !.blind = blind]
    ELSE IF q.kind = "read" THEN [Idle EXCEPT !.kind = "read", !.at = "record"] ELSE Idle

Resolve(i) ==
    /\ Resumed(reqs[i], "runner")
    /\ LET q == reqs[i]
           o == OwnerOf(q)
           blind == q.blind \/ q.err
       IN  /\ reqs' = [reqs EXCEPT ![i] =
                 IF o.to # Nowhere
                 THEN Routed(q, o.to, blind \/ (~o.learn /\ owner[q.spell].blind))
                 ELSE [q EXCEPT !.at = "ambiguous", !.err = FALSE, !.blind = blind]]
           /\ IF o.learn THEN OwnerLearn(q.spell, o.to, blind) ELSE UNCHANGED caches
    /\ UNCHANGED <<world, fleet, book, inflight, budget>>

\* fanoutReserve: all of a fan-out, or none of it.
Reserves(n) == inflight + n <= FanoutMax
\* fanoutRelease.
Released(n) == Max({0, inflight - n})

\* prefixAmbiguous, the recent miss and the cap: the data path ends here; the
\* control path goes on to the data path when it may not probe.
Consider(i) ==
    /\ Resumed(reqs[i], "ambiguous")
    /\ LET q == [reqs[i] EXCEPT !.err = FALSE, !.blind = @ \/ reqs[i].err]
           n == Cardinality(live)
           twice == ~reqs[i].err /\ Ambiguous(q.spell)
           probes == ~twice /\ Reserves(n) /\ (q.path = "x" => ~OwnerNegRecent(q.spell))
       IN  /\ inflight' = IF probes THEN inflight + n ELSE inflight
           /\ reqs' = [reqs EXCEPT ![i] =
                 IF probes THEN [q EXCEPT !.at = "probe", !.cand = live]
                 ELSE IF twice \/ q.path = "x" THEN Routed(q, Nowhere, q.blind)
                 ELSE [q EXCEPT !.at = "runner", !.path = "x"]]
    /\ UNCHANGED <<world, fleet, book, caches, budget>>

\* The probes are back. Any box may have a record of the id, none may; what is
\* released is the number of boxes live by now. A control call that found none
\* starts over on the data path.
Probed(i) ==
    /\ reqs[i].at = "probe" /\ inflight' = Released(Cardinality(live))
    /\ LET q == reqs[i]
       IN  \/ \E r \in Reachable(q.cand) :
                /\ reqs' = [reqs EXCEPT ![i] = Routed(q, r, q.blind)]
                /\ OwnerLearn(q.spell, r, q.blind)
           \/ /\ q.path = "x" /\ reqs' = [reqs EXCEPT ![i] = Routed(q, Nowhere, q.blind)]
              /\ neg' = [neg EXCEPT ![q.spell] = 0] /\ UNCHANGED owner
           \/ /\ q.path = "v1" /\ UNCHANGED caches
              /\ reqs' = [reqs EXCEPT ![i] = [q EXCEPT !.at = "runner", !.path = "x", !.cand = {}, !.age = 0]]
    /\ UNCHANGED <<world, fleet, book, budget>>

\* proxyTo, proxyViaTunnel, the spliced upgrade: the answer is streamed to its end
\* or either leg takes the other down. getDeployment reads its answer whole, and
\* turns to the ledger when the box died, has no record or not this session.
Served(i) ==
    /\ reqs[i].at = "sent"
    /\ reqs' \in {[reqs EXCEPT ![i] = Idle]} \union
                 (IF reqs[i].kind = "read" THEN {[reqs EXCEPT ![i] = Routed(@, Nowhere, FALSE)]} ELSE {})
    /\ UNCHANGED <<world, fleet, book, caches, inflight, budget>>

\* The record is answered from the page, or the read's error is.
Record(i) ==
    /\ Resumed(reqs[i], "record") /\ reqs' = [reqs EXCEPT ![i] = Idle]
    /\ UNCHANGED <<world, fleet, book, caches, inflight, budget>>

-----------------------------------------------------------------------------
(* The list and the hint                                                     *)

\* listDeployments: a session's boxes are all asked for their rows.
List(i) ==
    /\ reqs[i] = Idle /\ budget.asks > 0 /\ budget' = [budget EXCEPT !.asks = @ - 1]
    /\ reqs' = [reqs EXCEPT ![i] = [Idle EXCEPT !.kind = "list", !.at = "merge", !.cand = live]]
    /\ UNCHANGED <<world, fleet, book, caches, inflight>>

\* A finished copy on a box that is not the runner of a live lease is dropped.
Contradicted(b, ended, err) ==
    ended /\ ~err /\ ledger.left > 0 /\ ledger.runner # 0 /\ b # ledger.runner
\* The chain names the copy that is shown; without it a running one is.
Wins(b, ended, err) == IF err THEN ~ended ELSE b = ledger.runner

\* The boxes in "here" sent a copy, the ones in "over" a finished one: the copy that
\* is shown teaches the cache its box, under the full id.
Merge(i, here, over) ==
    /\ Resumed(reqs[i], "merge")
    /\ here \subseteq Reachable(reqs[i].cand) /\ over \subseteq here
    /\ LET err  == reqs[i].err
           kept == {r \in here : ~Contradicted(r.box, r \in over, err)}
           won  == {r \in kept : Wins(r.box, r \in over, err)}
       IN  IF kept = {} THEN UNCHANGED caches
           ELSE \E r \in IF won = {} THEN kept ELSE won : OwnerLearn("id", r, err)
    /\ reqs' = [reqs EXCEPT ![i] = Idle]
    /\ UNCHANGED <<world, fleet, book, inflight, budget>>

\* claim-hint: to one box that serves, when it is named, or to all of them.
Hint(i, pool) ==
    /\ reqs[i] = Idle /\ live # {} /\ budget.asks > 0
    /\ pool = Serving \/ (pool \subseteq Serving /\ Cardinality(pool) = 1)
    /\ Reserves(Cardinality(pool)) /\ inflight' = inflight + Cardinality(pool)
    /\ reqs' = [reqs EXCEPT ![i] = [Idle EXCEPT !.kind = "hint", !.at = "hint", !.cand = pool]]
    /\ budget' = [budget EXCEPT !.asks = @ - 1]
    /\ UNCHANGED <<world, fleet, book, caches>>

Hinted(i) ==
    /\ reqs[i].at = "hint" /\ inflight' = Released(Cardinality(reqs[i].cand))
    /\ reqs' = [reqs EXCEPT ![i] = Idle]
    /\ UNCHANGED <<world, fleet, book, caches, budget>>

-----------------------------------------------------------------------------
(* Time and the world                                                        *)

Older(age, cap) == IF age < cap THEN age + 1 ELSE age
Shorter(left) == IF left > 0 THEN left - 1 ELSE 0
Cap == Ttl + OwnerTtl + Probe + 1

\* Who has been answered goes on at once; a read of the ledger takes at most one
\* unit and a probe gives up after Probe of them.
Tick ==
    /\ \A i \in Reqs : /\ ~(Awaits(reqs[i]) /\ (reqs[i].err \/ Fresh))
                       /\ reqs[i].at = "probe" => reqs[i].age < Probe
    /\ reading.age < 1
    /\ chain' = [chain EXCEPT !.left = Shorter(@), !.since = Older(@, Cap)]
    /\ ledger' = IF ledger.age + 1 >= Ttl THEN NoPage
                 ELSE [ledger EXCEPT !.left = Shorter(@), !.age = @ + 1]
    /\ reading' = IF reading = NoRead THEN NoRead
                  ELSE [reading EXCEPT !.left = Shorter(@), !.age = @ + 1]
    /\ owner' = [s \in Spellings |-> IF owner[s].age + 1 >= OwnerTtl THEN NoOwner
                                     ELSE [owner[s] EXCEPT !.age = @ + 1]]
    /\ neg' = [s \in Spellings |-> Older(neg[s], Ttl)]
    /\ reqs' = [i \in Reqs |-> IF reqs[i].at = "probe" THEN [reqs[i] EXCEPT !.age = @ + 1] ELSE reqs[i]]
    /\ UNCHANGED <<attached, fleet, inflight, budget>>

\* A claim, a renewal, a Move, a release, or a second record with the same label.
Ledger ==
    /\ Fault
    /\ chain' \in [runner : {0} \union Boxes, left : {Lease}, twins : BOOLEAN, since : {0}]
    /\ chain.twins => chain'.twins
    /\ UNCHANGED <<attached, fleet, book, caches, inflight, reqs>>

\* A box attaches to the hub, or is gone from it.
Attach(b) ==
    /\ Fault /\ attached' = SymDiff(attached, {b})
    /\ UNCHANGED <<chain, fleet, book, caches, inflight, reqs>>

\* The relay listens once its first polls are done.
Init ==
    /\ chain \in [runner : Boxes, left : {Lease}, twins : BOOLEAN, since : {0}]
    /\ attached = {b \in Boxes : ~Entries[b].vetted}
    /\ registry = Rows(Discovered(Boxes)) /\ live = registry /\ asking = {}
    /\ ledger = NoPage /\ reading = NoRead
    /\ owner = [s \in Spellings |-> NoOwner]
    /\ neg = [s \in Spellings |-> Ttl]
    /\ inflight = 0 /\ reqs = [i \in Reqs |-> Idle]
    /\ budget = [asks |-> MaxAsks, faults |-> MaxFaults]

Next ==
    \/ PollRegistry({}, FALSE) \/ \E seen \in SUBSET Boxes : PollRegistry(seen, TRUE)
    \/ \E src \in asking \union {registry} :
         \E answered \in SUBSET Reachable(src) : PollAvailability(src, answered)
    \/ StartRead \/ ReadPage \/ EndRead \/ FailRead \/ Expire \/ Tick \/ Ledger
    \/ \E b \in Boxes : Attach(b)
    \/ \E i \in Reqs :
         \/ \E s \in Spellings :
              \/ AskHost(i, s) \/ Upgrade(i, s) \/ \E path \in {"x", "v1"} : AskPath(i, path, s)
              \/ \E session \in BOOLEAN : GetDeployment(i, s, session)
         \/ \E b \in Boxes : AskBox(i, b)
         \/ FullDepId(i) \/ Resolve(i) \/ Consider(i) \/ Probed(i) \/ Served(i) \/ Record(i)
         \/ List(i) \/ Hinted(i) \/ \E pool \in SUBSET live : Hint(i, pool)
         \/ \E here \in SUBSET reqs[i].cand : \E over \in SUBSET here : Merge(i, here, over)

Spec == Init /\ [][Next]_vars

-----------------------------------------------------------------------------
\* The live box whose running lease the relay's page cannot have missed.
Holder(spell) ==
    IF chain.left > 0 /\ chain.since > Ttl /\ ~(spell = "label" /\ chain.twins)
    THEN RowOf(chain.runner) ELSE Nowhere

\* A request whose ledger read did not fail is sent to the box that holds the
\* lease, whatever the cache or a list learned before the lease moved; and a label
\* that names two deployments for longer than the caches last is sent nowhere
\* (xOwnerOf, v1OwnerOf, prefixAmbiguous).
FreshRoute ==
    \A i \in Reqs :
        /\ reqs[i].at = "runner" /\ reqs'[i].at # "runner" /\ ~reqs[i].err
           /\ Holder(reqs[i].spell) # Nowhere
           => reqs'[i].at = "sent" /\ reqs'[i].to = Holder(reqs[i].spell)
        /\ reqs[i].at # "sent" /\ reqs'[i].at = "sent" /\ reqs'[i].spell = "label"
           /\ chain.twins /\ chain.since = Cap
           => reqs'[i].blind
===============================================================================
