------------------------------- MODULE SniRelay -------------------------------
(***************************************************************************)
(* The relay that splices TLS it does not terminate (src/relay/relay.js)   *)
(* over its view of the fleet and the ledger (fleet.mjs).  It reads the    *)
(* name a connection asks for and decides which box the bytes go to: the   *)
(* box whose net map declares the port, else the lease's holder, else a    *)
(* box that answers for the name.  Two records may share a label, a        *)
(* customer's host stands for one id.  Time is counted in ledger page ages.*)
(***************************************************************************)
EXTENDS Integers, FiniteSets

CONSTANTS
    Boxes,      \* boxes with a fresh public registry row, vetted or not
    Vetted,     \* the ones whose operators are trusted
    Tcp,        \* by deployment, the ports it declares
    Conns,      \* connections the model follows
    MaxConns,   \* MAX_CONNS
    Ttl,        \* the ledger page's age limit
    OwnerTtl,   \* APP_OWNER_TTL_MS
    MaxAccepts, \* bound: connections
    MaxFaults   \* bound: leases, maps and boxes that move, reads that fail

VARIABLES
    chain,    \* the ledger: [runner of the live lease, twins, since]
    origins,  \* fleet.origins()
    asked,    \* the same when the poll under way began
    index,    \* originDeps: by box, the deployments with ports its net map has
    custom,   \* customDomains has the customer's host
    page,     \* _ledger of fleet.mjs: [runner, twins, age]
    app,      \* APP_OWNER by spelling: [to, age, byLease, blind]
    conns,    \* the connections
    count,    \* conns, the relay's own count
    budget    \* [accepts, faults]

vars == <<chain, origins, asked, index, custom, page, app, conns, count, budget>>
maps == <<origins, asked, index, custom>>

\* The deployment asked for and the one that shares its label.
Deps == {"dep", "twin"}
\* A subdomain spells a label, a customer's host leads to the whole id.
Spellings == {"label", "id"}
NoPage == [runner |-> 0, twins |-> FALSE, age |-> Ttl]
NoOwner == [to |-> 0, age |-> OwnerTtl, byLease |-> FALSE, blind |-> FALSE]
Free == [at |-> "free", spell |-> "id", read |-> NoPage, err |-> FALSE, gone |-> FALSE,
         blind |-> FALSE, cand |-> {}, to |-> 0, dep |-> "dep"]

Fault == budget.faults > 0 /\ budget' = [budget EXCEPT !.faults = @ - 1]

-----------------------------------------------------------------------------
(* What the relay polls                                                      *)

\* poll: the boxes of the fleet are asked. One that answers is taken at its word, one
\* that does not keeps its last map, and one that was not asked is dropped.
StartPoll ==
    /\ asked # origins /\ asked' = origins
    /\ UNCHANGED <<chain, origins, index, custom, page, app, conns, count, budget>>
PollNetMap(o, deps) ==
    /\ o \in asked /\ Fault
    /\ index' = [b \in Boxes |-> IF b = o THEN deps ELSE IF b \in asked THEN index[b] ELSE {}]
    /\ UNCHANGED <<chain, origins, asked, custom, page, app, conns, count>>

\* pollDomains: the customer's host enters or leaves the map; a failed poll keeps it.
PollDomains ==
    /\ Fault /\ custom' = ~custom
    /\ UNCHANGED <<chain, origins, asked, index, page, app, conns, count>>

\* resolve: the one deployment of the net maps the label fits, at a box that has it.
Resolve ==
    LET hits == {d \in Deps : \E b \in Boxes : d \in index[b]}
    IN  IF Cardinality(hits) # 1 THEN {}
        ELSE {[to |-> b, dep |-> d] : b \in {x \in Boxes : hits \subseteq index[x]}, d \in hits}

-----------------------------------------------------------------------------
(* A connection                                                              *)

Set(i, q) == conns' = [conns EXCEPT ![i] = q]
\* client.destroy: its close handler counts the slot free, once.
Destroy(i) == Set(i, Free) /\ count' = count - 1

\* handle: over the cap a connection is dropped unseen.
Accept(i) ==
    /\ conns[i] = Free /\ budget.accepts > 0 /\ count < MaxConns
    /\ count' = count + 1 /\ Set(i, [Free EXCEPT !.at = "hello"])
    /\ budget' = [budget EXCEPT !.accepts = @ - 1]
    /\ UNCHANGED <<chain, maps, page, app>>

\* The hello timer, a record that is no ClientHello, a name of no zone, and plain
\* HTTP, which is answered and closed.
Reject(i) ==
    /\ conns[i].at = "hello" /\ Destroy(i)
    /\ UNCHANGED <<chain, maps, page, app, budget>>

\* The name is read: a deployment's own zone ("tcp") goes to the box that has it; in
\* the app zone and on a customer's host a declared port does, port 443 is looked
\* up, and anything else is closed.  A customer's host is resolved by its label too.
Hello(i, zone, port) ==
    /\ conns[i].at = "hello" /\ (zone = "custom" => custom)
    /\ LET owned == {r \in Resolve : zone = "tcp" \/ port \in Tcp[r.dep]}
       IN  \/ \E r \in owned :
                /\ Set(i, [Free EXCEPT !.at = "dial", !.spell = "tcp", !.to = r.to, !.dep = r.dep])
                /\ UNCHANGED count
           \/ /\ owned = {} /\ zone # "tcp" /\ port = "443" /\ UNCHANGED count
              /\ Set(i, [Free EXCEPT !.at = "look", !.spell = IF zone = "custom" THEN "id" ELSE "label"])
           \/ owned = {} /\ (zone = "tcp" \/ port # "443") /\ Destroy(i)
    /\ UNCHANGED <<chain, maps, page, app, budget>>

AppOwner(spell) ==
    IF app[spell].age < OwnerTtl /\ (app[spell].byLease \/ app[spell].to \in origins)
    THEN app[spell].to ELSE 0

\* splice: the box is dialled for a client that is still there.
Dial(i, to, blind) ==
    LET q == conns[i]
    IN  Set(i, IF q.gone THEN Free ELSE [Free EXCEPT !.at = "dial", !.spell = q.spell, !.to = to,
                                                     !.blind = blind])
\* No box: the client is closed, if it has not gone.
NoBox(i) == IF conns[i].gone THEN Set(i, Free) /\ UNCHANGED count ELSE Destroy(i)

\* ledgerRows of fleet.mjs: rows younger than the page's age limit, else a read of
\* its own for every caller.
Reads(q) == IF page.age < Ttl THEN [q EXCEPT !.read = page, !.err = FALSE]
            ELSE [q EXCEPT !.read = [runner |-> chain.runner, twins |-> chain.twins, age |-> -1], !.err = FALSE]

\* appOwnerOf: here the cache comes before the ledger.
Look(i) ==
    /\ conns[i].at = "look"
    /\ LET q == conns[i]
           hit == AppOwner(q.spell)
       IN  IF hit # 0 THEN Dial(i, hit, app[q.spell].blind)
           ELSE Set(i, Reads([q EXCEPT !.at = "lease"]))
    /\ UNCHANGED <<chain, maps, page, app, count, budget>>

\* A read ends, later than another's that began after it or not, or it fails.
Arrive(i, ok) ==
    /\ conns[i].at \in {"lease", "twins"} /\ conns[i].read.age = -1
    /\ IF ok THEN /\ page' = [conns[i].read EXCEPT !.age = 0]
                  /\ Set(i, [conns[i] EXCEPT !.read.age = 0]) /\ UNCHANGED budget
       ELSE Set(i, [conns[i] EXCEPT !.read = NoPage, !.err = TRUE]) /\ Fault /\ UNCHANGED page
    /\ UNCHANGED <<chain, maps, app, count>>

Learn(spell, to, byLease, blind) ==
    app' = [app EXCEPT ![spell] = [to |-> to, age |-> 0, byLease |-> byLease, blind |-> blind]]

\* leaseEndpointFor: the holder of the one record's live lease, in the fleet or not.
LeaseEndpointFor(q) ==
    IF q.err \/ (q.spell = "label" /\ q.read.twins) THEN 0 ELSE q.read.runner
ByLease(i) ==
    /\ conns[i].at = "lease" /\ conns[i].read.age # -1
    /\ LET q == conns[i]
           to == LeaseEndpointFor(q)
       IN  IF to # 0 THEN Dial(i, to, FALSE) /\ Learn(q.spell, to, to \notin origins, FALSE)
           ELSE Set(i, Reads([q EXCEPT !.at = "twins"])) /\ UNCHANGED app
    /\ UNCHANGED <<chain, maps, page, count, budget>>

\* prefixAmbiguous: a label of two records serves nobody; else every box is asked.
Twins(i) ==
    /\ conns[i].at = "twins" /\ conns[i].read.age # -1
    /\ LET q == conns[i]
       IN  IF ~q.err /\ q.spell = "label" /\ q.read.twins THEN NoBox(i)
           ELSE Set(i, [q EXCEPT !.at = "probe", !.cand = origins, !.read = NoPage, !.err = FALSE]) /\ UNCHANGED count
    /\ UNCHANGED <<chain, maps, page, app, budget>>

\* The first box that does not say it has no such deployment, or none.
Probed(i) ==
    /\ conns[i].at = "probe"
    /\ \/ \E b \in conns[i].cand :
             Dial(i, b, TRUE) /\ Learn(conns[i].spell, b, FALSE, TRUE) /\ UNCHANGED count
       \/ NoBox(i) /\ UNCHANGED app
    /\ UNCHANGED <<chain, maps, page, budget>>

\* The box's bridge opens and the bytes are piped.
Open(i) ==
    /\ conns[i].at = "dial" /\ Set(i, [conns[i] EXCEPT !.at = "open"])
    /\ UNCHANGED <<chain, maps, page, app, count, budget>>

\* The handshake timer, a refusal, the idle timer, either end: both are closed.
Close(i) ==
    /\ conns[i].at \in {"dial", "open"} /\ Destroy(i)
    /\ UNCHANGED <<chain, maps, page, app, budget>>

\* The client hangs up while its name is looked up: the lookup goes on.
HangUp(i) ==
    /\ conns[i].at \in {"look", "lease", "twins", "probe"} /\ ~conns[i].gone
    /\ Set(i, [conns[i] EXCEPT !.gone = TRUE]) /\ count' = count - 1
    /\ UNCHANGED <<chain, maps, page, app, budget>>

-----------------------------------------------------------------------------
(* Time and the world                                                        *)

Cap == Ttl + OwnerTtl + 1
Looking(i) == conns[i].at \in {"look", "lease", "twins", "probe"}
\* A lookup is over within the unit.
Tick ==
    /\ \A i \in Conns : ~Looking(i)
    /\ chain' = [chain EXCEPT !.since = IF @ < Cap THEN @ + 1 ELSE @]
    /\ page' = IF page.age + 1 >= Ttl THEN NoPage ELSE [page EXCEPT !.age = @ + 1]
    /\ app' = [s \in Spellings |-> IF app[s].age + 1 >= OwnerTtl THEN NoOwner
                                   ELSE [app[s] EXCEPT !.age = @ + 1]]
    /\ UNCHANGED <<maps, conns, count, budget>>

\* A claim, a Move, a release, an expiry, or a second record with the same label.
Ledger ==
    /\ Fault
    /\ chain' \in [runner : {0} \union Boxes, twins : BOOLEAN, since : {0}]
    /\ chain.twins => chain'.twins
    /\ UNCHANGED <<maps, page, app, conns, count>>

\* A vetted box enters or leaves the registry (refresh).
Refresh(b) ==
    /\ b \in Vetted /\ Fault
    /\ origins' = IF b \in origins THEN origins \ {b} ELSE origins \union {b}
    /\ UNCHANGED <<chain, asked, index, custom, page, app, conns, count>>

Init ==
    /\ chain \in [runner : {0} \union Boxes, twins : BOOLEAN, since : {0}]
    /\ origins = Vetted /\ asked = Vetted /\ index = [b \in Boxes |-> {}] /\ custom = TRUE
    /\ page = NoPage /\ app = [s \in Spellings |-> NoOwner]
    /\ conns = [i \in Conns |-> Free] /\ count = 0
    /\ budget = [accepts |-> MaxAccepts, faults |-> MaxFaults]

Next ==
    \/ \E o \in Boxes, deps \in SUBSET Deps : PollNetMap(o, deps)
    \/ StartPoll \/ PollDomains \/ Tick \/ Ledger \/ \E b \in Boxes : Refresh(b)
    \/ \E i \in Conns :
         \/ Accept(i) \/ Reject(i) \/ Look(i) \/ ByLease(i) \/ Twins(i) \/ Probed(i)
         \/ Open(i) \/ Close(i) \/ HangUp(i)
         \/ \E zone \in {"app", "custom", "tcp"}, port \in {"443", "other"} : Hello(i, zone, port)
         \/ \E ok \in BOOLEAN : Arrive(i, ok)

Spec == Init /\ [][Next]_vars

-----------------------------------------------------------------------------
\* A name whose lease was read leads to the holder, or to the box that held it no
\* longer ago than the page and the cache last; two records that share a label for
\* that long are served neither (appOwnerOf, leaseEndpointFor); and the relay's count
\* of connections is the number it has, within its cap (handle, splice).
FreshSplice ==
    /\ \A i \in Conns :
          conns[i].at # "dial" /\ conns'[i].at = "dial" /\ conns'[i].spell # "tcp" /\ ~conns'[i].blind
          /\ chain.since = Cap =>
             /\ conns'[i].to = chain.runner
             /\ conns'[i].spell = "label" => ~chain.twins
    /\ count' = Cardinality({i \in Conns : conns'[i] # Free /\ ~conns'[i].gone})
    /\ count' <= MaxConns
================================================================================
