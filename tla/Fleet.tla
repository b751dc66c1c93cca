------------------------------- MODULE Fleet -------------------------------
(***************************************************************************)
(* How a relay learns the fleet (src/relay/fleet.mjs): the address book    *)
(* names the registry and the ledger, each contract's shape is asked once  *)
(* and kept per address, and the rows become the boxes a relay may dial,   *)
(* the boxes a lease may lead to and the leases themselves.  Every read    *)
(* may fail on its own and leaves what was known.                          *)
(***************************************************************************)
EXTENDS Integers, FiniteSets

CONSTANTS
    Schema,     \* [registries -> registrySchema]
    Rows,       \* [rows -> [host, trusted, public]]: what an entry declares
    Ledgers,    \* [ledgers -> deploymentsSchema]
    Twins,      \* deployments that share the prefix asked for
    MaxReads,   \* bound: reads of the registry and of the ledger
    MaxFaults   \* bound: calls that fail, moves of the book

Registries == DOMAIN Schema
Entries == DOMAIN Rows

VARIABLES
    book,      \* what the address book names: [registry, ledger]
    listed,    \* [Registries -> active, fresh rows]
    created,   \* deployments on the ledger
    addr,      \* the registry this relay reads
    rev,       \* _regRev: [Registries -> shape, 0 not asked]
    read,      \* [step, clean]: a read of the registry under way
    origins,   \* boxes the relay dials
    any,       \* _anyEndpoints: boxes a live lease may lead to
    shape,     \* _depShape: [addr, v]
    ledger,    \* [rows, from, at, v]: rows last read, of which ledger, cached or not, decoded how
    budget     \* [reads, faults]

vars == <<book, listed, created, addr, rev, read, origins, any, shape, ledger, budget>>

Init ==
    /\ book = [registry |-> 1, ledger |-> 1]
    /\ listed = [r \in Registries |-> Entries] /\ created = {}
    /\ addr = 1 /\ rev = [r \in Registries |-> 0]
    /\ read = [step |-> "idle", clean |-> TRUE]
    /\ origins = {} /\ any = {}
    /\ shape = [addr |-> 0, v |-> 1] /\ ledger = [rows |-> {}, from |-> 0, at |-> FALSE, v |-> 0]
    /\ budget = [reads |-> MaxReads, faults |-> MaxFaults]

Fault == budget.faults > 0 /\ budget' = [budget EXCEPT !.faults = @ - 1]
\* A call answers, or fails at the cost of a fault.
Call(ok) == ok \/ budget.faults > 0
Spend(ok) == budget' = [budget EXCEPT !.faults = @ - IF ok THEN 0 ELSE 1]
Chain == <<book, listed, created>>
View == <<addr, rev, origins, any>>
Leases == <<shape, ledger>>

\* The owner moves the book; boxes and deployments come and go.
Repoint == Fault /\ \E r \in Registries, l \in DOMAIN Ledgers : book' = [registry |-> r, ledger |-> l]
           /\ UNCHANGED <<listed, created, View, read, Leases>>
Relist == Fault /\ \E r \in Registries, e \in Entries :
              listed' = [listed EXCEPT ![r] = IF e \in @ THEN @ \ {e} ELSE @ \union {e}]
           /\ UNCHANGED <<book, created, View, read, Leases>>
Create == \E t \in Twins \ created : created' = created \union {t}
           /\ UNCHANGED <<book, listed, View, read, Leases, budget>>

-----------------------------------------------------------------------------
(* The registry                                                              *)

\* refresh, readRegistry: the book first; unread or empty, the address known stays.
ReadBook(ok) ==
    /\ read.step = "idle" /\ budget.reads > 0 /\ Call(ok)
    /\ addr' = IF ok THEN book.registry ELSE addr
    /\ read' = [step |-> "shape", clean |-> TRUE]
    /\ budget' = [reads |-> budget.reads - 1, faults |-> budget.faults - IF ok THEN 0 ELSE 1]
    /\ UNCHANGED <<Chain, rev, origins, any, Leases>>

\* registryAbi: asked once for each address; any failure reads as the first schema.
Sniff(ok) ==
    /\ read.step = "shape" /\ Call(ok) /\ (rev[addr] # 0 => ok)
    /\ rev' = [rev EXCEPT ![addr] = IF @ # 0 THEN @ ELSE IF ok THEN Schema[addr] ELSE 1]
    /\ read' = [read EXCEPT !.step = "rows"] /\ Spend(ok)
    /\ UNCHANGED <<Chain, addr, origins, any, Leases>>

\* isHostRow: an entry without capabilities, or read in a shape without them, is a box.
IsHost(e, v) == v < 5 \/ Rows[e].host
\* trustedOperators, isHttpsEndpoint, isBlockedHost.
Public(e) == Rows[e].public
Vetted(e) == Rows[e].trusted

\* Mutant: a read that fails leaves nobody to dial.
OnFail == {}
\* A failed read keeps the fleet.
Kept == origins

ReadRows(ok) ==
    /\ read.step = "rows" /\ Call(ok) /\ Spend(ok)
    /\ origins' = IF ok THEN {e \in listed[addr] : IsHost(e, rev[addr]) /\ Vetted(e) /\ Public(e)} ELSE Kept
    /\ any' = IF ok THEN {e \in listed[addr] : Public(e)} ELSE any
    /\ read' = [step |-> "idle", clean |-> ok]
    /\ UNCHANGED <<Chain, addr, rev, Leases>>

-----------------------------------------------------------------------------
(* The ledger                                                                *)

\* depAbi: a transport error is not taken for a contract of the first shape.
Known(how) == IF shape.addr = book.ledger THEN shape
              ELSE IF how = "answers" \/ Ledgers[book.ledger] = 1 THEN [addr |-> book.ledger, v |-> Ledgers[book.ledger]]
              ELSE [addr |-> shape.addr, v |-> 1]

\* ledgerRows: rows younger than the cache; else a read, where rows decoded in the
\* wrong shape throw and the shape is forgotten.
LedgerRows(how, ok) ==
    /\ ~ledger.at /\ budget.reads > 0 /\ Call(ok /\ how = "answers")
    /\ LET v == Known(how).v
           fits == v = Ledgers[book.ledger]
       IN  /\ shape' = IF ok /\ ~fits THEN [addr |-> 0, v |-> v]
                       ELSE IF Known(how).addr = book.ledger THEN Known(how) ELSE shape
           /\ ledger' = IF ok /\ fits
                        THEN [rows |-> created, from |-> book.ledger, at |-> TRUE, v |-> v] ELSE ledger
    /\ budget' = [reads |-> budget.reads - 1,
                  faults |-> budget.faults - IF ok /\ how = "answers" THEN 0 ELSE 1]
    /\ UNCHANGED <<Chain, View, read>>

\* The ten seconds of the cache pass.
Ages == ledger.at /\ ledger' = [ledger EXCEPT !.at = FALSE] /\ UNCHANGED <<Chain, View, read, shape, budget>>

\* prefixAmbiguous: true only when rows that were read say so.
PrefixAmbiguous == ledger.at /\ Cardinality(ledger.rows) > 1

Next ==
    \/ Repoint \/ Relist \/ Create \/ Ages
    \/ \E ok \in BOOLEAN :
          \/ ReadBook(ok) \/ Sniff(ok) \/ ReadRows(ok)
          \/ \E how \in {"answers", "fails"} : LedgerRows(how, ok)

Spec == Init /\ [][Next]_vars

-----------------------------------------------------------------------------
(* What a relay's view promises                                              *)

\* The fleet changes only by a read that went through, to vetted public boxes of the
\* registry it reads, and no relay's own row is one, if that registry's shape was
\* ever read; leases are rows as the ledger has them; a prefix is called ambiguous
\* only if it is.
ViewAsRead ==
    /\ origins' # origins =>
          /\ read.step = "rows" /\ read'.clean
          /\ \A e \in origins' : /\ e \in listed[addr] /\ Rows[e].trusted /\ Rows[e].public
                                 /\ Rows[e].host \/ rev[addr] # Schema[addr] \/ Schema[addr] < 5
    /\ ledger' # ledger /\ ledger'.at => ledger'.v = Ledgers[ledger'.from] /\ ledger'.rows \subseteq created
    /\ PrefixAmbiguous' => Cardinality(created) > 1
=============================================================================
