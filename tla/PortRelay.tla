----------------------------- MODULE PortRelay -----------------------------
(***************************************************************************)
(* The relays that bind a deployment's own address (src/relay/             *)
(* tcp6-relay.js, src/relay/udp-relay.js): each polls every box's map of   *)
(* addresses and ports, keeps a listener per entry, and tunnels what comes *)
(* in to the box that listed it.  A poll does not wait for the one before, *)
(* boxes stop answering, deployments move, and the close of a tunnel is    *)
(* heard after its flow is gone.                                           *)
(***************************************************************************)
EXTENDS Integers, FiniteSets

CONSTANTS
    Boxes,      \* boxes of the fleet, in the order they are asked
    Keys,       \* id, address and port of a listener
    Refused,    \* keys whose address or port the relay does not bind
    Clients,    \* addresses a client sends from
    Udp,        \* datagrams with flows, or TCP with connections
    MaxFlows,   \* UDP_MAX_FLOWS, TCP6_MAX_CONNS
    MaxBuf,     \* UDP_BUF_MAX_PKTS
    MaxPolls,   \* bound: polls started
    MaxFaults   \* bound: moves, unreachable boxes, listener errors

VARIABLES
    lists,     \* [Boxes -> keys its map names now]
    fleet,     \* boxes the relay reads from the registry
    polls,     \* [1 .. MaxPolls -> [st, ask, got]]: whom a poll asks and who answered what, {0} nothing
    listener,  \* [Keys -> box it tunnels to, 0 none]
    flows,     \* open flows: [key, from, box, ws, buf]
    late,      \* [key, from]: closes of tunnels whose flow is already gone
    count,     \* flowCount, connCount
    seen,      \* what each box listed when it last answered a poll that is over
    faults

vars == <<lists, fleet, polls, listener, flows, late, count, seen, faults>>

Silent == {0}

Init ==
    /\ lists = [b \in Boxes |-> {}] /\ fleet = Boxes
    /\ polls = [p \in 1 .. MaxPolls |-> [st |-> "idle", ask |-> {}, got |-> <<>>]]
    /\ listener = [k \in Keys |-> 0] /\ flows = {} /\ late = {} /\ count = 0
    /\ seen = [b \in Boxes |-> {}] /\ faults = MaxFaults

Fault == faults > 0 /\ faults' = faults - 1
World == <<lists, fleet, faults>>

\* A deployment launches, stops or moves; the registry adds or drops a box.
Moves(b, k) ==
    /\ Fault
    /\ lists' = [lists EXCEPT ![b] = IF k \in @ THEN @ \ {k} ELSE @ \union {k}]
    /\ UNCHANGED <<fleet, polls, listener, flows, late, count, seen>>
FleetChanges(b) ==
    /\ Fault /\ fleet' = IF b \in fleet THEN fleet \ {b} ELSE fleet \union {b}
    /\ UNCHANGED <<lists, polls, listener, flows, late, count, seen>>

-----------------------------------------------------------------------------
(* Polls                                                                     *)

\* poll: every box of the fleet is asked; a timer starts the next regardless.
Start(p) ==
    /\ polls[p].st = "idle" /\ \A q \in 1 .. p - 1 : polls[q].st # "idle"
    /\ polls' = [polls EXCEPT ![p] = [st |-> "asking", ask |-> fleet, got |-> <<>>]]
    /\ UNCHANGED <<World, listener, flows, late, count, seen>>

\* An answer: the map as it is now, or none.
Answer(p, b, reached) ==
    /\ polls[p].st = "asking" /\ b \in polls[p].ask \ DOMAIN polls[p].got
    /\ reached \/ faults > 0
    /\ LET map == IF reached THEN lists[b] \ Refused ELSE Silent
       IN  polls' = [polls EXCEPT ![p].got = [a \in DOMAIN @ \union {b} |-> IF a = b THEN map ELSE @[a]]]
    /\ UNCHANGED <<lists, fleet, listener, flows, late, count, seen>>
    /\ faults' = faults - IF reached THEN 0 ELSE 1

\* desired: the first box that lists the key. failed: what did not answer.
Asked(p) == DOMAIN polls[p].got
Failed(p) == {b \in Asked(p) : polls[p].got[b] = Silent}
Offer(p, k) == {b \in Asked(p) \ Failed(p) : k \in polls[p].got[b]}
First(S) == CHOOSE b \in S : \A a \in S : b <= a

\* Mutant: what no box offers is closed.
KeepNone(p, k) == FALSE
\* A box that did not answer keeps its bindings.
Keeps(p, k) == listener[k] \in Failed(p)

Bound(p, k) == IF Offer(p, k) # {} THEN First(Offer(p, k))
               ELSE IF Keeps(p, k) THEN listener[k] ELSE 0

\* openListener and closeListener: a binding that stays has the box that offers it
\* now; a UDP listener that closes takes its flows along, a TCP one does not.
Apply(p) ==
    /\ polls[p].st = "asking" /\ polls[p].ask = Asked(p)
    /\ LET closed == {k \in Keys : listener[k] # 0 /\ Bound(p, k) = 0}
           cut    == IF Udp THEN {f \in flows : f.key \in closed} ELSE {}
       IN  /\ listener' = [k \in Keys |-> Bound(p, k)]
           /\ flows' = flows \ cut /\ count' = count - Cardinality(cut)
           /\ late' = late \union {[key |-> f.key, from |-> f.from] : f \in cut}
    /\ seen' = [b \in Boxes |-> IF b \in Failed(p) THEN seen[b]
                                ELSE IF b \in Asked(p) THEN polls[p].got[b] ELSE {}]
    /\ polls' = [polls EXCEPT ![p] = [st |-> "over", ask |-> {}, got |-> <<>>]]
    /\ UNCHANGED World

\* The socket of a listener errs: its key is free again, what it carried stays.
ListenerErr(k) ==
    /\ Fault /\ listener[k] # 0
    /\ listener' = [listener EXCEPT ![k] = 0]
    /\ seen' = [b \in Boxes |-> seen[b] \ {k}]
    /\ UNCHANGED <<lists, fleet, polls, flows, late, count>>

-----------------------------------------------------------------------------
(* Flows                                                                     *)

Flow(k, a) == {f \in flows : f.key = k /\ f.from = a}

\* A datagram or a connection comes in: shed at the cap, else tunnelled to the box
\* that lists the key now.
Arrive(k, a) ==
    /\ listener[k] # 0 /\ Flow(k, a) = {} /\ count < MaxFlows
    /\ flows' = flows \union {[key |-> k, from |-> a, box |-> listener[k], ws |-> "opening", buf |-> 1]}
    /\ count' = count + 1
    /\ UNCHANGED <<World, polls, listener, late, seen>>

\* What comes before the tunnel is open is buffered, the oldest going first.
Buffers(f) ==
    /\ Udp /\ f \in flows /\ listener[f.key] # 0 /\ f.ws = "opening" /\ f.buf < MaxBuf
    /\ flows' = (flows \ {f}) \union {[f EXCEPT !.buf = @ + 1]}
    /\ UNCHANGED <<World, polls, listener, late, count, seen>>

\* Mutant: takes one off without looking for the flow.
DropBlind(fs) == 1
\* dropFlow: only what is still there is counted off.
Dropped(fs) == Cardinality(fs)

Opens(f) ==
    /\ f \in flows /\ f.ws = "opening"
    /\ flows' = (flows \ {f}) \union {[f EXCEPT !.ws = "open", !.buf = 0]}
    /\ UNCHANGED <<World, polls, listener, late, count, seen>>

\* The timers: no handshake in time, or idle. The tunnel is told to close.
TimesOut(f) ==
    /\ f \in flows /\ flows' = flows \ {f} /\ count' = count - Dropped({f})
    /\ late' = IF Udp THEN late \union {[key |-> f.key, from |-> f.from]} ELSE late
    /\ UNCHANGED <<World, polls, listener, seen>>

\* The tunnel's own close: whatever flow now has the client's address goes.
Closes(e) ==
    /\ e \in late /\ late' = late \ {e}
    /\ flows' = flows \ Flow(e.key, e.from) /\ count' = count - Dropped(Flow(e.key, e.from))
    /\ UNCHANGED <<World, polls, listener, seen>>

Next ==
    \/ \E b \in Boxes : FleetChanges(b) \/ \E k \in Keys : Moves(b, k)
    \/ \E p \in 1 .. MaxPolls :
          \/ Start(p) \/ Apply(p)
          \/ \E b \in Boxes, reached \in BOOLEAN : Answer(p, b, reached)
    \/ \E k \in Keys : ListenerErr(k) \/ \E a \in Clients : Arrive(k, a)
    \/ \E f \in flows : Opens(f) \/ TimesOut(f) \/ Buffers(f)
    \/ \E e \in late : Closes(e)

Spec == Init /\ [][Next]_vars

-----------------------------------------------------------------------------
(* What a relay of ports promises                                            *)

\* A listener is bound to a box that listed its key when it last answered. The count
\* against the cap is the flows that are open, however many closes come.
BoundAsListed == \A k \in Keys : listener[k] # 0 => k \in seen[listener[k]]
CountsFlows == count = Cardinality(flows)
RelaySound == BoundAsListed /\ CountsFlows

\* A poll takes no listener down because a box does not answer: only when the box it
\* is bound to answered without the key, or left, and nobody else offers it.
NoneTakenDown ==
    \A k \in Keys :
       (listener[k] # 0 /\ listener'[k] = 0) => /\ k \notin seen'[listener[k]]
                                               /\ \A b \in Boxes : seen'[b] # seen[b] => k \notin seen'[b]
=============================================================================
