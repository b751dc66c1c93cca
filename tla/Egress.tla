------------------------------- MODULE Egress -------------------------------
(***************************************************************************)
(* Outbound connections of tenants.  The box's SOCKS server                *)
(* (src/egress.js) asks a relay over its control channel to dial, under a  *)
(* one-use id; the relay (src/relay/egress-relay.js) dials and comes back  *)
(* with a data socket that names the id.  Control channels break and are   *)
(* replaced, either side gives up on its own timer, clients and targets    *)
(* close when they like, and every close is heard of later.                *)
(***************************************************************************)
EXTENDS Integers, FiniteSets

CONSTANTS
    Addressed,   \* deployments with an address of their own: a subset of Cids' tenants
    Unknown,     \* tenants the box no longer runs
    MaxCid,      \* bound: outbound connections asked for, each by tenant of its number
    MaxConn,     \* bound: control channels
    MaxConns,    \* EGRESS_MAX_CONNS
    MaxFaults    \* bound: broken channels, fleet changes

Cids == 1 .. MaxCid
Default == 1      \* DEFAULT_RELAY
Dedicated == 2    \* DEDICATED_RELAY, the owner of the /64
Relays == {Default, Dedicated}

VARIABLES
    box,      \* [Cids -> [st, ans]]: the SOCKS client as the box sees it
    leg,      \* [Cids -> [st, counted, via, source]]: the relay's dial
    data,     \* [Cids -> [asked, r, b]]: the data socket and its two ends
    wire,     \* messages on control channels: [t, c, k, source]
    control,  \* controlByRelay: [Relays -> channel, 0 none]
    chan,     \* [1 .. MaxConn -> [name, r, b, cut]]: control channels, ends "none" / "up" / "shut"
    count,    \* [Relays -> connCount]
    listed,   \* the box is in the fleet the relays see
    faults

vars == <<box, leg, data, wire, control, chan, count, listed, faults>>

Init ==
    /\ box = [c \in Cids |-> [st |-> "none", ans |-> "none"]]
    /\ leg = [c \in Cids |-> [st |-> "none", counted |-> FALSE, via |-> 0, source |-> FALSE]]
    /\ data = [c \in Cids |-> [asked |-> FALSE, r |-> "none", b |-> "none"]]
    /\ wire = {} /\ control = [r \in Relays |-> 0]
    /\ chan = [k \in 1 .. MaxConn |-> [name |-> Default, r |-> "none", b |-> "none", cut |-> FALSE]]
    /\ count = [r \in Relays |-> 0] /\ listed = TRUE /\ faults = MaxFaults

Fault == faults > 0 /\ faults' = faults - 1
Chans == <<control, chan, listed>>

-----------------------------------------------------------------------------
(* The box                                                                   *)

\* socksReply and failPending: one answer, and the client's socket is gone.
Refused(c) == box' = [box EXCEPT ![c] = [st |-> "gone", ans |-> "fail"]]

\* routeEgress: the relay asked for, else the default, else the dedicated one,
\* which is refused to a tenant without an address.
RouteEgress(want, attached, hasSource) ==
    LET relay == CASE want \in attached -> want
                   [] want \notin attached /\ Default \in attached -> Default
                   [] OTHER -> Dedicated
    IN  IF relay \notin attached \/ (relay = Dedicated /\ ~hasSource) THEN 0 ELSE relay

\* tokenOk, isKnown: the token of the name it comes with, of a tenant still here.
Authed(c, token) == token = c /\ c \notin Unknown

\* The SOCKS handshake up to a CONNECT, and beginConnect.
Connect(c, token, want, blocked) ==
    /\ box[c].st = "none" /\ \A e \in Cids : e < c => box[e].st # "none"
    /\ LET relay == RouteEgress(want, {r \in Relays : control[r] # 0}, c \in Addressed)
           open  == [t |-> "open", c |-> c, k |-> control[relay], source |-> relay = Dedicated]
       IN  IF ~Authed(c, token) \/ blocked \/ relay = 0
           THEN Refused(c) /\ UNCHANGED wire
           ELSE /\ box' = [box EXCEPT ![c].st = "pending"]
                /\ wire' = wire \union (IF chan[control[relay]].r = "up" THEN {open} ELSE {})
    /\ UNCHANGED <<leg, data, count, Chans, faults>>

\* OPEN_TIMEOUT_MS, and the client that leaves before an answer.
GiveUp(c) ==
    /\ box[c].st = "pending" /\ Refused(c)
    /\ UNCHANGED <<leg, data, wire, count, Chans, faults>>

\* A close message of a relay that could not dial.
CouldNot(m) ==
    /\ m \in wire /\ m.t = "close" /\ chan[m.k].b = "up" /\ wire' = wire \ {m}
    /\ IF box[m.c].st = "pending" THEN Refused(m.c) ELSE UNCHANGED box
    /\ UNCHANGED <<leg, data, count, Chans, faults>>

\* handleUpgrade of a data socket: the id is spent, or unknown and the socket refused.
Takes(c) == box[c].st = "pending"
Upgrade(c) ==
    /\ data[c].asked
    /\ data' = [data EXCEPT ![c].asked = FALSE, ![c].b = IF Takes(c) THEN "up" ELSE "shut"]
    /\ box' = IF Takes(c) THEN [box EXCEPT ![c] = [st |-> "spliced", ans |-> "ok"]] ELSE box
    /\ UNCHANGED <<leg, wire, count, Chans, faults>>

\* close(): the client or the data socket ended, and both go.
BoxEnds(c) ==
    /\ box[c].st = "spliced"
    /\ box' = [box EXCEPT ![c].st = "gone"] /\ data' = [data EXCEPT ![c].b = "shut"]
    /\ UNCHANGED <<leg, wire, count, Chans, faults>>

-----------------------------------------------------------------------------
(* The relay                                                                 *)

\* fail: a message on the channel the request came by, if it is still open.
Fail(c, k, w) ==
    wire' = w \union (IF chan[k].r = "up" THEN {[t |-> "close", c |-> c, k |-> k, source |-> FALSE]} ELSE {})

\* handleOpen: a source outside the prefix, or too many connections, is refused.
HandleOpen(m, offPrefix) ==
    /\ m \in wire /\ m.t = "open" /\ chan[m.k].r = "up"
    /\ IF (m.source /\ offPrefix) \/ count[chan[m.k].name] >= MaxConns
       THEN Fail(m.c, m.k, wire \ {m}) /\ UNCHANGED leg
       ELSE /\ wire' = wire \ {m}
            /\ leg' = [leg EXCEPT ![m.c] = [st |-> "lookup", counted |-> FALSE, via |-> m.k, source |-> m.source]]
    /\ UNCHANGED <<box, data, count, Chans, faults>>

Name(c) == chan[leg[c].via].name

\* pickTarget: no address left after the guard, or a dial that counts.
PickTarget(c, found) ==
    /\ leg[c].st = "lookup"
    /\ IF found
       THEN /\ leg' = [leg EXCEPT ![c].st = "dialing", ![c].counted = TRUE]
            /\ count' = [count EXCEPT ![Name(c)] = @ + 1] /\ UNCHANGED wire
       ELSE leg' = [leg EXCEPT ![c].st = "over"] /\ Fail(c, leg[c].via, wire) /\ UNCHANGED count
    /\ UNCHANGED <<box, data, Chans, faults>>

\* Mutant: every close takes one off.
UncountEach(c) == 1
\* uncount: once for each connection, whichever of its ends closes first.
Uncount(c) == IF leg[c].counted THEN 1 ELSE 0

\* The dial errs or times out, or the connection is over: the target's socket closed.
Over(c) ==
    /\ leg' = [leg EXCEPT ![c].st = "over", ![c].counted = FALSE]
    /\ count' = [count EXCEPT ![Name(c)] = @ - Uncount(c)]

DialFails(c) ==
    /\ leg[c].st = "dialing" /\ Over(c) /\ Fail(c, leg[c].via, wire)
    /\ UNCHANGED <<box, data, Chans, faults>>

DialWorks(c) ==
    /\ leg[c].st = "dialing" /\ leg' = [leg EXCEPT ![c].st = "opening"]
    /\ data' = [data EXCEPT ![c] = [asked |-> TRUE, r |-> "up", b |-> "none"]]
    /\ UNCHANGED <<box, wire, count, Chans, faults>>

\* The target closes: its pipe, once there is one, ends the data socket too.
TargetCloses(c) ==
    /\ leg[c].st \in {"opening", "piped"}
    /\ Over(c)
    /\ data' = IF leg[c].st = "piped" THEN [data EXCEPT ![c].r = "shut"] ELSE data
    /\ UNCHANGED <<box, wire, Chans, faults>>

\* The data socket opens at the relay; what the target already ended ends it.
Opened(c) ==
    /\ data[c].r = "up" /\ data[c].b = "up" /\ leg[c].st \in {"opening", "over"}
    /\ leg' = IF leg[c].st = "opening" THEN [leg EXCEPT ![c].st = "piped"] ELSE leg
    /\ data' = IF leg[c].st = "over" THEN [data EXCEPT ![c].r = "shut"] ELSE data
    /\ UNCHANGED <<box, wire, count, Chans, faults>>

\* abort, ws close, and the handshake's timer: uncounted, and the target's socket closed.
DataEnds(c) ==
    /\ data[c].r = "up" /\ (data[c].b = "shut" \/ (data[c].b # "up" /\ leg[c].st \in {"opening", "over"}))
    /\ data' = [data EXCEPT ![c].r = "shut"] /\ Over(c)
    /\ UNCHANGED <<box, wire, Chans, faults>>

\* The box hears that the data socket is gone.
BoxHears(c) == data[c].r = "shut" /\ BoxEnds(c)

-----------------------------------------------------------------------------
(* Control channels                                                          *)

\* ensureControl: one channel at a time and a redial after it closed. At the box
\* the newest for the relay's name wins, and the one before is closed.
Attach(k, r) ==
    /\ listed /\ chan[k].r = "none" /\ \A j \in 1 .. k - 1 : chan[j].r # "none"
    /\ \A j \in 1 .. MaxConn : chan[j].name = r => chan[j].r # "up"
    /\ chan' = [j \in 1 .. MaxConn |->
                  IF j = k THEN [name |-> r, r |-> "up", b |-> "up", cut |-> FALSE]
                  ELSE [chan[j] EXCEPT !.cut = @ \/ j = control[r]]]
    /\ control' = [control EXCEPT ![r] = k]
    /\ UNCHANGED <<box, leg, data, wire, count, listed, faults>>

Cut(k) ==
    /\ Fault /\ chan[k].r = "up" /\ ~chan[k].cut /\ chan' = [chan EXCEPT ![k].cut = TRUE]
    /\ UNCHANGED <<box, leg, data, wire, control, count, listed>>

\* Mutant: the close of a channel takes the relay's name with it.
DropsName(k) == control[chan[k].name] # 0
\* drop: only if the name still stands for this channel.
Drops(k) == control[chan[k].name] = k
BoxLoses(k) ==
    /\ chan[k].b = "up" /\ (chan[k].cut \/ chan[k].r = "shut")
    /\ chan' = [chan EXCEPT ![k].b = "shut"]
    /\ control' = IF Drops(k) THEN [control EXCEPT ![chan[k].name] = 0] ELSE control
    /\ wire' = {m \in wire : m.k # k \/ m.t = "open"}
    /\ UNCHANGED <<box, leg, data, count, listed, faults>>

RelayLoses(k) ==
    /\ chan[k].r = "up" /\ (chan[k].cut \/ chan[k].b = "shut")
    /\ chan' = [chan EXCEPT ![k].r = "shut"]
    /\ wire' = {m \in wire : m.k # k \/ m.t = "close"}
    /\ UNCHANGED <<box, leg, data, control, count, listed, faults>>

\* reconcile: the box leaves the fleet (dropControl) or is back.
Reconcile ==
    /\ Fault /\ listed' = ~listed
    /\ chan' = [k \in 1 .. MaxConn |->
                  IF listed /\ chan[k].r = "up" THEN [chan[k] EXCEPT !.r = "shut"] ELSE chan[k]]
    /\ wire' = IF listed THEN {m \in wire : m.t = "close"} ELSE wire
    /\ UNCHANGED <<box, leg, data, control, count>>

Next ==
    \/ \E c \in Cids :
          \/ \E token \in Cids, want \in Relays, blocked \in BOOLEAN : Connect(c, token, want, blocked)
          \/ GiveUp(c) \/ Upgrade(c) \/ BoxEnds(c) \/ BoxHears(c)
          \/ \E found \in BOOLEAN : PickTarget(c, found)
          \/ DialFails(c) \/ DialWorks(c) \/ TargetCloses(c) \/ Opened(c) \/ DataEnds(c)
    \/ \E m \in wire : CouldNot(m) \/ \E off \in BOOLEAN : HandleOpen(m, off)
    \/ \E k \in 1 .. MaxConn : Cut(k) \/ BoxLoses(k) \/ RelayLoses(k) \/ \E r \in Relays : Attach(k, r)
    \/ Reconcile

Spec == Init /\ [][Next]_vars

-----------------------------------------------------------------------------
(* What the outbound path promises                                           *)

\* The counter is the connections that are open, once each, however they end: it
\* never drifts to where new ones are refused for good, or below none.
CountsOpen ==
    \A r \in Relays :
       count[r] = Cardinality({c \in Cids : leg[c].st \in {"dialing", "opening", "piped"} /\ Name(c) = r})

\* A channel up at both ends is the one its name stands for, whatever closes late.
NewestControl ==
    \A k \in 1 .. MaxConn :
       (chan[k].r = "up" /\ chan[k].b = "up" /\ ~chan[k].cut) => control[chan[k].name] = k

\* A tenant is told "connected" only once a target answered for its id, and a pair
\* does not stay half open: a target whose client is gone has the close on its way.
NoHalfOpen ==
    \A c \in Cids :
       /\ box[c].ans = "ok" => leg[c].st \in {"opening", "piped", "over"}
       /\ leg[c].st = "piped" => data[c].r = "up"
       /\ (leg[c].st = "piped" /\ box[c].st # "spliced") => data[c].b = "shut"

\* An own source address is asked only of the relay that holds the prefix.
OwnSourceAtHome == \A c \in Cids : leg[c].source => Name(c) = Dedicated /\ c \in Addressed

EgressSound == CountsOpen /\ NewestControl /\ NoHalfOpen /\ OwnSourceAtHome
=============================================================================
