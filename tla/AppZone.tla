-------------------------------- MODULE AppZone --------------------------------
(***************************************************************************)
(* What DNS answers for a deployment's names.  A relay says on its own     *)
(* status what it is called, where it listens and whether it splices TLS;  *)
(* a deployment's record names the relay it wants.  The API relay          *)
(* (src/relay/api-relay.js) makes one map of both, and the DNS relay       *)
(* (src/relay/dns-relay.js) polls it, with the net maps of the boxes, and  *)
(* keeps the last good answer of each.  The deployments of the model share *)
(* one label.                                                              *)
(***************************************************************************)
EXTENDS Integers, FiniteSets

CONSTANTS
    Relays,     \* boxes that may say they relay
    Boxes,      \* boxes with a net map
    RelayNames, \* names a relay may have
    Deps,       \* deployments, all of one label
    Default,    \* RELAY_DEFAULT_LABEL, or "none"
    MaxFaults   \* bound: relays, records and boxes that change, polls that fail

VARIABLES
    relays,     \* by relay: [up, name, sni, v4, v6]
    choice,     \* the ledger, by deployment: the name it wants, "none", "absent"
    nets,       \* by box: the deployments with an address it has
    origins,    \* the boxes of the fleet
    live,       \* API relay: what the relays that answered said, by relay
    rows,       \* API relay: the page of the ledger, or NoPage
    poll,       \* DNS relay: the poll under way, [at, roster, asked, left, fresh]
    appRelays,  \* DNS relay: [relay, a, aaaa] of the label, or Wildcard
    perOrigin,  \* DNS relay: by box, the rows of its last net map
    known,      \* DNS relay: deployments
    good,       \* ghost: the halves of the last poll nothing has outdated since
    faults

vars == <<relays, choice, nets, origins, live, rows, poll, appRelays, perOrigin,
          known, good, faults>>
world == <<relays, choice, nets, origins>>
api == <<live, rows>>
zone == <<appRelays, perOrigin, known>>

NoPage == [d \in Deps |-> "unread"]
Wildcard == [relay |-> "zone", a |-> TRUE, aaaa |-> TRUE]
Resting == [at |-> "rest", roster |-> {}, asked |-> {}, left |-> {}, fresh |-> {}]
Down == [up |-> FALSE, name |-> "none", sni |-> FALSE, v4 |-> FALSE, v6 |-> FALSE]

Fault == faults > 0 /\ faults' = faults - 1

-----------------------------------------------------------------------------
(* The API relay's map                                                       *)

\* pollAvailability: a relay that does not answer is not live.
PollAvailability(answered) ==
    /\ live' = [r \in Relays |-> IF r \in answered /\ relays[r].up THEN relays[r] ELSE Down]
    /\ live' # live
    /\ IF answered = Relays THEN UNCHANGED faults ELSE Fault
    /\ UNCHANGED <<world, rows, poll, zone, good>>

\* relayRowOf: a box that says it relays, under a name a record can spell.
RelayRowOf(r) == [name |-> live[r].name, sni |-> live[r].sni, v4 |-> live[r].v4, v6 |-> live[r].v6]

\* relayRoster: two that answer to one name are both left out.
RelayRoster ==
    {RelayRowOf(r) : r \in {x \in Relays : /\ live[x].up /\ live[x].name # "none"
                                           /\ \A y \in Relays \ {x} : live[y].name # live[x].name}}

\* relayLabels: the chosen relay, else the default, if it splices and has an
\* address; a label of two records gets no entry, whatever either chose.
Able(roster) == {r \in roster : r.sni /\ (r.v4 \/ r.v6)}
Called(roster, name) == {r \in Able(roster) : r.name = name}
RelayLabels(page, roster) ==
    LET here == {d \in Deps : page[d] # "absent"}
        wants == UNION {Called(roster, page[d]) : d \in here}
        takes == IF wants # {} THEN wants ELSE Called(roster, Default)
    IN  IF Cardinality(here) # 1 THEN {}
        ELSE {[relay |-> r.name, a |-> r.v4, aaaa |-> r.v6] : r \in takes}

-----------------------------------------------------------------------------
(* The DNS relay's polls                                                     *)

\* What the next answer would be made of is what is so.
MapKnown == rows \in {choice, NoPage}
            /\ \A r \in Relays : live[r] = IF relays[r].up THEN relays[r] ELSE Down

\* The roster is taken when the request comes, before the page is awaited.
StartPoll ==
    /\ poll = Resting
    /\ poll' = [at |-> "map", roster |-> RelayRoster, asked |-> {}, left |-> {},
                fresh |-> (IF MapKnown THEN {"map"} ELSE {}) \union {"nets"}]
    /\ UNCHANGED <<world, api, zone, good, faults>>

\* ledgerRows, and the page's age.
ReadPage ==
    /\ poll.at = "map" /\ rows = NoPage /\ rows' = choice
    /\ UNCHANGED <<world, live, poll, zone, good, faults>>
Expire ==
    /\ rows # NoPage /\ rows' = NoPage
    /\ UNCHANGED <<world, live, poll, zone, good, faults>>

\* pollRelayMap: an error, the API relay's or the network's, keeps the map.
PollRelayMap(ok) ==
    /\ poll.at = "map" /\ rows # NoPage
    /\ poll' = [poll EXCEPT !.at = "nets", !.roster = {}, !.asked = origins, !.left = origins]
    /\ IF ok
       THEN /\ \E e \in LET l == RelayLabels(rows, poll.roster)
                        IN  IF l = {} THEN {Wildcard} ELSE l : appRelays' = e
            /\ good' = (good \ {"map"}) \union (poll.fresh \intersect {"map"})
            /\ UNCHANGED faults
       ELSE Fault /\ UNCHANGED <<appRelays, good>>
    /\ UNCHANGED <<world, api, perOrigin, known>>

\* poll: a net map is taken, or, unread, the box's last one is kept.
PollNetMap(b, ok) ==
    /\ poll.at = "nets" /\ b \in poll.left
    /\ IF ok THEN /\ perOrigin' = [perOrigin EXCEPT ![b] = nets[b]]
                  /\ poll' = [poll EXCEPT !.left = @ \ {b}] /\ UNCHANGED faults
       ELSE /\ Fault /\ UNCHANGED perOrigin
            /\ poll' = [poll EXCEPT !.left = @ \ {b}, !.fresh = @ \ {"nets"}]
    /\ UNCHANGED <<world, api, appRelays, known, good>>

\* Boxes that were not in the fleet when it was asked lose their rows, and the rest
\* are flattened.
EndPoll ==
    /\ poll.at = "nets" /\ poll.left = {} /\ poll' = Resting
    /\ perOrigin' = [b \in Boxes |-> IF b \in poll.asked THEN perOrigin[b] ELSE {}]
    /\ known' = UNION {perOrigin'[b] : b \in Boxes}
    /\ good' = (good \ {"nets"}) \union (poll.fresh \intersect {"nets"})
    /\ UNCHANGED <<world, api, appRelays, faults>>

-----------------------------------------------------------------------------
(* Answers                                                                   *)

\* resolveWildcard, resolveApp: the label's own relay or, without one, the zone's;
\* a family the relay does not have is not answered from the zone.
Families == {"A", "AAAA"}
ResolveApp(q) == IF (q = "A" /\ appRelays.a) \/ (q = "AAAA" /\ appRelays.aaaa)
                 THEN {appRelays.relay} ELSE {}
\* resolveIp: the one deployment the label names, by its own address.
ResolveIp == IF Cardinality(known) = 1 THEN known ELSE {}

-----------------------------------------------------------------------------
(* The world                                                                 *)

\* A relay comes, goes, or says something else of itself.
Relay(r) ==
    /\ Fault
    /\ relays' \in {[relays EXCEPT ![r] = x] : x \in [up : BOOLEAN, name : RelayNames,
                        sni : BOOLEAN, v4 : BOOLEAN, v6 : BOOLEAN]}
    /\ good' = good \ {"map"} /\ poll' = [poll EXCEPT !.fresh = @ \ {"map"}]
    /\ UNCHANGED <<choice, nets, origins, api, zone>>

\* A record is created, or names another relay.
Choose(d) ==
    /\ Fault /\ choice' \in {[choice EXCEPT ![d] = n] : n \in RelayNames \union {"none"}}
    /\ good' = good \ {"map"} /\ poll' = [poll EXCEPT !.fresh = @ \ {"map"}]
    /\ UNCHANGED <<relays, nets, origins, api, zone>>

\* A box takes a deployment on or lets it go, enters the fleet or leaves it.
Serve(b) ==
    /\ Fault
    /\ \/ nets' \in {[nets EXCEPT ![b] = s] : s \in SUBSET Deps} /\ UNCHANGED origins
       \/ /\ origins' \in {origins \union {b}, origins \ {b}} /\ UNCHANGED nets
    /\ good' = good \ {"nets"} /\ poll' = [poll EXCEPT !.fresh = @ \ {"nets"}]
    /\ UNCHANGED <<relays, choice, api, zone>>

Init ==
    /\ relays \in [Relays -> [up : {TRUE}, name : RelayNames, sni : {TRUE}, v4 : {TRUE}, v6 : {TRUE}]]
    /\ choice \in [Deps -> RelayNames \union {"none", "absent"}]
    /\ nets = [b \in Boxes |-> {}] /\ origins = Boxes
    /\ live = [r \in Relays |-> Down] /\ rows = NoPage
    /\ poll = Resting /\ appRelays = Wildcard
    /\ perOrigin = [b \in Boxes |-> {}] /\ known = {}
    /\ good = {} /\ faults = MaxFaults

Next ==
    \/ \E answered \in SUBSET Relays : PollAvailability(answered)
    \/ StartPoll \/ ReadPage \/ Expire \/ EndPoll
    \/ \E ok \in BOOLEAN : PollRelayMap(ok) \/ \E b \in Boxes : PollNetMap(b, ok)
    \/ \E r \in Relays : Relay(r)
    \/ \E d \in Deps : Choose(d)
    \/ \E b \in Boxes : Serve(b)

Spec == Init /\ [][Next]_vars

-----------------------------------------------------------------------------
\* The relay a name stands for, if one that is up answers to it and to no other box.
Stands(name) == {r \in Relays : /\ relays[r].up /\ relays[r].name = name /\ relays[r].sni
                                /\ relays[r].v4 \/ relays[r].v6
                                /\ \A s \in Relays : relays[s].up /\ relays[s].name = name => s = r}
Created == {d \in Deps : choice[d] # "absent"}
\* Where the one record's traffic should go.
Meant == IF Cardinality(Created) # 1 THEN {}
         ELSE LET d == CHOOSE x \in Created : TRUE
              IN  IF Stands(choice[d]) # {} THEN Stands(choice[d]) ELSE Stands(Default)
Served == {d \in Deps : \E b \in origins : d \in nets[b]}

\* Once a poll that began after the last change has gone through, a deployment's
\* name is answered by the relay its record names and by no other, in the families
\* that relay has; a relay that left, a name two relays share and a label two
\* records share fall back to the zone; and its address is answered when a box of
\* the fleet serves it and no other of its label (relayLabels, pollRelayMap, poll).
ZoneFollows ==
    /\ "map" \in good =>
          IF Meant = {} THEN appRelays = Wildcard
          ELSE \A r \in Meant :
                 /\ ResolveApp("A") = IF relays[r].v4 THEN {relays[r].name} ELSE {}
                 /\ ResolveApp("AAAA") = IF relays[r].v6 THEN {relays[r].name} ELSE {}
    /\ "nets" \in good => ResolveIp = IF Cardinality(Served) = 1 THEN Served ELSE {}
================================================================================
