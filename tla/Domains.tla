-------------------------------- MODULE Domains --------------------------------
(***************************************************************************)
(* One custom hostname: owners attach it to a deployment, verify it and    *)
(* detach it; the relay checks DNS at its own pace and routes it           *)
(* (src/relay/domains.js); the box that holds the lease fetches the names  *)
(* it may serve and reports their certificates (src/supervisor.js).        *)
(***************************************************************************)
EXTENDS Integers, Sequences, FiniteSets

CONSTANTS
    Deps,       \* deployments; each has an owner of its own
    Demote,     \* DEMOTE_STRIKES
    Fail,       \* FAIL_STRIKES
    MaxRecs,    \* bound: attachments ever made
    MaxChecks,  \* bound: DNS checks under way at once
    MaxFaults   \* bound: DNS edits, failed lookups, lost answers, restarts

VARIABLES
    dns,      \* what the world publishes for the name: [txt: a token, to: a deployment]
    recs,     \* every record object ever made; its index is its token
    host,     \* byHost: index of the attached record, 0 when none
    disk,     \* domains.json: [host, recs] as last written
    checks,   \* checks whose verdict is not applied yet: [rec, v]
    ledger,   \* deployments on the ledger
    serves,   \* the box's _depDomains: deployments whose list has the name
    proven,   \* ghost: attachments some check saw the token and the routing of
    faults

vars == <<dns, recs, host, disk, checks, ledger, serves, proven, faults>>

Record(d) == [dep |-> d, status |-> "pending_dns", strikes |-> 0, missing |-> FALSE]

Init ==
    /\ dns = [txt |-> 0, to |-> 0]
    /\ recs = <<>> /\ host = 0
    /\ disk = [host |-> 0, recs |-> <<>>]
    /\ checks = {} /\ ledger = Deps /\ serves = {}
    /\ proven = {} /\ faults = MaxFaults

Fault == faults > 0 /\ faults' = faults - 1
World == <<dns, ledger>>

Live(r) == r.status \in {"verified", "active"}
Attached(d) == host # 0 /\ recs[host].dep = d

-----------------------------------------------------------------------------
(* The DNS check                                                             *)

\* txtMatches: one TXT record that is the token, exactly.
TxtMatches(n) == dns.txt = n
\* routingMatches: a CNAME to the target or to any name of the app zone, or an
\* address of the edge.
RoutingMatches == dns.to \in Deps
\* caaBlocks only warns; evaluate needs both.
Evaluate(n) == IF TxtMatches(n) /\ RoutingMatches THEN "ok" ELSE "no"

\* doh, edgeAddrs, targetAddrs: every resolver failed, or our own addresses are
\* unknown: no verdict.
Lookup(n) == {[v |-> Evaluate(n), cost |-> 0], [v |-> "indeterminate", cost |-> 1]}

\* checkRecord looks up what is published for the record it was given.
StartCheck(n) ==
    /\ Cardinality(checks) < MaxChecks
    /\ \E a \in Lookup(n) :
          /\ faults >= a.cost /\ faults' = faults - a.cost
          /\ checks' = checks \union {[rec |-> n, v |-> a.v]}
          /\ proven' = IF a.v = "ok" THEN proven \union {n} ELSE proven

Judged(r, v) ==
    LET strikes == IF r.strikes < Fail THEN r.strikes + 1 ELSE Fail   \* more make no difference
    IN  CASE v = "indeterminate" -> r
          [] v = "ok" -> [r EXCEPT !.strikes = 0,
                                   !.status = IF @ = "active" THEN @ ELSE "verified"]
          [] v = "no" -> [r EXCEPT !.strikes = strikes,
                                   !.status = IF Live(r) /\ strikes >= Demote THEN "pending_dns"
                                              ELSE IF ~Live(r) /\ strikes >= Fail THEN "failed" ELSE @]

\* Mutant: the verdict goes to whatever record has the name by then.
TargetByName(c) == IF host = 0 THEN c.rec ELSE host

\* The verdict goes to the record object the check was started for, attached or not.
Target(c) == c.rec

ApplyVerdict ==
    /\ \E c \in checks :
          /\ checks' = checks \ {c}
          /\ recs' = [recs EXCEPT ![Target(c)] = Judged(@, c.v)]
    /\ UNCHANGED <<World, host, disk, serves, proven, faults>>

\* startDomainSweep: a due record that is attached is checked.
Sweep ==
    /\ host # 0 /\ StartCheck(host)
    /\ UNCHANGED <<World, recs, host, disk, serves>>

\* The hourly sweep: off the ledger for a week, and the record is purged; an
\* empty read of the ledger is no read.
Purge ==
    /\ host # 0 /\ ledger # {}
    /\ LET gone == recs[host].dep \notin ledger
       IN  /\ gone # recs[host].missing \/ gone
           /\ recs' = [recs EXCEPT ![host].missing = gone]
           /\ host' = IF gone /\ recs[host].missing THEN 0 ELSE host
    /\ UNCHANGED <<World, disk, checks, serves, proven, faults>>

\* saveSoon's timer.
Saved == [host |-> host, recs |-> recs]
Save ==
    /\ disk # Saved /\ disk' = Saved
    /\ UNCHANGED <<World, recs, host, checks, serves, proven, faults>>

\* initDomains: the records of the file, no checks under way.
Restart ==
    /\ Fault
    /\ host' = disk.host
    /\ recs' = [n \in DOMAIN recs |-> IF n \in DOMAIN disk.recs THEN disk.recs[n] ELSE recs[n]]
    /\ checks' = {}
    /\ UNCHANGED <<World, disk, serves, proven>>

-----------------------------------------------------------------------------
(* The owner's requests                                                      *)

\* checkHostname: what normalizeHostname accepts and no platform zone contains.
Spellings == {"name", "Name.", "under-our-zone", "an-address"}
CheckHostname(s) == s \in {"name", "Name."}

\* ownerGate: signed within minutes by the owner of a row of the ledger and not
\* seen before; the owner can always sign another.
OwnerGate(d) == d \in ledger
Admitted(d) == OwnerGate(d) /\ \E s \in Spellings : CheckHostname(s)

\* A fresh record with a fresh token, on disk before its first check; a name is
\* refused while it is attached anywhere.
Add(d) ==
    /\ Admitted(d) /\ host = 0 /\ Len(recs) < MaxRecs
    /\ recs' = Append(recs, Record(d)) /\ host' = Len(recs')
    /\ disk' = [host |-> host', recs |-> recs']
    /\ StartCheck(host')
    /\ UNCHANGED <<World, serves>>

\* A failed record gets another life, and every verify a check of its own.
Verify(d) ==
    /\ Admitted(d) /\ Attached(d)
    /\ recs' = [recs EXCEPT ![host] = IF @.status = "failed"
                                      THEN [@ EXCEPT !.status = "pending_dns", !.strikes = 0] ELSE @]
    /\ StartCheck(host)
    /\ UNCHANGED <<World, host, disk, serves>>

Delete(d) ==
    /\ Admitted(d) /\ Attached(d)
    /\ host' = 0 /\ disk' = [host |-> 0, recs |-> recs]
    /\ UNCHANGED <<World, recs, checks, serves, proven, faults>>

-----------------------------------------------------------------------------
(* The box that holds the lease                                              *)

DomainMap(d) == Attached(d) /\ Live(recs[host])

\* handleFetch: what the box reports settles verified <-> active, for its own
\* deployment's names only.
Reported(r, cert) ==
    CASE cert = "ok" /\ r.status = "verified" -> [r EXCEPT !.status = "active"]
      [] cert = "bad" /\ r.status = "active" -> [r EXCEPT !.status = "verified"]
      [] OTHER -> r

\* fetchDepDomains: the names in hostsFor are reported with their certificates'
\* fate; a lost answer keeps the last known list.
Fetch(d) ==
    /\ d \in ledger
    /\ \E cert \in IF d \in serves THEN {"none", "ok", "bad"} ELSE {"none"} :
          recs' = IF Attached(d) THEN [recs EXCEPT ![host] = Reported(@, cert)] ELSE recs
    /\ \/ serves' = (IF DomainMap(d) THEN {d} ELSE {}) \union (serves \ {d}) /\ faults' = faults
       \/ Fault /\ serves' = serves
    /\ UNCHANGED <<World, host, disk, checks, proven>>

\* refreshCustomDomains forgets deployments that no longer run here.
Forget(d) ==
    /\ d \in serves /\ serves' = serves \ {d}
    /\ UNCHANGED <<World, recs, host, disk, checks, proven, faults>>

-----------------------------------------------------------------------------
(* The world                                                                 *)

PublishDns ==
    /\ Fault
    /\ dns' \in [txt : {0} \union DOMAIN recs, to : Deps \union {0}] /\ dns' # dns
    /\ UNCHANGED <<ledger, recs, host, disk, checks, serves, proven>>

Pruned ==
    /\ Fault
    /\ \E d \in ledger : ledger' = ledger \ {d}
    /\ UNCHANGED <<dns, recs, host, disk, checks, serves, proven>>

Next ==
    \/ Sweep \/ ApplyVerdict \/ Purge \/ Save \/ Restart \/ PublishDns \/ Pruned
    \/ \E d \in Deps : Add(d) \/ Verify(d) \/ Delete(d) \/ Fetch(d) \/ Forget(d)

Spec == Init /\ [][Next]_vars

-----------------------------------------------------------------------------
\* A name is routed to a deployment only if some check since it was attached
\* there saw that attachment's own token and the routing in DNS: no slow
\* verdict of an earlier attachment, no box's report, no restart
\* and no late request serves a name its present owner never proved (domainMap, applyVerdict).
ServedOnlyProven ==
    host # 0 /\ Live(recs[host]) => host \in proven
===============================================================================
