------------------------------ MODULE FrontDoor ------------------------------
(***************************************************************************)
(* The serving box's front door (src/supervisor.js): sign-in, session and  *)
(* app tokens, the protection rules of a deployment, the proxy under /x,   *)
(* the raw TCP, UDP and TLS bridges, and the owner's calls that stop or    *)
(* restart an instance.  Every handler awaits (a signature, the manager)   *)
(* between its checks and the connection, while apps crash, records are    *)
(* replaced or change hands and loopback ports are used again.             *)
(***************************************************************************)
EXTENDS Integers, FiniteSets

CONSTANTS
    Deps,       \* deployments
    Private,    \* those only their owner may open
    Who,        \* wallets
    Ports,      \* loopback ports the manager hands out
    Slots,      \* requests at a time
    MaxInst,    \* bound: instances ever launched
    MaxToks,    \* bound: tokens and nonces
    MaxFaults   \* bound: crashes, restarts, transfers, edits

VARIABLES
    rec,     \* [Deps -> [gen, owner, status, vm, job]]: the record the box holds
    inst,    \* [1 .. MaxInst -> [dep, port, up]]: what the manager runs
    key,     \* which session key this boot signs with
    toks,    \* tokens out there: [aud, sub, key], aud 0 a session
    nonces,  \* [1 .. MaxToks -> [addr, live, logins]]: sign-in nonces, logins awaiting theirs
    req,     \* [Slots -> ...]: requests in flight
    waf,     \* [Deps -> most requests at a time, 0 no rule]
    count,   \* [Deps -> requests the rule counts]
    faults

vars == <<rec, inst, key, toks, nonces, req, waf, count, faults>>

Idle == [st |-> "idle", kind |-> "http", dep |-> 0, gen |-> 0, tok |-> [aud |-> 0, sub |-> 0, key |-> 0],
         port |-> 0, hit |-> 0, counted |-> FALSE]
Unborn == [dep |-> 0, port |-> 0, up |-> FALSE]
NoRec == [gen |-> 0, owner |-> 0, status |-> "none", vm |-> 0, job |-> {}]

Init ==
    /\ rec = [d \in Deps |-> [NoRec EXCEPT !.owner = d]]
    /\ inst = [i \in 1 .. MaxInst |-> Unborn] /\ key = 1
    /\ toks = {} /\ nonces = [n \in 1 .. MaxToks |-> [addr |-> 0, live |-> FALSE, logins |-> 0]]
    /\ req = [s \in Slots |-> Idle] /\ waf = [d \in Deps |-> 1]
    /\ count = [d \in Deps |-> 0] /\ faults = MaxFaults

Fault == faults > 0 /\ faults' = faults - 1
\* A slot is a name for a request: the first free one is taken.
Vacant(s) == req[s].st = "idle" /\ \A q \in Slots : q < s => req[q].st # "idle"
Life == <<rec, inst>>
Keys == <<key, toks, nonces>>
Rules == <<waf, count>>

-----------------------------------------------------------------------------
(* Tokens                                                                    *)

\* Mutant: any token this key signed opens an app.
VerifyAny(t, aud) == t.key = key
\* verifySessionToken, verifyAppToken: this boot's key, and made for this use.
Verify(t, aud) == t.key = key /\ t.aud = aud

\* appSessionRoute: the cookie of an app is an app token that verifies.
Cookie(t, d) == Verify(t, d)

\* addrForApp: a session in the header, else the app's own cookie.
OpensApp(t, d) == Verify(t, 0) \/ Cookie(t, d)

\* mintSession, mintAppToken.
Mint(aud, sub) == toks' = toks \union {[aud |-> aud, sub |-> sub, key |-> key]}

IssueNonce(n, w) ==
    /\ nonces[n].addr = 0
    /\ nonces' = [nonces EXCEPT ![n] = [@ EXCEPT !.addr = w, !.live = TRUE]]
    /\ UNCHANGED <<Life, key, toks, req, Rules, faults>>

\* POST login: the nonce is looked up, the signature is awaited, then it is spent.
Login(n) ==
    /\ nonces[n].live /\ nonces[n].logins = 0    \* bound: one login at a time
    /\ nonces' = [nonces EXCEPT ![n].logins = @ + 1]
    /\ UNCHANGED <<Life, key, toks, req, Rules, faults>>
LoggedIn(n) ==
    /\ nonces[n].logins > 0
    /\ nonces' = [nonces EXCEPT ![n].live = FALSE, ![n].logins = @ - 1]
    /\ Mint(0, nonces[n].addr)
    /\ UNCHANGED <<Life, key, req, Rules, faults>>

\* authed and the owner check of every call under /v1/deployments/:id.
Owns(t, d) == t \in toks /\ Verify(t, 0) /\ rec[d].status # "none" /\ rec[d].owner = t.sub

AppToken(t, d) ==
    /\ Owns(t, d) /\ d \in Private /\ Mint(d, t.sub)
    /\ UNCHANGED <<Life, key, nonces, req, Rules, faults>>

-----------------------------------------------------------------------------
(* A request                                                                 *)

\* The record a request looked up may have been replaced by the time it goes on.
Still(r) == rec[r.dep].gen = r.gen

\* tenantAgent: whoever listens on the port now.
Listener(p) == {i \in DOMAIN inst : inst[i].up /\ inst[i].port = p}
Open(s, r, p) ==
    req' = [req EXCEPT ![s] = [Idle EXCEPT !.st = "open", !.kind = r.kind, !.dep = r.dep, !.counted = r.counted,
                                           !.port = p]]

\* wafGate: refused or counted until the response closes. What only looks at the
\* request (method, path, agent, body, bucket) refuses or not.
WafGate(d) == waf[d] = 0 \/ count[d] < waf[d]
Counted(d) == waf[d] > 0
Count(d) == count' = [count EXCEPT ![d] = @ + IF Counted(d) THEN 1 ELSE 0]

\* A fresh request for a deployment.
Fresh(kind, d, t, counted) ==
    [Idle EXCEPT !.kind = kind, !.dep = d, !.gen = rec[d].gen, !.tok = t, !.st = "auth",
                 !.counted = counted, !.port = IF rec[d].vm = 0 THEN 0 ELSE inst[rec[d].vm].port]

\* app.use("/x/:id"), and the same behind a TLS bridge, where a custom domain of
\* another deployment in the Host header is misdirected.
Arrive(s, d, host, t) ==
    /\ Vacant(s) /\ rec[d].status # "none" /\ host \in {0, d} /\ WafGate(d)
    /\ Count(d)
    /\ req' = [req EXCEPT ![s] = Fresh("http", d, t, Counted(d))]
    /\ UNCHANGED <<Life, Keys, waf, faults>>

\* res close: the count of this request is given back.
Uncount(r) == count' = [count EXCEPT ![r.dep] = @ - IF r.counted THEN 1 ELSE 0]

\* Mutant: where it pointed when the request came, running or not.
TargetThen(r) == r.port
\* The record is read again after the token was verified.
Target(r) == IF Still(r) /\ rec[r.dep].status = "running" /\ rec[r.dep].vm # 0
             THEN inst[rec[r.dep].vm].port ELSE 0

\* The verdict, after the await: 401, 403, 409, or the proxy.
Admitted(r) == r.dep \notin Private \/ (r.tok \in toks /\ OpensApp(r.tok, r.dep)
                                         /\ Still(r) /\ rec[r.dep].owner = r.tok.sub)
Proxy(s) ==
    /\ req[s].st = "auth" /\ req[s].kind = "http"
    /\ IF Admitted(req[s]) /\ Target(req[s]) # 0
       THEN Open(s, req[s], Target(req[s])) /\ UNCHANGED count
       ELSE req' = [req EXCEPT ![s] = Idle] /\ Uncount(req[s])
    /\ UNCHANGED <<Life, Keys, waf, faults>>

Close(s) ==
    /\ req[s].st = "open" /\ req' = [req EXCEPT ![s] = Idle]
    /\ IF req[s].kind = "http" THEN Uncount(req[s]) ELSE UNCHANGED count
    /\ UNCHANGED <<Life, Keys, waf, faults>>

-----------------------------------------------------------------------------
(* The bridges                                                               *)

\* server upgrade: /x/:id/tcp, tls or udp. No protection rules here, and no cookie.
Upgrade(s, d, t) ==
    /\ Vacant(s) /\ rec[d].status # "none"
    /\ \A q \in Slots : req[q].kind # "bridge"    \* bound: a bridge at a time
    /\ req' = [req EXCEPT ![s] = Fresh("bridge", d, t, FALSE)]
    /\ UNCHANGED <<Life, Keys, Rules, faults>>

\* authUpgrade done: the session's owner, a running record; the manager is asked.
BridgeAdmits(r) == /\ r.dep \notin Private \/ (r.tok \in toks /\ Verify(r.tok, 0)
                                                /\ Still(r) /\ rec[r.dep].owner = r.tok.sub)
                   /\ Still(r) /\ rec[r.dep].status = "running" /\ rec[r.dep].vm # 0
Ask(s) ==
    /\ req[s].st = "auth" /\ req[s].kind = "bridge"
    /\ LET r == req[s]
       IN  req' = [req EXCEPT ![s] = IF BridgeAdmits(r)
                     THEN [r EXCEPT !.st = "ask", !.hit = rec[r.dep].vm, !.port = inst[rec[r.dep].vm].port]
                     ELSE Idle]
    /\ UNCHANGED <<Life, Keys, Rules, faults>>

\* The manager's answer: this app has bound the port. Then the port is dialled.
Bound(s) ==
    /\ req[s].st = "ask"
    /\ req' = [req EXCEPT ![s] = IF inst[req[s].hit].up THEN [@ EXCEPT !.st = "dial"] ELSE Idle]
    /\ UNCHANGED <<Life, Keys, Rules, faults>>
Dial(s) == req[s].st = "dial" /\ Open(s, req[s], req[s].port) /\ UNCHANGED <<Life, Keys, Rules, faults>>

-----------------------------------------------------------------------------
(* Instances                                                                 *)

Born == {i \in DOMAIN inst : inst[i].dep # 0}
Launched(d, p) ==
    /\ Listener(p) = {} /\ Cardinality(Born) < MaxInst
    /\ inst' = [inst EXCEPT ![Cardinality(Born) + 1] = [dep |-> d, port |-> p, up |-> TRUE]]

\* A claim: a record of its own, in place of one that ended.
Adopt(d, p) ==
    /\ rec[d].status \in {"none", "ended"} /\ rec[d].job = {} /\ Launched(d, p)
    /\ rec' = [rec EXCEPT ![d] = [@ EXCEPT !.gen = @ + 1, !.status = "running", !.vm = Cardinality(Born) + 1]]
    /\ UNCHANGED <<Keys, req, Rules, faults>>

Down(i) == inst' = IF i = 0 THEN inst ELSE [inst EXCEPT ![i].up = FALSE]

Crash(d) ==
    /\ Fault /\ rec[d].vm # 0 /\ inst[rec[d].vm].up /\ Down(rec[d].vm)
    /\ UNCHANGED <<rec, Keys, req, Rules>>
Dead(d) == rec[d].status = "running" /\ rec[d].vm # 0 /\ ~inst[rec[d].vm].up /\ rec[d].job = {}
\* auditClaims finds it dead: relaunched as by a restart, or given back for good.
Noticed(d) ==
    /\ Dead(d)
    /\ rec' \in {[rec EXCEPT ![d].status = "ended"],
                 [rec EXCEPT ![d].status = "claimed", ![d].job = {"restart"}]}
    /\ UNCHANGED <<inst, Keys, req, Rules, faults>>
\* respawnTenant: the record runs all the while.
Respawned(d, p) ==
    /\ Dead(d) /\ Launched(d, p)
    /\ rec' = [rec EXCEPT ![d].vm = Cardinality(Born) + 1]
    /\ UNCHANGED <<Keys, req, Rules, faults>>

\* DELETE: the manager stops it first, the record says so only after its answer.
Delete(t, d) ==
    /\ Owns(t, d) /\ "delete" \notin rec[d].job /\ rec[d].status \in {"running", "claimed"}
    /\ Down(rec[d].vm) /\ rec' = [rec EXCEPT ![d].job = @ \union {"delete"}]
    /\ UNCHANGED <<Keys, req, Rules, faults>>
Deleted(d) ==
    /\ "delete" \in rec[d].job
    /\ rec' = [rec EXCEPT ![d].status = "ended", ![d].job = @ \ {"delete"}]
    /\ UNCHANGED <<inst, Keys, req, Rules, faults>>

\* POST restart: stopped, then launched again as the same record.
Restart(t, d) ==
    /\ Owns(t, d) /\ "restart" \notin rec[d].job /\ rec[d].status = "running"
    /\ Down(rec[d].vm) /\ rec' = [rec EXCEPT ![d].job = @ \union {"restart"}]
    /\ UNCHANGED <<Keys, req, Rules, faults>>
Stopped(d) ==
    /\ "restart" \in rec[d].job /\ rec[d].status # "claimed"
    /\ rec' = [rec EXCEPT ![d].status = "claimed"]
    /\ UNCHANGED <<inst, Keys, req, Rules, faults>>
Restarted(d, p, ok) ==
    /\ "restart" \in rec[d].job /\ rec[d].status = "claimed"
    /\ IF ok THEN Launched(d, p) ELSE Fault /\ UNCHANGED inst
    /\ rec' = [rec EXCEPT ![d].job = @ \ {"restart"}, ![d].status = IF ok THEN "running" ELSE "ended",
                          ![d].vm = IF ok THEN Cardinality(Born) + 1 ELSE @]
    /\ UNCHANGED <<Keys, req, Rules>> /\ (ok => UNCHANGED faults)

\* The audit mirrors a transfer; applyEnvelopeEdit swaps the rules in place.
Transferred(d, w) ==
    /\ Fault /\ rec[d].owner # w /\ rec' = [rec EXCEPT ![d].owner = w]
    /\ UNCHANGED <<inst, Keys, req, Rules>>
EditRules(d) ==
    /\ Fault /\ waf' = [waf EXCEPT ![d] = 1 - @] /\ UNCHANGED <<Life, Keys, req, count>>

\* The container restarts: nonces, counts and connections go, the session key is
\* read back and records are loaded, those in mid-launch as ended. A relaunched
\* machine has a key of its own.
Reboot(relaunched) ==
    /\ Fault
    /\ key' = IF relaunched THEN key + 1 ELSE key
    /\ nonces' = [n \in DOMAIN nonces |-> [nonces[n] EXCEPT !.live = FALSE, !.logins = 0]]
    /\ req' = [s \in Slots |-> Idle] /\ count' = [d \in Deps |-> 0]
    /\ rec' = [d \in Deps |-> IF relaunched THEN [NoRec EXCEPT !.owner = rec[d].owner, !.gen = rec[d].gen]
                              ELSE [rec[d] EXCEPT !.job = {}, !.status = IF @ = "claimed" THEN "ended" ELSE @]]
    /\ inst' = [i \in DOMAIN inst |-> [inst[i] EXCEPT !.up = FALSE]]
    /\ UNCHANGED <<toks, waf>>

Some == toks \union {[aud |-> 0, sub |-> 0, key |-> 0]}
Next ==
    \/ \E n \in DOMAIN nonces : Login(n) \/ LoggedIn(n) \/ \E w \in Who : IssueNonce(n, w)
    \/ \E d \in Deps, t \in toks : AppToken(t, d) \/ Delete(t, d) \/ Restart(t, d)
    \/ \E s \in Slots : Proxy(s) \/ Close(s) \/ Ask(s) \/ Bound(s) \/ Dial(s)
    \/ \E s \in Slots, d \in Deps, t \in Some :
       /\ d \in Private \/ t.sub = 0
       /\ Upgrade(s, d, t) \/ \E host \in Deps \union {0} : Arrive(s, d, host, t)
    \/ \E d \in Deps, p \in Ports : Adopt(d, p) \/ Respawned(d, p) \/ \E ok \in BOOLEAN : Restarted(d, p, ok)
    \/ \E d \in Deps : Crash(d) \/ Noticed(d) \/ Deleted(d) \/ Stopped(d) \/ EditRules(d)
    \/ \E d \in Deps, w \in Who \union {0} : Transferred(d, w)
    \/ \E relaunched \in BOOLEAN : Reboot(relaunched)

Spec == Init /\ [][Next]_vars

-----------------------------------------------------------------------------
Opens(s) == req[s].st \notin {"open", "idle"} /\ req'[s].st = "open"
Busy(d) == {s \in Slots : req[s].dep = d /\ req[s].counted}

\* The verdict on a request: an http one opens at once, a bridge asks the manager first.
Passes(s) == IF req[s].kind = "http" THEN Opens(s) ELSE req[s].st = "auth" /\ req'[s].st = "ask"
\* The instance a request is meant for: that of the record, or the one the manager saw.
Meant(r) == IF r.kind = "http" THEN rec[r.dep].vm ELSE r.hit

\* A connection opened under a deployment's name goes to the port of that deployment's
\* own instance, over http of a record that is running and still in place: whatever
\* the handler looked up before its awaits. Should that instance have died unheard,
\* whoever has its port by then answers. A private app passes its owner of the moment
\* only, over http and over the bridges, with a token of this key and made for it; and
\* the rule on concurrent requests counts exactly those in flight (app.use("/x/:id"),
\* server upgrade, authUpgrade, wafGate).
OwnersOnly ==
    /\ \A s \in Slots : Opens(s) =>
          LET r == req[s]
              i == Meant(r)
          IN  /\ inst[i].dep = r.dep /\ inst[i].port = req'[s].port
              /\ inst[i].up => Listener(req'[s].port) = {i}
              /\ r.kind = "http" => Still(r) /\ rec[r.dep].status = "running"
    /\ \A s \in Slots : Passes(s) /\ req[s].dep \in Private =>
          LET t == req[s].tok
          IN  /\ t.sub = rec[req[s].dep].owner /\ t.key = key
              /\ t.aud \in IF req[s].kind = "http" THEN {0, req[s].dep} ELSE {0}
    /\ \A d \in Deps : count[d] = Cardinality(Busy(d))
===============================================================================
