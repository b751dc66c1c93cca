-------------------------------- MODULE Tunnel --------------------------------
(***************************************************************************)
(* The fleet tunnel, for one name: boxes and relays with no address dial   *)
(* the hub, prove who they are by token, by the operator's key or by       *)
(* attestation, and calls for the name ride the connection it resolves to  *)
(* (src/relay/tunnel.js, relay-agent.mjs, snp-verify.mjs, avf-verify.mjs). *)
(* AMD's key server stands for one product line.  The switch that lets a   *)
(* phone attach unattested is for development and is off.                  *)
(***************************************************************************)
EXTENDS Integers, Sequences, FiniteSets

CONSTANTS
    Boxes,      \* enclaves, each with a transport key and an operator of its own
    Trusted,    \* TRUSTED_OPERATORS, by box
    Minted,     \* the name is a minted label of the box zone
    RequireVcek,\* METAL_REQUIRE_VCEK
    MaxConns,   \* bound: connections ever dialled
    MaxFaults   \* bound: drops, stalls, timeouts, failed reads, registry changes

VARIABLES
    conns,     \* every connection dialled, oldest first
    held,      \* tunnels.get(name): index of a connection, 0 when none
    bound,     \* ghost: connections in the order they were bound
    reserved,  \* allowByName.has(name)
    row,       \* the registry's row for the name: [op, active]
    cached,    \* ownerCache
    chain,     \* _chainCache: the root of the cached chain, or "none"
    faults

vars == <<conns, held, bound, reserved, row, cached, chain, faults>>

\* Whose an inactive row was is nobody's business.
Rows == {[op |-> 0, active |-> FALSE]} \union [op : Boxes, active : {TRUE}]
NoProof == [kind |-> "none"]

\* sock: "open", "dead" (the far end is gone, the hub cannot tell), "closing"
\* (terminated or dropped, "close" not handled yet), "closed".
\* at: where the attach handler waits. call: a request that waits, or a stream.
\* maker (ghost): whose hardware the machine was taken to be.
Conn(via, who) == [via |-> via, who |-> who, at |-> "challenge", settled |-> "no", saw |-> 0,
                   proof |-> NoProof, maker |-> "none", sock |-> "open", call |-> "none",
                   url |-> "none"]

Init ==
    /\ conns = <<>> /\ held = 0 /\ bound = <<>> /\ chain = "none"
    /\ reserved \in BOOLEAN /\ row \in Rows /\ cached \in {0, IF row.active THEN row.op ELSE 0}
    /\ faults = MaxFaults

Fault == faults > 0 /\ faults' = faults - 1
Registry == <<reserved, row, cached>>

-----------------------------------------------------------------------------
(* Evidence                                                                  *)

\* A report: "image" is what was measured, "data" what report_data names, "vcek"
\* whether the box brought its certificate, "key" who made the key that signed it.
Report == [kind |-> "snp", whole |-> TRUE, version |-> 2, vmpl |-> 0, debug |-> FALSE,
           migrate |-> FALSE, image |-> "released", data |-> "ours", vcek |-> "aux",
           signed |-> TRUE, key |-> "amd"]
\* A phone's chain: "links" says how its certificates fit together and "apks" which
\* packages the machine holds (the anchor, another of ours, a stranger's).
Phone == [kind |-> "avf", links |-> "line", root |-> "google", dates |-> "now", cas |-> TRUE,
          ext |-> TRUE, data |-> "ours", secure |-> TRUE, apks |-> {"anchor", "ours"}, signed |-> TRUE]
\* What a connecting machine presents: all in order, or with one thing wrong.
Presented ==
    {Report, [Report EXCEPT !.vcek = "none"], [Report EXCEPT !.whole = FALSE],
     [Report EXCEPT !.version = 1], [Report EXCEPT !.vmpl = 1], [Report EXCEPT !.debug = TRUE],
     [Report EXCEPT !.migrate = TRUE], [Report EXCEPT !.image = "other"], [Report EXCEPT !.data = "old"],
     [Report EXCEPT !.signed = FALSE], [Report EXCEPT !.key = "made up"],
     Phone, [Phone EXCEPT !.links = "broken"], [Phone EXCEPT !.root = "other"], [Phone EXCEPT !.dates = "past"],
     [Phone EXCEPT !.cas = FALSE], [Phone EXCEPT !.ext = FALSE], [Phone EXCEPT !.data = "old"],
     [Phone EXCEPT !.secure = FALSE], [Phone EXCEPT !.apks = {"ours"}],
     [Phone EXCEPT !.apks = {"anchor", "stranger"}], [Phone EXCEPT !.signed = FALSE]}

\* verifyQuote before it asks AMD: a whole report of a guest its host can neither read
\* nor move, of a released image, that names this connection's key and challenge.
ParseSnpReport(e) == e.whole
Reported(e) == /\ ParseSnpReport(e) /\ e.version >= 2 /\ e.vmpl = 0 /\ ~e.debug /\ ~e.migrate
               /\ e.image = "released" /\ e.data = "ours"

\* isPinnedArk: the root in this repository is AMD's.
IsPinnedArk(root) == root = "amd"
\* certChain: the cached chain, or the served one, which is cached if its root is pinned.
CertChain(served) ==
    IF chain # "none" THEN [root |-> chain, keep |-> chain]
    ELSE IF IsPinnedArk(served) THEN [root |-> served, keep |-> served]
    ELSE [root |-> "none", keep |-> "none"]

\* The VCEK the box brought, else the key server's, if it answers for the chip.
Vcek(e, answers) == e.vcek = "aux" \/ answers
\* The rest of verifyQuote: the VCEK signed the report and chains to the root. Without
\* a VCEK the quote stands on its measurement alone, where that is allowed.
VerifyQuote(e, answers, root) ==
    /\ Reported(e)
    /\ IF Vcek(e, answers) THEN e.signed /\ root = e.key ELSE ~RequireVcek
AsksAmd(e, answers) == Reported(e) /\ Vcek(e, answers) /\ e.signed

\* orderChain, isPinnedGoogleRoot, every link; parseAvfExtension; then our challenge,
\* a machine in normal mode, packages all signed by us and the anchor among them, and
\* the attested key's signature.
OrderChain(e) == e.links = "line"
Linked(e) == OrderChain(e) /\ e.root = "google" /\ e.dates = "now" /\ e.cas
ParseAvfExtension(e) == e.ext
VerifyAvfEvidence(e) ==
    /\ Linked(e) /\ ParseAvfExtension(e) /\ e.data = "ours" /\ e.secure
    /\ e.apks # {} /\ "stranger" \notin e.apks /\ "anchor" \in e.apks /\ e.signed

\* tunnelNameOwner: an inactive row owns nothing.
TunnelNameOwner == IF row.active THEN row.op ELSE 0
\* ownerOf: what the registry answers; when it cannot be read, the last known owner.
OwnerReads == {[o |-> TunnelNameOwner, cache |-> TunnelNameOwner, cost |-> 0],
               [o |-> cached, cache |-> cached, cost |-> 1]}

-----------------------------------------------------------------------------
(* Attaching                                                                 *)

Set(n, c) == [conns EXCEPT ![n] = c]

\* bind: a socket no longer open is not bound; the newest wins.
Bind(n, c) ==
    IF c.sock \in {"open", "dead"}
    THEN /\ conns' = [m \in DOMAIN conns \union {n} |->
                        IF m = n THEN [c EXCEPT !.at = "bound"]
                        ELSE IF m = held /\ conns[m].sock \in {"open", "dead"}
                        THEN [conns[m] EXCEPT !.sock = "closing"] ELSE conns[m]]
         /\ held' = n /\ bound' = Append(bound, n)
    ELSE /\ conns' = [m \in DOMAIN conns \union {n} |-> IF m = n THEN [c EXCEPT !.at = "idle"] ELSE conns[m]]
         /\ UNCHANGED <<held, bound>>

\* deny: once, and never after an accept.
Denied(c) == [c EXCEPT !.at = "idle", !.saw = 0, !.proof = NoProof, !.maker = "none", !.settled = IF @ = "no" THEN "denied" ELSE @]
Deny(n) == conns' = Set(n, Denied(conns[n])) /\ UNCHANGED <<held, bound>>
\* A timeout that fired meanwhile is not taken back.
Accept(n) == Bind(n, [conns[n] EXCEPT !.saw = 0, !.settled = IF @ = "no" THEN "accepted" ELSE @])

\* handleUpgrade: a reserved name takes its token and nothing else; the others
\* are sent a challenge.
Dial(via, who) ==
    /\ Len(conns) < MaxConns
    /\ (via = "token") = reserved
    /\ IF via = "token" THEN Bind(Len(conns) + 1, Conn(via, who))
       ELSE conns' = Append(conns, Conn(via, who)) /\ UNCHANGED <<held, bound>>
    /\ UNCHANGED <<Registry, chain, faults>>

Challenged(n, via) == conns[n].via = via /\ conns[n].at = "challenge" /\ conns[n].settled = "no"
                      /\ conns[n].sock = "open"

\* signAttach: the agent signs the challenge, and the handler asks the registry.
Attach(n) ==
    /\ Challenged(n, "operator") /\ conns' = Set(n, [conns[n] EXCEPT !.at = "owner"])
    /\ UNCHANGED <<held, bound, Registry, chain, faults>>

\* The evidence stands: the registry is asked next.
Proven(c, e) == [c EXCEPT !.at = "owner", !.proof = NoProof,
                          !.maker = IF e.kind = "snp" THEN e.key ELSE e.root]

\* An enclave answers with evidence: a phone's is judged at once, a quote waits for
\* AMD's key server. One at a time.
Attest(n) ==
    /\ Challenged(n, "attest")
    /\ \E e \in Presented :
          IF e.kind = "avf" /\ ~VerifyAvfEvidence(e) THEN Deny(n)
          ELSE /\ conns' = Set(n, IF e.kind = "avf" THEN Proven(conns[n], e)
                                    ELSE [conns[n] EXCEPT !.at = "verify", !.proof = e])
               /\ UNCHANGED <<held, bound>>
    /\ UNCHANGED <<Registry, chain, faults>>

\* The quote is judged: the key server answers for the chip or not, and serves AMD's
\* chain, another, or none. A timeout that fired meanwhile ends it here.
Verified(n) ==
    /\ conns[n].at = "verify"
    /\ \E answers \in BOOLEAN, served \in {"amd", "made up", "none"} :
          LET e == conns[n].proof
              c == CertChain(served)
          IN  /\ IF answers /\ served = "amd" THEN UNCHANGED faults ELSE Fault
              /\ chain' = IF AsksAmd(e, answers) THEN c.keep ELSE chain
              /\ IF conns[n].settled # "no" \/ ~VerifyQuote(e, answers, c.root) THEN Deny(n)
                 ELSE conns' = Set(n, Proven(conns[n], e)) /\ UNCHANGED <<held, bound>>
    /\ UNCHANGED Registry

\* A name held by an attached enclave goes only to the same transport key.
HeldByAnother(c) == held # 0 /\ (conns[held].via # "attest" \/ conns[held].who # c.who)

\* The registry's answer. An unregistered name is refused to an operator and
\* open to an enclave; on that path nothing looks at a timeout that fired meanwhile.
OwnerKnown(n) ==
    /\ conns[n].at = "owner"
    /\ \E r \in OwnerReads :
          /\ faults >= r.cost /\ faults' = faults - r.cost /\ cached' = r.cache
          /\ IF conns[n].via = "attest" /\ r.o = 0
             THEN IF HeldByAnother(conns[n]) THEN Deny(n) ELSE Accept(n)
             ELSE IF conns[n].via = "operator" /\ (conns[n].settled # "no" \/ r.o = 0) THEN Deny(n)
             ELSE conns' = Set(n, [conns[n] EXCEPT !.at = "signer", !.saw = r.o]) /\ UNCHANGED <<held, bound>>
    /\ UNCHANGED <<reserved, row, chain>>

\* signerOf: the connection's own operator, or no valid signature at all.
SignerOf(n) ==
    /\ conns[n].at = "signer"
    /\ \E signer \in {0, conns[n].who} :
          IF \/ conns[n].settled # "no" \/ signer # conns[n].saw
             \/ conns[n].via = "operator" /\ conns[n].saw \notin Trusted
             \/ conns[n].via = "attest" /\ HeldByAnother(conns[n])
          THEN Deny(n) ELSE Accept(n)
    /\ UNCHANGED <<Registry, chain, faults>>

\* The 15 s timer of a stalled attach.
AttachTimeout(n) ==
    /\ Fault
    /\ conns[n].at \in {"challenge", "verify", "owner", "signer"} /\ conns[n].settled = "no"
    /\ conns' = Set(n, [conns[n] EXCEPT !.settled = "denied",
                                        !.at = IF @ = "challenge" THEN "idle" ELSE @])
    /\ UNCHANGED <<held, bound, Registry, chain>>

\* Denied: the socket is closed a moment later, bound in between or not.
CloseDenied(n) ==
    /\ conns[n].settled = "denied" /\ conns[n].sock \in {"open", "dead"}
    /\ conns' = Set(n, [conns[n] EXCEPT !.sock = "closing"])
    /\ UNCHANGED <<held, bound, Registry, chain, faults>>

\* selfRoutedUrl: of a publicUrl, the box's own origin, or the path of this name on
\* any host, over https and with nothing after it.
Urls == [https : BOOLEAN, host : {"box", "relay"}, path : {"", "own", "other"}, tail : BOOLEAN]
SelfRoutedUrl(u) ==
    IF ~u.https \/ u.tail THEN "none"
    ELSE IF Minted /\ u.path = "" /\ u.host = "box" THEN "origin"
    ELSE IF u.path = "own" THEN "route" ELSE "none"
Hello(n) ==
    /\ conns[n].at = "bound" /\ conns[n].sock = "open"
    /\ \E url \in {SelfRoutedUrl(u) : u \in Urls} \ {conns[n].url} :
          conns' = Set(n, [conns[n] EXCEPT !.url = url])
    /\ UNCHANGED <<held, bound, Registry, chain, faults>>

-----------------------------------------------------------------------------
(* Calls                                                                     *)

\* send, spliceUpgrade: a call rides the connection the name resolves to now; the
\* calls on one connection are alike, and one stands for them.
Ride(as) ==
    /\ held # 0 /\ conns[held].call = "none"
    /\ conns' = Set(held, [conns[held] EXCEPT !.call = as])
    /\ UNCHANGED <<held, bound, Registry, chain, faults>>
Send == Ride("request")
SpliceUpgrade == Ride("opening")

\* The agent answers, or the request's timer fires.
Settle(n) ==
    /\ conns[n].call = "request" /\ conns' = Set(n, [conns[n] EXCEPT !.call = "none"])
    /\ IF conns[n].sock = "open" THEN faults' = faults ELSE Fault
    /\ UNCHANGED <<held, bound, Registry, chain>>

\* A box opens the stream, a relay's agent refuses every one; it ends by either side,
\* the open or the idle timer, or a client too slow for it.
Opened(n) ==
    /\ conns[n].call = "opening" /\ conns[n].sock = "open" /\ conns[n].via # "operator"
    /\ conns' = Set(n, [conns[n] EXCEPT !.call = "open"])
    /\ UNCHANGED <<held, bound, Registry, chain, faults>>
Finish(n) ==
    /\ conns[n].call \in {"opening", "open"} /\ conns' = Set(n, [conns[n] EXCEPT !.call = "none"])
    /\ UNCHANGED <<held, bound, Registry, chain, faults>>

-----------------------------------------------------------------------------
(* Losing connections                                                        *)

\* Mutant: the close of any connection of the name forgets the name.
ForgetByName(n) == TRUE

\* bye forgets the name only while it still resolves to this connection.
Forgets(n) == held = n

\* The "close" event: bye, which exists once bound; every waiting call is told.
Bye(n) ==
    /\ conns[n].sock = "closing"
    /\ conns' = Set(n, IF conns[n].at # "bound" THEN [conns[n] EXCEPT !.sock = "closed"]
                       ELSE [conns[n] EXCEPT !.sock = "closed", !.call = "none", !.url = "none"])
    /\ held' = IF conns[n].at = "bound" /\ Forgets(n) THEN 0 ELSE held
    /\ UNCHANGED <<bound, Registry, chain, faults>>

\* The heartbeat: 90 s of silence and the connection is terminated and forgotten.
Reap ==
    /\ held # 0 /\ conns[held].sock = "dead"
    /\ conns' = Set(held, [conns[held] EXCEPT !.sock = "closing"]) /\ held' = 0
    /\ UNCHANGED <<bound, Registry, chain, faults>>

\* The far end hangs up, or disappears without a word.
Drop(n) ==
    /\ Fault
    /\ conns[n].sock = "open"
    /\ \E s \in {"closing", "dead"} : conns' = Set(n, [conns[n] EXCEPT !.sock = s])
    /\ UNCHANGED <<held, bound, Registry, chain>>

\* Names are registered, handed over, dropped.
Register ==
    /\ Fault /\ row' \in Rows \ {row}
    /\ UNCHANGED <<conns, held, bound, reserved, cached, chain>>

Next ==
    \/ Dial("token", 0) \/ \E via \in {"operator", "attest"}, who \in Boxes : Dial(via, who)
    \/ \E n \in DOMAIN conns :
          \/ Attach(n) \/ Attest(n) \/ Verified(n) \/ OwnerKnown(n) \/ SignerOf(n)
          \/ AttachTimeout(n) \/ CloseDenied(n) \/ Hello(n)
          \/ Settle(n) \/ Opened(n) \/ Finish(n) \/ Bye(n) \/ Drop(n)
    \/ Send \/ SpliceUpgrade \/ Reap \/ Register

Spec == Init /\ [][Next]_vars

-----------------------------------------------------------------------------
\* The name resolves to the newest connection bound while that one is up,
\* however late the close of the one it displaced; no call waits on a
\* connection whose close was handled; and what is bound is a trusted operator's or
\* a machine its maker vouches for, whatever chain the key server served before
\* (bind, bye, the heartbeat, send, certChain).
TunnelSound ==
    /\ bound # <<>> /\ conns[bound[Len(bound)]].sock = "open" => held = bound[Len(bound)]
    /\ \A n \in DOMAIN conns :
          conns[n].sock = "closed" => conns[n].call = "none" /\ held # n
    /\ \A k \in DOMAIN bound :
          LET c == conns[bound[k]]
          IN  /\ c.via = "operator" => c.who \in Trusted
              /\ c.via = "attest" => c.maker \in {"amd", "google"}
===============================================================================
